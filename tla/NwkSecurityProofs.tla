-------------------------- MODULE NwkSecurityProofs --------------------------
(***************************************************************************)
(* Proofs about NwkSecurity, for every number of peers, keys, counters and *)
(* replay slots.                                                           *)
(***************************************************************************)
EXTENDS NwkSecurity, LeastElementProofs, FiniteSetTheorems, TLAPS

-----------------------------------------------------------------------------
(***************************************************************************)
(* Facts about the operators of the replay table.                          *)
(***************************************************************************)

(***************************************************************************)
(* First(S) is a slot of S.                                                *)
(***************************************************************************)
LEMMA FirstIn ==
  ASSUME NEW S \in SUBSET Slots, S # {}
  PROVE  First(S) \in S
<1>1. S \in SUBSET Nat
  BY SlotsAssumption DEF Slots
<1> QED
  BY <1>1, FirstIsLeast

(***************************************************************************)
(* A table without a free slot has an entry with the lowest counter.       *)
(***************************************************************************)
LEMMA LowestExists ==
  ASSUME TypeOK, FreeSlots = {}
  PROVE  Lowest # {}
<1> DEFINE C == {replay[s].lastCounter : s \in Slots}
<1>1. \A s \in Slots : replay[s] \in ReplayEntry
  BY DEF FreeSlots, Used, TypeOK
<1>2. 1 \in Slots
  BY SlotsAssumption DEF Slots
<1>3. C # {}
  BY <1>2
<1>4. C \in SUBSET Nat
  BY <1>1, BoundsAssumption DEF ReplayEntry
<1> HIDE DEF C
<1>5. PICK m \in C : \A n \in C : m <= n
  BY <1>3, <1>4, Minimum
<1>6. PICK s \in Slots : m = replay[s].lastCounter
  BY <1>5 DEF C
<1>7. s \in Lowest
  BY <1>5, <1>6 DEF C, Lowest
<1> QED
  BY <1>7

(***************************************************************************)
(* What SlotFor returns: the identity's own entry, else a free slot, else  *)
(* the one that Recycled reports.                                          *)
(***************************************************************************)
LEMMA SlotForChoice ==
  ASSUME TypeOK, NEW p \in Peers, NEW k \in KeySeqs
  PROVE  /\ SlotFor(p, k) \in Slots
         /\ Matches(p, k) # {} => SlotFor(p, k) \in Matches(p, k)
         /\ Matches(p, k) = {} => \/ ~Used(SlotFor(p, k))
                                  \/ LET e == replay[SlotFor(p, k)] IN
                                       Recycled(p, k) = {<<e.ieee, e.keySeq>>}
<1>1. Matches(p, k) \in SUBSET Slots /\ FreeSlots \in SUBSET Slots /\ Lowest \in SUBSET Slots
  BY DEF Matches, FreeSlots, Lowest
<1>2. CASE Matches(p, k) # {}
  BY <1>1, <1>2, FirstIn DEF SlotFor
<1>3. CASE Matches(p, k) = {} /\ FreeSlots # {}
  <2>1. SlotFor(p, k) \in FreeSlots
    BY <1>1, <1>3, FirstIn DEF SlotFor
  <2> QED
    BY <2>1, <1>1, <1>3 DEF FreeSlots
<1>4. CASE Matches(p, k) = {} /\ FreeSlots = {}
  <2>1. SlotFor(p, k) = First(Lowest)
    BY <1>4 DEF SlotFor
  <2>2. First(Lowest) \in Slots
    BY <1>1, <1>4, FirstIn, LowestExists
  <2> QED
    BY <2>1, <2>2, <1>4 DEF Recycled
<1> QED
  BY <1>2, <1>3, <1>4

-----------------------------------------------------------------------------
(***************************************************************************)
(* Type correctness.                                                       *)
(***************************************************************************)
LEMMA InitInd == Init => IndInv
<1> SUFFICES ASSUME Init PROVE IndInv
  OBVIOUS
<1>1. 0 \in KeySeqs /\ 0 \in 0 .. MaxCounter /\ 0 \in 0 .. MaxRestarts
  BY BoundsAssumption DEF KeySeqs
<1>2. queue \in [Peers -> Seq(DataFrame \union {AssociationRequest})]
  BY DEF Init
<1>3. TypeOK
  <2>1. Hub \in Nodes /\ key[Hub] = 0
    BY DEF Init, Nodes
  <2> QED
    BY <1>1, <1>2, <2>1 DEF Init, TypeOK
<1>4. UniqueIdentity /\ HandedRemembered /\ RepeatOnlyAfterEviction
  BY DEF Init, UniqueIdentity, HandedRemembered, RepeatOnlyAfterEviction, Used
<1> QED
  BY <1>3, <1>4 DEF IndInv

(***************************************************************************)
(* Steps that leave the table and its history alone.                       *)
(***************************************************************************)
LEMMA TableUnchanged ==
  ASSUME IndInv, TypeOK', UNCHANGED <<replay, handed, repeated, evicted>>
  PROVE  IndInv'
<1>1. UniqueIdentity'
  BY DEF IndInv, UniqueIdentity, Used
<1>2. HandedRemembered'
  BY DEF IndInv, HandedRemembered, HoldsId, Used
<1>3. RepeatOnlyAfterEviction'
  BY DEF IndInv, RepeatOnlyAfterEviction
<1> QED
  BY <1>1, <1>2, <1>3 DEF IndInv

(***************************************************************************)
(* The newest key of the Trust Center is one of its two.                   *)
(***************************************************************************)
LEMMA NewestType ==
  ASSUME TypeOK
  PROVE  Newest \in KeySeqs /\ Newest \in KeysOf(Hub)
<1>1. Hub \in Nodes
  BY DEF Nodes
<1>2. KeysOf(Hub) \in SUBSET KeySeqs /\ key[Hub] \in KeysOf(Hub)
  BY <1>1, PeersAssumption DEF TypeOK, KeysOf, KeySeqs
<1>3. KeySeqs \in SUBSET Int
  BY DEF KeySeqs
<1>4. \E k \in KeysOf(Hub) : \A j \in KeysOf(Hub) : k >= j
  <2>1. CASE altKey[Hub] \in KeysOf(Hub) /\ altKey[Hub] > key[Hub]
    <3>1. \A j \in KeysOf(Hub) : altKey[Hub] >= j
      <4> TAKE j \in KeysOf(Hub)
      <4>1. j = key[Hub] \/ j = altKey[Hub]
        BY DEF KeysOf
      <4>2. altKey[Hub] \in Int /\ key[Hub] \in Int
        BY <2>1, <1>2, <1>3
      <4> QED
        BY <4>1, <4>2, <2>1
    <3> QED
      BY <2>1, <3>1
  <2>2. CASE ~(altKey[Hub] \in KeysOf(Hub) /\ altKey[Hub] > key[Hub])
    <3>1. \A j \in KeysOf(Hub) : key[Hub] >= j
      <4> TAKE j \in KeysOf(Hub)
      <4>1. j = key[Hub] \/ j = altKey[Hub]
        BY DEF KeysOf
      <4>2. j \in Int /\ key[Hub] \in Int
        BY <1>2, <1>3
      <4> QED
        BY <4>1, <4>2, <2>2
    <3> QED
      BY <1>2, <3>1
  <2> QED
    BY <2>1, <2>2
<1>5. Newest \in KeysOf(Hub)
  BY <1>4 DEF Newest, Latest
<1> QED
  BY <1>2, <1>5

\* A step of a key rotation keeps the types.
LEMMA RotationType == IndInv /\ Rotation => TypeOK'
<1> SUFFICES ASSUME IndInv, Rotation PROVE TypeOK'
  OBVIOUS
<1> USE DEF history
<1>n. Newest \in KeySeqs
  BY NewestType DEF IndInv
<1>1. ASSUME StartRotation PROVE TypeOK'
  <2>1. Newest + 1 \in KeySeqs
    BY <1>1, <1>n, BoundsAssumption DEF StartRotation, KeySeqs
  <2> QED
    BY <1>1, <2>1 DEF StartRotation, IndInv, TypeOK
<1>2. ASSUME NEW p \in Peers, SetAlternateKey(p) PROVE TypeOK'
  BY <1>2, <1>n DEF SetAlternateKey, IndInv, TypeOK
<1>3. ASSUME NEW n \in Nodes, SwitchKey(n) PROVE TypeOK'
  <2>1. 0 \in 0 .. MaxCounter
    BY BoundsAssumption
  <2>2. counter' \in [Peers -> 0 .. MaxCounter]
    BY <1>3, <2>1 DEF SwitchKey, IndInv, TypeOK
  <2>3. /\ key' \in [Nodes -> KeySeqs \union {NoKey}]
        /\ altKey' \in [Nodes -> KeySeqs \union {NoKey}]
    BY <1>3 DEF SwitchKey, SwapKeys, IndInv, TypeOK
  <2>4. key'[Hub] \in KeySeqs
    BY <1>3, <1>n DEF SwitchKey, SwapKeys, IndInv, TypeOK, Nodes
  <2>5. \A p \in Peers : status'[p] = "up" => key'[p] \in KeySeqs
    BY <1>3, <1>n DEF SwitchKey, SwapKeys, IndInv, TypeOK, Nodes
  <2> QED
    BY <1>3, <2>2, <2>3, <2>4, <2>5 DEF SwitchKey, IndInv, TypeOK
<1> QED
  BY <1>1, <1>2, <1>3 DEF Rotation

(***************************************************************************)
(* The steps of a peer, and the hub's steps that leave the table alone.    *)
(***************************************************************************)
LEMMA PeerType == IndInv /\ Peer => TypeOK'
<1> SUFFICES ASSUME IndInv, NEW p \in Peers,
                    Restart(p) \/ Associate(p) \/ SecureNpdu(p)
             PROVE  TypeOK'
  BY DEF Peer
<1> USE DEF history, keyVars
<1>h. p # Hub /\ p \in Nodes
  BY PeersAssumption DEF Nodes
<1>1. CASE Restart(p)
  <2>1. 0 \in 0 .. MaxCounter /\ restarts' \in 0 .. MaxRestarts
    BY <1>1, BoundsAssumption DEF Restart, IndInv, TypeOK
  <2> QED
    BY <1>1, <1>h, <2>1 DEF Restart, IndInv, TypeOK, Nodes
<1>2. CASE Associate(p)
  <2>1. queue' \in [Peers -> Seq(DataFrame \union {AssociationRequest})]
    BY <1>2 DEF Associate, IndInv, TypeOK
  <2> QED
    BY <1>2, <2>1 DEF Associate, IndInv, TypeOK
<1>3. CASE SecureNpdu(p)
  <2>1. counter[p] + 1 \in 0 .. MaxCounter
    BY <1>3, BoundsAssumption DEF SecureNpdu, IndInv, TypeOK
  <2>2. counter' \in [Peers -> 0 .. MaxCounter] /\ counter'[p] \in 0 .. MaxCounter
    BY <1>3, <2>1 DEF SecureNpdu, IndInv, TypeOK
  <2> QED
    <3> DEFINE f == [type |-> "data", keySeq |-> key[p], counter |-> counter'[p]]
    <3>1. key[p] \in KeySeqs
      BY <1>3 DEF SecureNpdu, IndInv, TypeOK
    <3>2. f \in DataFrame
      BY <2>2, <3>1 DEF DataFrame
    <3> HIDE DEF f
    <3>3. queue' = [queue EXCEPT ![p] = Append(@, f)]
      BY <1>3 DEF SecureNpdu, f
    <3>4. Append(queue[p], f) \in Seq(DataFrame \union {AssociationRequest})
      BY <3>2 DEF IndInv, TypeOK
    <3>5. queue' \in [Peers -> Seq(DataFrame \union {AssociationRequest})]
      BY <3>3, <3>4 DEF IndInv, TypeOK
    <3> QED
      BY <1>3, <2>2, <3>5 DEF SecureNpdu, IndInv, TypeOK
<1> QED
  BY <1>1, <1>2, <1>3

\* A frame taken from the queue, or kept for want of its acknowledgement.
LEMMA ConsumeType ==
  ASSUME TypeOK, NEW p \in Peers, queue[p] # <<>>, Consume(p)
  PROVE  queue' \in [Peers -> Seq(DataFrame \union {AssociationRequest})]
<1>1. Tail(queue[p]) \in Seq(DataFrame \union {AssociationRequest})
  BY DEF TypeOK
<1> QED
  BY <1>1 DEF TypeOK, Consume

\* A frame dropped or a child forgotten leaves the replay table alone.
LEMMA DropForgetType ==
  ASSUME IndInv, NEW p \in Peers, DropNpdu(p) \/ ForgetChild(p)
  PROVE  TypeOK' /\ UNCHANGED <<replay, handed, repeated, evicted>>
<1> USE DEF history, keyVars
<1>1. CASE DropNpdu(p)
  <2>1. Consume(p) /\ queue[p] # <<>>
    BY <1>1 DEF DropNpdu, Consume
  <2> QED
    BY <1>1, <2>1, ConsumeType DEF DropNpdu, IndInv, TypeOK
<1>2. CASE ForgetChild(p)
  BY <1>2 DEF ForgetChild, IndInv, TypeOK
<1> QED
  BY <1>1, <1>2

-----------------------------------------------------------------------------
(***************************************************************************)
(* openNpdu accepts a frame: the entry it is recorded in is its own, free, *)
(* or the recycled one, and every other entry stays.                       *)
(***************************************************************************)
LEMMA OpenInd ==
  ASSUME IndInv, NEW p \in Peers, OpenNpdu(p)
  PROVE  IndInv'
<1> DEFINE f == Head(queue[p])
           k == f.keySeq
           c == f.counter
           s0 == SlotFor(p, k)
           e0 == [ieee |-> p, keySeq |-> k, lastCounter |-> c]
<1>t. TypeOK
  BY DEF IndInv
<1>1. f \in DataFrame
  <2>1. f \in DataFrame \union {AssociationRequest} /\ f.type = "data"
    BY <1>t DEF OpenNpdu, TypeOK
  <2> QED
    BY <2>1 DEF AssociationRequest
<1>2. k \in KeySeqs /\ c \in 0 .. MaxCounter /\ c \in Int
  BY <1>1, BoundsAssumption DEF DataFrame
<1>3. /\ s0 \in Slots
      /\ Matches(p, k) # {} => s0 \in Matches(p, k)
      /\ Matches(p, k) = {} => \/ ~Used(s0)
                               \/ Recycled(p, k) = {<<replay[s0].ieee, replay[s0].keySeq>>}
  BY <1>t, <1>2, SlotForChoice
<1>4. /\ Fresh(p, k, c)
      /\ replay' = [replay EXCEPT ![s0] = e0]
      /\ evicted' = evicted \union Recycled(p, k)
      /\ handed' = [handed EXCEPT ![p] = @ \union {<<k, c>>}]
      /\ repeated' = IF <<k, c>> \in handed[p] THEN repeated \union {<<p, k>>} ELSE repeated
  BY DEF OpenNpdu, Record
<1>5. e0 \in ReplayEntry /\ e0 # NoEntry /\ e0.ieee = p /\ e0.keySeq = k /\ e0.lastCounter = c
  BY <1>2, EntryAssumption DEF ReplayEntry
<1>6. Recycled(p, k) \subseteq Peers \X KeySeqs
  <2>1. CASE Matches(p, k) # {} \/ FreeSlots # {}
    BY <2>1 DEF Recycled
  <2>2. CASE Matches(p, k) = {} /\ FreeSlots = {}
    <3>1. Lowest \in SUBSET Slots /\ Lowest # {}
      BY <1>t, <2>2, LowestExists DEF Lowest
    <3>2. First(Lowest) \in Slots
      BY <3>1, FirstIn
    <3>3. replay[First(Lowest)] \in ReplayEntry
      BY <3>2, <2>2, <1>t DEF FreeSlots, Used, TypeOK
    <3> QED
      BY <3>3, <2>2 DEF Recycled, ReplayEntry
  <2> QED
    BY <2>1, <2>2
<1> HIDE DEF f, k, c, s0, e0
<1>7. TypeOK'
  <2>1. queue' \in [Peers -> Seq(DataFrame \union {AssociationRequest})]
    BY <1>t, ConsumeType DEF OpenNpdu
  <2>2. replay' \in [Slots -> ReplayEntry \union {NoEntry}]
    BY <1>t, <1>3, <1>4, <1>5 DEF TypeOK
  <2>3. handed' \in [Peers -> SUBSET (KeySeqs \X (0 .. MaxCounter))]
    BY <1>t, <1>2, <1>4 DEF TypeOK
  <2>4. repeated' \in SUBSET (Peers \X KeySeqs) /\ evicted' \in SUBSET (Peers \X KeySeqs)
    BY <1>t, <1>2, <1>4, <1>6 DEF TypeOK
  <2>5. UNCHANGED <<key, altKey, status, counter, restarts, children, unreset>>
    BY DEF OpenNpdu, keyVars
  <2> QED
    BY <1>t, <2>1, <2>2, <2>3, <2>4, <2>5 DEF TypeOK
<1>8. replay'[s0] = e0 /\ \A s \in Slots \ {s0} : replay'[s] = replay[s]
  BY <1>t, <1>3, <1>4 DEF TypeOK
\* no other slot holds the identity of the new entry
<1>9. \A s \in Slots \ {s0} : ~HoldsId(s, p, k)
  <2>1. CASE Matches(p, k) = {}
    BY <2>1 DEF Matches
  <2>2. CASE Matches(p, k) # {}
    BY <2>2, <1>3 DEF Matches, HoldsId, IndInv, UniqueIdentity
  <2> QED
    BY <2>1, <2>2
<1>10. UniqueIdentity'
  BY <1>5, <1>8, <1>9 DEF IndInv, UniqueIdentity, Used, HoldsId
\* an entry of another identity is only lost by being recycled
<1>11. ASSUME NEW q \in Peers, NEW j \in KeySeqs, NEW s \in Slots,
              HoldsId(s, q, j), <<q, j>> # <<p, k>>, <<q, j>> \notin evicted'
       PROVE  s # s0
  <2> SUFFICES ASSUME s = s0 PROVE FALSE
    OBVIOUS
  <2>1. Matches(p, k) = {}
    BY <1>3, <1>11 DEF Matches, HoldsId
  <2>2. Recycled(p, k) = {<<q, j>>}
    BY <2>1, <1>3, <1>11 DEF HoldsId
  <2> QED
    BY <2>2, <1>4, <1>11
<1>12. HandedRemembered'
  <2> SUFFICES ASSUME NEW q \in Peers, NEW h \in handed'[q], <<q, h[1]>> \notin evicted'
               PROVE  \E s \in Slots : HoldsId(s, q, h[1])' /\ h[2] <= replay'[s].lastCounter
    BY DEF HandedRemembered
  <2>0. h \in KeySeqs \X (0 .. MaxCounter)
    BY <1>7 DEF TypeOK
  <2>1. CASE h = <<k, c>> /\ q = p
    BY <2>1, <1>2, <1>3, <1>5, <1>8 DEF HoldsId, Used
  <2>2. CASE ~(h = <<k, c>> /\ q = p)
    <3>1. h \in handed[q]
      BY <2>2, <1>t, <1>4 DEF TypeOK
    <3>2. <<q, h[1]>> \notin evicted
      BY <1>4
    <3>3. PICK s \in Slots : HoldsId(s, q, h[1]) /\ h[2] <= replay[s].lastCounter
      BY <3>1, <3>2 DEF IndInv, HandedRemembered
    <3>4. CASE <<q, h[1]>> = <<p, k>>
      <4>1. s \in Matches(p, k) /\ s = s0
        BY <3>3, <3>4, <1>9 DEF Matches
      <4>2. c > replay[s].lastCounter
        BY <4>1, <1>4 DEF Fresh
      <4>3. replay[s].lastCounter \in Int
        BY <3>3, <1>t DEF HoldsId, Used, TypeOK, ReplayEntry
      <4>4. h[2] \in Int
        BY <2>0
      <4>5. h[2] <= c
        BY <3>3, <4>2, <4>3, <4>4, <1>2
      <4> QED
        BY <4>5, <3>4, <1>3, <1>5, <1>8 DEF HoldsId, Used
    <3>5. CASE <<q, h[1]>> # <<p, k>>
      <4>1. s # s0
        BY <3>3, <3>5, <2>0, <1>11
      <4> QED
        BY <4>1, <3>3, <1>8 DEF HoldsId, Used
    <3> QED
      BY <3>4, <3>5
  <2> QED
    BY <2>1, <2>2
<1>13. RepeatOnlyAfterEviction'
  <2> SUFFICES ASSUME <<k, c>> \in handed[p] PROVE <<p, k>> \in evicted
    BY <1>4 DEF IndInv, RepeatOnlyAfterEviction
  <2> SUFFICES ASSUME <<p, k>> \notin evicted PROVE FALSE
    OBVIOUS
  <2>1. PICK s \in Slots : HoldsId(s, p, k) /\ c <= replay[s].lastCounter
    BY DEF IndInv, HandedRemembered
  <2>2. c > replay[s].lastCounter
    BY <2>1, <1>4 DEF Fresh, Matches
  <2>3. replay[s].lastCounter \in Int
    BY <2>1, <1>t DEF HoldsId, Used, TypeOK, ReplayEntry
  <2> QED
    BY <2>1, <2>2, <2>3, <1>2
<1> QED
  BY <1>7, <1>10, <1>12, <1>13 DEF IndInv

(***************************************************************************)
(* An association of a known child clears all its entries, and with them   *)
(* what has to be remembered of it; other identities keep theirs.          *)
(***************************************************************************)
LEMMA AssociationInd ==
  ASSUME IndInv, NEW p \in Peers, AcceptAssociation(p)
  PROVE  IndInv'
<1>t. TypeOK
  BY DEF IndInv
<1>h. p # Hub /\ p \in Nodes
  BY PeersAssumption DEF Nodes
<1>1. TypeOK'
  <2>1. queue' \in [Peers -> Seq(DataFrame \union {AssociationRequest})]
    BY <1>t, ConsumeType DEF AcceptAssociation
  <2>2. /\ status' \in [Peers -> {"down", "joining", "up"}]
        /\ key' \in [Nodes -> KeySeqs \union {NoKey}]
        /\ altKey' \in [Nodes -> KeySeqs \union {NoKey}]
        /\ key'[Hub] \in KeySeqs
        /\ \A q \in Peers : status'[q] = "up" => key'[q] \in KeySeqs
    BY <1>t, <1>h DEF AcceptAssociation, TypeOK, keyVars, Nodes
  <2>3. replay' \in [Slots -> ReplayEntry \union {NoEntry}]
    BY <1>t DEF AcceptAssociation, WithoutPeer, TypeOK
  <2>4. /\ handed' \in [Peers -> SUBSET (KeySeqs \X (0 .. MaxCounter))]
        /\ children' \in SUBSET Peers /\ unreset' \in SUBSET Peers
    <3>1. handed' = handed \/ handed' = [handed EXCEPT ![p] = {}]
      BY DEF AcceptAssociation
    <3>2. handed' \in [Peers -> SUBSET (KeySeqs \X (0 .. MaxCounter))]
      BY <1>t, <3>1 DEF TypeOK
    <3>3. children' = children \union {p} /\ unreset' \in {unreset, unreset \union {p}}
      BY DEF AcceptAssociation
    <3> QED
      BY <1>t, <3>2, <3>3 DEF TypeOK
  <2>5. UNCHANGED <<counter, restarts, repeated, evicted>>
    BY DEF AcceptAssociation
  <2> QED
    BY <1>t, <2>1, <2>2, <2>3, <2>4, <2>5 DEF TypeOK
<1>2. CASE p \notin children
  <2>1. UNCHANGED <<replay, handed, repeated, evicted>>
    BY <1>2 DEF AcceptAssociation
  <2> QED
    BY <1>1, <2>1, TableUnchanged
<1>3. CASE p \in children
  <2>1. /\ replay' = WithoutPeer(p)
        /\ handed' = [handed EXCEPT ![p] = {}]
        /\ UNCHANGED <<repeated, evicted>>
    BY <1>3 DEF AcceptAssociation
  <2>2. \A s \in Slots : replay'[s] = IF Used(s) /\ replay[s].ieee = p THEN NoEntry ELSE replay[s]
    BY <2>1 DEF WithoutPeer
  <2>3. UniqueIdentity'
    BY <2>2 DEF IndInv, UniqueIdentity, Used
  <2>4. HandedRemembered'
    <3> SUFFICES ASSUME NEW q \in Peers, NEW h \in handed'[q], <<q, h[1]>> \notin evicted'
                 PROVE  \E s \in Slots : HoldsId(s, q, h[1])' /\ h[2] <= replay'[s].lastCounter
      BY DEF HandedRemembered
    <3>1. q # p /\ h \in handed[q]
      BY <2>1, <1>t DEF TypeOK
    <3>2. PICK s \in Slots : HoldsId(s, q, h[1]) /\ h[2] <= replay[s].lastCounter
      BY <2>1, <3>1 DEF IndInv, HandedRemembered
    <3>3. replay'[s] = replay[s]
      BY <2>2, <3>1, <3>2 DEF HoldsId
    <3> QED
      BY <3>2, <3>3 DEF HoldsId, Used
  <2>5. RepeatOnlyAfterEviction'
    BY <2>1 DEF IndInv, RepeatOnlyAfterEviction
  <2> QED
    BY <1>1, <2>3, <2>4, <2>5 DEF IndInv
<1> QED
  BY <1>2, <1>3

-----------------------------------------------------------------------------
(***************************************************************************)
(* Every step preserves the inductive invariant.                           *)
(***************************************************************************)
LEMMA NextInd == IndInv /\ [Next]_vars => IndInv'
<1> SUFFICES ASSUME IndInv, [Next]_vars PROVE IndInv'
  OBVIOUS
<1>1. CASE Rotation
  <2>1. UNCHANGED <<replay, handed, repeated, evicted>>
    BY <1>1 DEF Rotation, StartRotation, SetAlternateKey, SwitchKey, history
  <2> QED
    BY <1>1, <2>1, RotationType, TableUnchanged
<1>2. CASE Peer
  <2>1. UNCHANGED <<replay, handed, repeated, evicted>>
    BY <1>2 DEF Peer, Restart, Associate, SecureNpdu, history
  <2> QED
    BY <1>2, <2>1, PeerType, TableUnchanged
<1>3. CASE Receiver
  <2> SUFFICES ASSUME NEW p \in Peers,
                      OpenNpdu(p) \/ DropNpdu(p) \/ AcceptAssociation(p) \/ ForgetChild(p)
               PROVE  IndInv'
    BY <1>3 DEF Receiver
  <2>1. CASE OpenNpdu(p)
    BY <2>1, OpenInd
  <2>2. CASE AcceptAssociation(p)
    BY <2>2, AssociationInd
  <2>3. CASE DropNpdu(p) \/ ForgetChild(p)
    BY <2>3, DropForgetType, TableUnchanged
  <2> QED
    BY <2>1, <2>2, <2>3
<1>4. CASE UNCHANGED vars
  <2>1. /\ UNCHANGED <<key, altKey, replay, status, counter, queue>>
        /\ UNCHANGED <<restarts, children, handed, repeated, evicted, unreset>>
    BY <1>4 DEF vars
  <2>t. TypeOK'
    BY <2>1 DEF IndInv, TypeOK
  <2>2. UNCHANGED <<replay, handed, repeated, evicted>>
    BY <1>4 DEF vars
  <2> QED
    BY <2>t, <2>2, TableUnchanged
<1> QED
  BY <1>1, <1>2, <1>3, <1>4 DEF Next

(***************************************************************************)
(* The inductive invariant holds in every reachable state.                 *)
(***************************************************************************)
THEOREM IndInvariant == Spec => []IndInv
  BY InitInd, NextInd, PTL DEF Spec

(***************************************************************************)
(* The key state, the replay table and the frames under way keep their     *)
(* types; a peer that is up has a network key.                             *)
(***************************************************************************)
THEOREM TypeCorrect == Spec => []TypeOK
<1>1. IndInv => TypeOK
  BY DEF IndInv
<1> QED
  BY IndInvariant, <1>1, PTL

(***************************************************************************)
(* replayCheckAndUpdate never makes a second entry for an identity,        *)
(* whatever the table's size and the holes that resetReplayPeer left.      *)
(***************************************************************************)
THEOREM OneEntryPerIdentity == Spec => []UniqueIdentity
<1>1. IndInv => UniqueIdentity
  BY DEF IndInv
<1> QED
  BY IndInvariant, <1>1, PTL

(***************************************************************************)
(* A frame is handed up twice only if the full table recycled the entry of *)
(* its sender and key.                                                     *)
(***************************************************************************)
THEOREM ReplaySafety == Spec => []RepeatOnlyAfterEviction
<1>1. IndInv => RepeatOnlyAfterEviction
  BY DEF IndInv
<1> QED
  BY IndInvariant, <1>1, PTL

-----------------------------------------------------------------------------
(***************************************************************************)
(* The pigeonhole: while there is a slot for every peer and key, a fresh   *)
(* frame of an identity without an entry finds a free slot.                *)
(***************************************************************************)
LEMMA EnoughSlotsNoRecycling ==
  ASSUME TypeOK, UniqueIdentity, IsFiniteSet(Peers \X KeySeqs),
         Cardinality(Peers \X KeySeqs) <= ReplaySlots,
         NEW p \in Peers, NEW k \in KeySeqs
  PROVE  Recycled(p, k) = {}
<1> SUFFICES ASSUME Matches(p, k) = {}, FreeSlots = {} PROVE FALSE
  BY DEF Recycled
<1> DEFINE Ids == Peers \X KeySeqs
           T == Ids \ {<<p, k>>}
           id == [s \in Slots |-> <<replay[s].ieee, replay[s].keySeq>>]
<1>1. IsFiniteSet(Slots) /\ Cardinality(Slots) = ReplaySlots
  BY FS_Interval, SlotsAssumption DEF Slots
<1>2. /\ IsFiniteSet(T)
      /\ Cardinality(T) = Cardinality(Ids) - 1
      /\ Cardinality(Ids) \in Nat
  <2> HIDE DEF Ids
  <2>1. IsFiniteSet(Ids) /\ <<p, k>> \in Ids
    BY DEF Ids
  <2> QED
    BY <2>1, FS_RemoveElement, FS_CardinalityType
<1>3. Cardinality(T) < Cardinality(Slots)
  BY <1>1, <1>2, SlotsAssumption
<1>4. id \in [Slots -> T]
  <2> SUFFICES ASSUME NEW s \in Slots
               PROVE  <<replay[s].ieee, replay[s].keySeq>> \in T
    OBVIOUS
  <2>1. replay[s] \in ReplayEntry /\ Used(s)
    BY DEF FreeSlots, Used, TypeOK
  <2>2. ~HoldsId(s, p, k)
    BY DEF Matches
  <2> QED
    BY <2>1, <2>2 DEF ReplayEntry, HoldsId
<1> HIDE DEF T
<1>5. PICK s, t \in Slots : s # t /\ id[s] = id[t]
  <2> HIDE DEF id
  <2> QED
    BY <1>1, <1>2, <1>3, <1>4, FS_PigeonHole
<1>6. Used(s) /\ Used(t)
  BY DEF FreeSlots
<1> QED
  BY <1>5, <1>6 DEF UniqueIdentity

(***************************************************************************)
(* The sizing rule for kMaxReplayPeers: with a slot for every peer and     *)
(* every key sequence it uses, no entry is recycled and no frame is handed *)
(* up twice between two associations of its sender.                        *)
(***************************************************************************)
THEOREM NoRepeatWithEnoughSlots ==
  ASSUME IsFiniteSet(Peers \X KeySeqs), Cardinality(Peers \X KeySeqs) <= ReplaySlots
  PROVE  Spec => [](repeated = {})
<1>1. Init => evicted = {}
  BY DEF Init
<1>2. IndInv /\ evicted = {} /\ [Next]_vars => (evicted = {})'
  <2> SUFFICES ASSUME IndInv, evicted = {}, [Next]_vars PROVE evicted' = {}
    OBVIOUS
  <2>1. ASSUME NEW p \in Peers, OpenNpdu(p) PROVE evicted' = {}
    <3> DEFINE f == Head(queue[p])
    <3>1. f.keySeq \in KeySeqs
      <4>1. f \in DataFrame \union {AssociationRequest} /\ f.type = "data"
        BY <2>1 DEF OpenNpdu, IndInv, TypeOK
      <4> QED
        BY <4>1 DEF AssociationRequest, DataFrame
    <3>2. evicted' = evicted \union Recycled(p, f.keySeq)
      BY <2>1 DEF OpenNpdu
    <3> QED
      BY <3>1, <3>2, EnoughSlotsNoRecycling DEF IndInv
  <2>2. ASSUME ~\E p \in Peers : OpenNpdu(p) PROVE evicted' = evicted
    BY <2>2
    DEF Next, Rotation, StartRotation, SetAlternateKey, SwitchKey, Peer, Restart, Associate,
        SecureNpdu, Receiver, DropNpdu, AcceptAssociation, ForgetChild, history, vars
  <2> QED
    BY <2>1, <2>2
<1>3. IndInv /\ evicted = {} => repeated = {}
  BY DEF IndInv, RepeatOnlyAfterEviction
<1> QED
  BY IndInvariant, <1>1, <1>2, <1>3, PTL DEF Spec

-----------------------------------------------------------------------------
(***************************************************************************)
(* The second half: the hub can open what its peers send across a key      *)
(* rotation, and does not reject a peer for the counters of its former     *)
(* life, for every number of peers, keys, counters and slots.              *)
(***************************************************************************)
-----------------------------------------------------------------------------
(***************************************************************************)
(* Keys.                                                                   *)
(***************************************************************************)

(***************************************************************************)
(* At the start nobody is in the network and nothing is on its way.        *)
(***************************************************************************)
LEMMA KeyInit == Init => KeyInv
<1> SUFFICES ASSUME Init PROVE KeyInv
  OBVIOUS
<1>1. \A p \in Peers : status[p] = "down" /\ queue[p] = <<>>
  BY DEF Init
<1>2. \A p \in Peers : Waiting(p) = {}
  BY <1>1 DEF Waiting
<1> QED
  BY <1>1, <1>2 DEF KeyInv, OpensAcrossSwitch, SendsUnderHubKeys

(***************************************************************************)
(* A step that takes no key from the hub, gives a peer in the network only *)
(* a key of the hub, and adds only frames under such a key, keeps KeyInv.  *)
(***************************************************************************)
LEMMA KeysKept ==
  ASSUME KeyInv, KeysOf(Hub) \subseteq KeysOf(Hub)',
         \A p \in Peers : status'[p] = "up" =>
           (status[p] = "up" /\ key'[p] = key[p]) \/ key'[p] \in KeysOf(Hub)',
         \A p \in Peers : \A f \in Waiting(p)' :
           f \in Waiting(p) \/ (f.type = "data" => f.keySeq \in KeysOf(Hub)')
  PROVE  KeyInv'
<1>1. SendsUnderHubKeys'
  BY DEF KeyInv, SendsUnderHubKeys
<1>2. OpensAcrossSwitch'
  BY DEF KeyInv, OpensAcrossSwitch, CanOpen
<1> QED
  BY <1>1, <1>2 DEF KeyInv

(***************************************************************************)
(* The frames that a consumed or an appended frame leaves in a queue.      *)
(***************************************************************************)
LEMMA WaitingAfterConsume ==
  ASSUME TypeOK, NEW p \in Peers, queue[p] # <<>>, Consume(p)
  PROVE  \A q \in Peers : Waiting(q)' \subseteq Waiting(q)
<1> SUFFICES ASSUME NEW q \in Peers PROVE Waiting(q)' \subseteq Waiting(q)
  OBVIOUS
<1>1. CASE UNCHANGED queue
  BY <1>1 DEF Waiting
<1>2. CASE queue' = [queue EXCEPT ![p] = Tail(@)]
  <2>1. queue \in [Peers -> Seq(DataFrame \union {AssociationRequest})]
    BY DEF TypeOK
  <2>2. CASE q # p
    BY <1>2, <2>1, <2>2 DEF Waiting
  <2>3. CASE q = p
    <3> DEFINE s == queue[p]
    <3>1. s \in Seq(DataFrame \union {AssociationRequest}) /\ s # <<>>
      BY <2>1
    <3>2. queue'[p] = Tail(s)
      BY <1>2, <2>1
    <3>3. Waiting(p)' = {Tail(s)[i] : i \in 1 .. Len(Tail(s))}
      BY <3>2 DEF Waiting
    <3>4. \A i \in 1 .. Len(Tail(s)) : i + 1 \in 1 .. Len(s) /\ Tail(s)[i] = s[i + 1]
      BY <3>1
    <3>5. \A i \in 1 .. Len(Tail(s)) : Tail(s)[i] \in Waiting(p)
      BY <3>4 DEF Waiting
    <3> QED
      BY <2>3, <3>3, <3>5
  <2> QED
    BY <2>2, <2>3
<1> QED
  BY <1>1, <1>2 DEF Consume

\* A frame sent is the only one added to those on their way.
LEMMA WaitingAfterAppend ==
  ASSUME TypeOK, NEW p \in Peers, NEW f,
         queue' = [queue EXCEPT ![p] = Append(@, f)]
  PROVE  \A q \in Peers : Waiting(q)' \subseteq
           Waiting(q) \union (IF q = p THEN {f} ELSE {})
<1> SUFFICES ASSUME NEW q \in Peers
             PROVE  Waiting(q)' \subseteq Waiting(q) \union (IF q = p THEN {f} ELSE {})
  OBVIOUS
<1>1. queue \in [Peers -> Seq(DataFrame \union {AssociationRequest})]
  BY DEF TypeOK
<1>2. CASE q # p
  BY <1>1, <1>2 DEF Waiting
<1>3. CASE q = p
  <2> DEFINE s == queue[p]
  <2>1. s \in Seq(DataFrame \union {AssociationRequest})
    BY <1>1
  <2>2. queue'[p] = Append(s, f)
    BY <1>1
  <2>3. Waiting(p)' = {Append(s, f)[i] : i \in 1 .. Len(Append(s, f))}
    BY <2>2 DEF Waiting
  <2>4. \A i \in 1 .. Len(Append(s, f)) :
          (i \in 1 .. Len(s) /\ Append(s, f)[i] = s[i]) \/ Append(s, f)[i] = f
    BY <2>1
  <2> QED
    BY <1>3, <2>3, <2>4 DEF Waiting
<1> QED
  BY <1>2, <1>3

(***************************************************************************)
(* Every step keeps KeyInv: a rotation only adds a key to the hub or swaps *)
(* its two, and it starts when the old key's last frame has arrived.       *)
(***************************************************************************)
LEMMA KeyStep ==
  ASSUME TypeOK, TypeOK', KeyInv, [Next]_vars
  PROVE  KeyInv'
<1> USE DEF TypeOK
<1>1. Hub \in Nodes /\ Peers \subseteq Nodes /\ Hub \notin Peers
  BY PeersAssumption DEF Nodes
<1>2. ASSUME UNCHANGED keyVars PROVE KeysOf(Hub)' = KeysOf(Hub)
  BY <1>2 DEF keyVars, KeysOf
<1>3. ASSUME UNCHANGED queue PROVE \A p \in Peers : Waiting(p)' = Waiting(p)
  BY <1>3 DEF Waiting
<1>4. CASE StartRotation
  <2>1. altKey' = [altKey EXCEPT ![Hub] = Newest + 1]
    BY <1>4 DEF StartRotation
  <2>2. UNCHANGED <<key, status, queue>>
    BY <1>4 DEF StartRotation
  <2>3. key[Hub] \in KeysOf(Hub)'
    BY <2>1, <2>2, <1>1, PeersAssumption DEF KeysOf, KeySeqs
  <2>4. \A p \in Peers : status[p] = "up" => key[p] = key[Hub]
    BY <1>4 DEF StartRotation
  <2>5. \A p \in Peers : \A f \in Waiting(p) : f.type = "data" => f.keySeq = key[Hub]
    BY <1>4 DEF StartRotation
  <2>6. SendsUnderHubKeys'
    BY <2>2, <2>3, <2>4 DEF SendsUnderHubKeys
  <2>7. OpensAcrossSwitch'
    BY <2>2, <2>3, <2>5, <1>3 DEF OpensAcrossSwitch, CanOpen
  <2> QED
    BY <2>6, <2>7 DEF KeyInv
<1>5. ASSUME NEW p \in Peers, SetAlternateKey(p) PROVE KeyInv'
  <2>1. KeysOf(Hub)' = KeysOf(Hub)
    BY <1>5, <1>1 DEF SetAlternateKey, KeysOf
  <2>2. UNCHANGED <<key, status, queue>>
    BY <1>5 DEF SetAlternateKey
  <2> QED
    BY <2>1, <2>2, <1>3, KeysKept
<1>6. ASSUME NEW n \in Nodes, SwitchKey(n) PROVE KeyInv'
  <2>1. key' = [key EXCEPT ![n] = altKey[n]] /\ altKey' = [altKey EXCEPT ![n] = key[n]]
    BY <1>6 DEF SwitchKey, SwapKeys
  <2>2. UNCHANGED <<status, queue>>
    BY <1>6 DEF SwitchKey
  <2>3. altKey[n] \in KeysOf(Hub)
    BY <1>6, NewestType DEF SwitchKey
  <2>4. KeysOf(Hub)' = KeysOf(Hub)
    <3>1. CASE n = Hub
      BY <2>1, <3>1, <1>1 DEF KeysOf
    <3>2. CASE n # Hub
      BY <2>1, <3>2, <1>1 DEF KeysOf
    <3> QED
      BY <3>1, <3>2
  <2>5. \A p \in Peers : key'[p] = key[p] \/ key'[p] = altKey[n]
    BY <2>1, <1>1
  <2> QED
    BY <2>2, <2>3, <2>4, <2>5, <1>3, KeysKept
<1>7. ASSUME NEW p \in Peers, Restart(p) PROVE KeyInv'
  <2>1. key' = [key EXCEPT ![p] = NoKey] /\ altKey' = [altKey EXCEPT ![p] = NoKey]
    BY <1>7 DEF Restart
  <2>2. KeysOf(Hub)' = KeysOf(Hub)
    BY <2>1, <1>1 DEF KeysOf
  <2>3. status' = [status EXCEPT ![p] = "down"]
    BY <1>7 DEF Restart
  <2>4. \A q \in Peers : status'[q] = "up" => status[q] = "up" /\ key'[q] = key[q]
    BY <2>1, <2>3, <1>1
  <2>5. UNCHANGED queue
    BY <1>7 DEF Restart
  <2> QED
    BY <2>2, <2>4, <2>5, <1>3, KeysKept
<1>8. ASSUME NEW p \in Peers, Associate(p) PROVE KeyInv'
  <2>1. UNCHANGED keyVars /\ status' = [status EXCEPT ![p] = "joining"]
    BY <1>8 DEF Associate
  <2>2. \A q \in Peers : status'[q] = "up" => status[q] = "up" /\ key'[q] = key[q]
    BY <2>1 DEF keyVars
  <2>3. queue' = [queue EXCEPT ![p] = Append(@, AssociationRequest)]
    BY <1>8 DEF Associate
  <2>4. \A q \in Peers : \A f \in Waiting(q)' : f \in Waiting(q) \/ f = AssociationRequest
    BY <2>3, WaitingAfterAppend
  <2>5. AssociationRequest.type # "data"
    BY DEF AssociationRequest
  <2> QED
    BY <2>1, <2>2, <2>4, <2>5, <1>2, KeysKept
<1>9. ASSUME NEW p \in Peers, SecureNpdu(p) PROVE KeyInv'
  <2> DEFINE g == [type |-> "data", keySeq |-> key[p], counter |-> counter'[p]]
  <2>1. UNCHANGED keyVars /\ UNCHANGED status /\ status[p] = "up"
    BY <1>9 DEF SecureNpdu
  <2>2. queue' = [queue EXCEPT ![p] = Append(@, g)]
    BY <1>9 DEF SecureNpdu
  <2>3. g.keySeq \in KeysOf(Hub)
    BY <2>1 DEF KeyInv, SendsUnderHubKeys
  <2>4. \A q \in Peers : \A f \in Waiting(q)' : f \in Waiting(q) \/ f = g
    <3> HIDE DEF g
    <3> QED
      BY <2>2, WaitingAfterAppend
  <2>5. UNCHANGED key
    BY <2>1 DEF keyVars
  <2> HIDE DEF g
  <2> QED
    BY <2>1, <2>3, <2>4, <2>5, <1>2, KeysKept
<1>10. ASSUME NEW p \in Peers, OpenNpdu(p) \/ DropNpdu(p) PROVE KeyInv'
  <2>1. UNCHANGED keyVars /\ UNCHANGED status
    BY <1>10 DEF OpenNpdu, DropNpdu
  <2>2. queue[p] # <<>> /\ Consume(p)
    BY <1>10 DEF OpenNpdu, DropNpdu, Consume
  <2>3. \A q \in Peers : Waiting(q)' \subseteq Waiting(q)
    BY <2>2, WaitingAfterConsume
  <2>4. UNCHANGED key
    BY <2>1 DEF keyVars
  <2> QED
    BY <2>1, <2>3, <2>4, <1>2, KeysKept
<1>11. ASSUME NEW p \in Peers, AcceptAssociation(p) PROVE KeyInv'
  <2>1. queue[p] # <<>> /\ Consume(p)
    BY <1>11 DEF AcceptAssociation
  <2>2. \A q \in Peers : Waiting(q)' \subseteq Waiting(q)
    BY <2>1, WaitingAfterConsume
  <2>3. CASE UNCHANGED <<status, keyVars>>
    <3>1. UNCHANGED status /\ UNCHANGED keyVars /\ UNCHANGED key
      BY <2>3 DEF keyVars
    <3> QED
      BY <3>1, <2>2, <1>2, KeysKept
  <2>4. CASE /\ status' = [status EXCEPT ![p] = "up"]
             /\ key' = [key EXCEPT ![p] = key[Hub]]
             /\ UNCHANGED altKey
    <3>1. KeysOf(Hub)' = KeysOf(Hub) /\ key[Hub] \in KeysOf(Hub)
      BY <2>4, <1>1, PeersAssumption DEF KeysOf, KeySeqs
    <3>2. \A q \in Peers : q # p => status'[q] = status[q] /\ key'[q] = key[q]
      BY <2>4, <1>1
    <3>3. key'[p] = key[Hub]
      BY <2>4, <1>1
    <3> QED
      BY <3>1, <3>2, <3>3, <2>2, KeysKept
  <2> QED
    BY <1>11, <2>3, <2>4 DEF AcceptAssociation
<1>12. ASSUME NEW p \in Peers, ForgetChild(p) PROVE KeyInv'
  <2>1. UNCHANGED keyVars /\ UNCHANGED <<status, queue>>
    BY <1>12 DEF ForgetChild
  <2>2. UNCHANGED key
    BY <2>1 DEF keyVars
  <2> QED
    BY <2>1, <2>2, <1>2, <1>3, KeysKept
<1>13. CASE UNCHANGED vars
  <2>1. UNCHANGED keyVars /\ UNCHANGED <<key, status, queue>>
    BY <1>13 DEF vars, keyVars
  <2> QED
    BY <2>1, <1>2, <1>3, KeysKept
<1> QED
  BY <1>4, <1>5, <1>6, <1>7, <1>8, <1>9, <1>10, <1>11, <1>12, <1>13
  DEF Next, Rotation, Peer, Receiver

(***************************************************************************)
(* Whatever the order in which the nodes of a network switch, and however  *)
(* long frames are on their way, the hub holds the key of every frame that *)
(* is sent to it (openNpdu with key_ and altKey_).                         *)
(***************************************************************************)
THEOREM OpensAcrossSwitchAlways == Spec => []OpensAcrossSwitch
<1>1. IndInv => TypeOK
  BY DEF IndInv
<1>2. IndInv /\ IndInv' /\ KeyInv /\ [Next]_vars => KeyInv'
  BY KeyStep, <1>1 DEF IndInv
<1>3. KeyInv => OpensAcrossSwitch
  BY DEF KeyInv
<1> QED
  BY IndInvariant, KeyInit, <1>2, <1>3, PTL DEF Spec

-----------------------------------------------------------------------------
(***************************************************************************)
(* Counters.                                                               *)
(***************************************************************************)
LEMMA LockoutInit == Init => LockoutInv
<1> SUFFICES ASSUME Init PROVE LockoutInv
  OBVIOUS
<1>1. \A p \in Peers : status[p] = "down" /\ DOMAIN queue[p] = {}
  BY DEF Init
<1> QED
  BY <1>1 DEF LockoutInv, NoLockout, CountersBelow, OneRequest, RequestBehindData

(***************************************************************************)
(* Steps of the keys and of the neighbor table touch nothing LockoutInv    *)
(* speaks of.                                                              *)
(***************************************************************************)
LEMMA LockoutUnchanged ==
  ASSUME LockoutInv, UNCHANGED <<replay, status, counter, queue, unreset>>
  PROVE  LockoutInv'
<1>1. UNCHANGED replay /\ UNCHANGED status /\ UNCHANGED counter
      /\ UNCHANGED queue /\ UNCHANGED unreset
  OBVIOUS
<1>2. NoLockout'
  BY <1>1 DEF LockoutInv, NoLockout, Used
<1>3. CountersBelow'
  BY <1>1 DEF LockoutInv, CountersBelow
<1>4. OneRequest' /\ RequestBehindData'
  BY <1>1 DEF LockoutInv, OneRequest, RequestBehindData
<1> QED
  BY <1>2, <1>3, <1>4 DEF LockoutInv

(***************************************************************************)
(* Consuming a frame moves the others up by d places.                      *)
(***************************************************************************)
LEMMA ConsumeShifts ==
  ASSUME TypeOK, NEW p \in Peers, queue[p] # <<>>, Consume(p)
  PROVE  \E d \in {0, 1} :
           /\ DOMAIN queue'[p] = 1 .. (Len(queue[p]) - d)
           /\ \A i \in DOMAIN queue'[p] :
                i + d \in DOMAIN queue[p] /\ queue'[p][i] = queue[p][i + d]
<1> DEFINE s == queue[p]
<1>1. queue \in [Peers -> Seq(DataFrame \union {AssociationRequest})]
  BY DEF TypeOK
<1>2. s \in Seq(DataFrame \union {AssociationRequest}) /\ s # <<>>
  BY <1>1
<1>3. Len(s) \in Nat /\ DOMAIN s = 1 .. Len(s)
  BY <1>2
<1>4. CASE UNCHANGED queue
  <2>1. queue'[p] = s
    BY <1>4
  <2>2. \A i \in 1 .. Len(s) : i + 0 = i
    OBVIOUS
  <2> QED
    BY <2>1, <2>2, <1>3
<1>5. CASE queue' = [queue EXCEPT ![p] = Tail(@)]
  <2>1. queue'[p] = Tail(s)
    BY <1>5, <1>1
  <2>2. DOMAIN Tail(s) = 1 .. (Len(s) - 1)
    BY <1>2
  <2>3. \A i \in 1 .. (Len(s) - 1) : i + 1 \in DOMAIN s /\ Tail(s)[i] = s[i + 1]
    BY <1>2, <1>3
  <2> QED
    BY <2>1, <2>2, <2>3
<1> QED
  BY <1>4, <1>5 DEF Consume

\* A frame of one peer is consumed: the queues of others stay.
LEMMA ConsumeLeavesOthers ==
  ASSUME TypeOK, NEW p \in Peers, Consume(p)
  PROVE  \A q \in Peers : q # p => queue'[q] = queue[q]
BY DEF Consume, TypeOK

(***************************************************************************)
(* What consuming a frame of p keeps: the order of what is left.           *)
(***************************************************************************)
LEMMA ConsumeKeepsOrder ==
  ASSUME TypeOK, LockoutInv, NEW p \in Peers, queue[p] # <<>>, Consume(p),
         \A q \in Peers : status'[q] = "joining" => status[q] = "joining"
  PROVE  OneRequest' /\ RequestBehindData'
<1>1. PICK d \in {0, 1} :
        /\ DOMAIN queue'[p] = 1 .. (Len(queue[p]) - d)
        /\ \A i \in DOMAIN queue'[p] :
             i + d \in DOMAIN queue[p] /\ queue'[p][i] = queue[p][i + d]
  BY ConsumeShifts
<1>2. \A q \in Peers : q # p => queue'[q] = queue[q]
  BY ConsumeLeavesOthers
<1>3. DOMAIN queue[p] = 1 .. Len(queue[p]) /\ Len(queue[p]) \in Nat
  BY DEF TypeOK
<1>4. OneRequest'
  <2> SUFFICES ASSUME NEW q \in Peers, NEW i \in DOMAIN queue'[q], NEW j \in DOMAIN queue'[q],
                      queue'[q][i] = AssociationRequest, queue'[q][j] = AssociationRequest
               PROVE  i = j
    BY DEF OneRequest, AssociationRequest
  <2>1. CASE q # p
    BY <2>1, <1>2 DEF LockoutInv, OneRequest
  <2>2. CASE q = p
    <3>1. i + d = j + d
      BY <2>2, <1>1 DEF LockoutInv, OneRequest
    <3>2. i \in Nat /\ j \in Nat /\ d \in Nat
      BY <2>2, <1>1, <1>3
    <3> QED
      BY <3>1, <3>2
  <2> QED
    BY <2>1, <2>2
<1>5. RequestBehindData'
  <2> SUFFICES ASSUME NEW q \in Peers, status'[q] = "joining",
                      NEW i \in DOMAIN queue'[q], queue'[q][i].type = "data"
               PROVE  \E j \in DOMAIN queue'[q] : i < j /\ queue'[q][j] = AssociationRequest
    BY DEF RequestBehindData, AssociationRequest
  <2>1. status[q] = "joining"
    OBVIOUS
  <2>2. CASE q # p
    BY <2>1, <2>2, <1>2 DEF LockoutInv, RequestBehindData
  <2>3. CASE q = p
    <3>1. i \in Nat /\ d \in Nat /\ i >= 1
      BY <2>3, <1>1, <1>3
    <3>2. PICK j \in DOMAIN queue[p] : i + d < j /\ queue[p][j] = AssociationRequest
      BY <2>1, <2>3, <1>1 DEF LockoutInv, RequestBehindData
    <3>3. j - d \in DOMAIN queue'[p] /\ i < j - d /\ (j - d) + d = j
      BY <3>1, <3>2, <1>1, <1>3
    <3> QED
      BY <3>2, <3>3, <2>3, <1>1
  <2> QED
    BY <2>2, <2>3
<1> QED
  BY <1>4, <1>5

(***************************************************************************)
(* ... and the bound of the peers that are in the network.                 *)
(***************************************************************************)
LEMMA ConsumeKeepsBound ==
  ASSUME TypeOK, LockoutInv, NEW p \in Peers, queue[p] # <<>>, Consume(p),
         NEW q \in Peers, status[q] = "up", UNCHANGED counter
  PROVE  \A i \in DOMAIN queue'[q] :
           queue'[q][i].type = "data" => queue'[q][i].counter <= counter'[q]
<1>1. CASE q # p
  BY <1>1, ConsumeLeavesOthers DEF LockoutInv, CountersBelow
<1>2. CASE q = p
  BY <1>2, ConsumeShifts DEF LockoutInv, CountersBelow
<1> QED
  BY <1>1, <1>2

(***************************************************************************)
(* A fresh frame of a peer in the network is recorded with a counter the   *)
(* peer has reached.                                                       *)
(***************************************************************************)
LEMMA OpenKeepsLockout ==
  ASSUME TypeOK, LockoutInv, NEW p \in Peers, OpenNpdu(p)
  PROVE  LockoutInv'
<1> DEFINE f == Head(queue[p])
<1>1. queue[p] # <<>> /\ Consume(p) /\ f.type = "data"
  BY DEF OpenNpdu
<1>2. UNCHANGED status /\ UNCHANGED counter /\ UNCHANGED unreset
  BY DEF OpenNpdu
<1>3. OneRequest' /\ RequestBehindData'
  BY <1>1, <1>2, ConsumeKeepsOrder
<1>4. CountersBelow'
  BY <1>1, <1>2, ConsumeKeepsBound DEF CountersBelow
<1>5. 1 \in DOMAIN queue[p] /\ f = queue[p][1]
      /\ f \in DataFrame \union {AssociationRequest}
  <2>1. queue[p] \in Seq(DataFrame \union {AssociationRequest})
    BY DEF TypeOK
  <2> QED
    BY <2>1, <1>1
<1>6. f.keySeq \in KeySeqs
  BY <1>1, <1>5 DEF AssociationRequest, DataFrame
<1>7. NoLockout'
  <2> SUFFICES ASSUME NEW q \in Peers, status[q] = "up", q \notin unreset,
                      NEW s \in Slots, replay'[s] # NoEntry, replay'[s].ieee = q
               PROVE  replay'[s].lastCounter <= counter[q]
    BY <1>2 DEF NoLockout, Used
  <2> DEFINE r == SlotFor(p, f.keySeq)
  <2>1. replay' = [replay EXCEPT ![r] =
                     [ieee |-> p, keySeq |-> f.keySeq, lastCounter |-> f.counter]]
    BY DEF OpenNpdu, Record
  <2>2. r \in Slots /\ replay \in [Slots -> ReplayEntry \union {NoEntry}]
    BY <1>6, SlotForChoice DEF TypeOK
  <2> HIDE DEF r, f
  <2>3. CASE s = r
    <3>1. replay'[s] = [ieee |-> p, keySeq |-> f.keySeq, lastCounter |-> f.counter]
      BY <2>1, <2>2, <2>3
    <3>2. q = p /\ replay'[s].lastCounter = f.counter
      BY <3>1
    <3>3. f.counter <= counter[p]
      BY <3>2, <1>1, <1>5 DEF LockoutInv, CountersBelow
    <3> QED
      BY <3>2, <3>3
  <2>4. CASE s # r
    <3>1. replay'[s] = replay[s]
      BY <2>1, <2>2, <2>4
    <3> QED
      BY <3>1 DEF LockoutInv, NoLockout, Used
  <2> QED
    BY <2>3, <2>4
<1> QED
  BY <1>3, <1>4, <1>7 DEF LockoutInv

(***************************************************************************)
(* A peer that comes back: nothing of its former life is behind its        *)
(* request, and the hub forgot its entries, or p is in unreset.            *)
(***************************************************************************)
LEMMA AcceptKeepsLockout ==
  ASSUME TypeOK, LockoutInv, NEW p \in Peers, AcceptAssociation(p)
  PROVE  LockoutInv'
<1>1. queue[p] # <<>> /\ Consume(p) /\ Head(queue[p]) = AssociationRequest
  BY DEF AcceptAssociation
<1>2. UNCHANGED counter
  BY DEF AcceptAssociation
<1>3. (status[p] = "joining" /\ status' = [status EXCEPT ![p] = "up"]) \/ UNCHANGED status
  BY DEF AcceptAssociation
<1>4. \A q \in Peers : q # p => status'[q] = status[q]
  BY <1>3 DEF TypeOK
<1>5. OneRequest' /\ RequestBehindData'
  <2>1. \A q \in Peers : status'[q] = "joining" => status[q] = "joining"
    BY <1>3, <1>4
  <2> QED
    BY <2>1, <1>1, ConsumeKeepsOrder
<1>6. CountersBelow'
  <2> SUFFICES ASSUME NEW q \in Peers, status'[q] = "up",
                      NEW i \in DOMAIN queue'[q], queue'[q][i].type = "data"
               PROVE  queue'[q][i].counter <= counter'[q]
    BY DEF CountersBelow
  <2>1. CASE status[q] = "up"
    BY <2>1, <1>1, <1>2, ConsumeKeepsBound
  <2>2. CASE status[q] # "up"
    <3>1. q = p /\ status[p] = "joining"
      BY <2>2, <1>3, <1>4
    <3>2. PICK d \in {0, 1} :
            /\ DOMAIN queue'[p] = 1 .. (Len(queue[p]) - d)
            /\ \A k \in DOMAIN queue'[p] :
                 k + d \in DOMAIN queue[p] /\ queue'[p][k] = queue[p][k + d]
      BY <1>1, ConsumeShifts
    <3>3. DOMAIN queue[p] = 1 .. Len(queue[p]) /\ Len(queue[p]) \in Nat
          /\ queue[p][1] = AssociationRequest /\ 1 \in DOMAIN queue[p]
      BY <1>1 DEF TypeOK
    <3>4. i + d \in DOMAIN queue[p] /\ queue[p][i + d].type = "data"
      BY <3>1, <3>2
    <3>5. PICK j \in DOMAIN queue[p] : i + d < j /\ queue[p][j] = AssociationRequest
      BY <3>1, <3>4 DEF LockoutInv, RequestBehindData
    <3>6. j = 1
      BY <3>3, <3>5 DEF LockoutInv, OneRequest
    <3> QED
      BY <3>3, <3>4, <3>5, <3>6
  <2> QED
    BY <2>1, <2>2
<1>7. NoLockout'
  <2> SUFFICES ASSUME NEW q \in Peers, status'[q] = "up", q \notin unreset',
                      NEW s \in Slots, replay'[s] # NoEntry, replay'[s].ieee = q
               PROVE  replay'[s].lastCounter <= counter[q]
    BY <1>2 DEF NoLockout, Used
  <2>1. CASE p \in children
    <3>1. replay' = WithoutPeer(p) /\ UNCHANGED unreset
      BY <2>1 DEF AcceptAssociation
    <3>2. replay'[s] = replay[s] /\ replay[s].ieee # p
      BY <3>1 DEF WithoutPeer, Used
    <3>3. q # p /\ status[q] = "up"
      BY <3>2, <1>4
    <3> QED
      BY <3>1, <3>2, <3>3 DEF LockoutInv, NoLockout, Used
  <2>2. CASE p \notin children
    <3>1. UNCHANGED replay
          /\ unreset' = IF \E t \in Slots : Used(t) /\ replay[t].ieee = p
                        THEN unreset \union {p} ELSE unreset
      BY <2>2 DEF AcceptAssociation
    <3>2. q # p /\ q \notin unreset
      BY <3>1 DEF Used
    <3> QED
      BY <3>1, <3>2, <1>4 DEF LockoutInv, NoLockout, Used
  <2> QED
    BY <2>1, <2>2
<1> QED
  BY <1>5, <1>6, <1>7 DEF LockoutInv

(***************************************************************************)
(* The steps of a peer.                                                    *)
(***************************************************************************)
LEMMA RestartKeepsLockout ==
  ASSUME TypeOK, LockoutInv, NEW p \in Peers, Restart(p)
  PROVE  LockoutInv'
<1>1. status' = [status EXCEPT ![p] = "down"] /\ counter' = [counter EXCEPT ![p] = 0]
  BY DEF Restart
<1>2. UNCHANGED replay /\ UNCHANGED queue /\ UNCHANGED unreset
  BY DEF Restart, history
<1>3. \A q \in Peers : (q # p => status'[q] = status[q] /\ counter'[q] = counter[q])
                      /\ status'[p] = "down"
  BY <1>1 DEF TypeOK
<1>4. NoLockout'
  BY <1>2, <1>3 DEF LockoutInv, NoLockout, Used
<1>5. CountersBelow'
  BY <1>2, <1>3 DEF LockoutInv, CountersBelow
<1>6. OneRequest' /\ RequestBehindData'
  BY <1>2, <1>3 DEF LockoutInv, OneRequest, RequestBehindData
<1> QED
  BY <1>4, <1>5, <1>6 DEF LockoutInv

\* An association request is sent behind the frames that are on their way.
LEMMA AssociateKeepsLockout ==
  ASSUME TypeOK, LockoutInv, NEW p \in Peers, Associate(p)
  PROVE  LockoutInv'
<1> DEFINE n == Len(queue[p])
<1>1. status' = [status EXCEPT ![p] = "joining"]
      /\ queue' = [queue EXCEPT ![p] = Append(@, AssociationRequest)]
  BY DEF Associate
<1>2. UNCHANGED replay /\ UNCHANGED counter /\ UNCHANGED unreset
  BY DEF Associate, history
<1>3. \A q \in Peers : q # p => status'[q] = status[q] /\ queue'[q] = queue[q]
  BY <1>1 DEF TypeOK
<1>4. status'[p] = "joining"
  BY <1>1 DEF TypeOK
<1>5. /\ n \in Nat /\ DOMAIN queue[p] = 1 .. n /\ DOMAIN queue'[p] = 1 .. (n + 1)
      /\ queue'[p][n + 1] = AssociationRequest
      /\ \A i \in 1 .. n : queue'[p][i] = queue[p][i]
  <2>1. queue[p] \in Seq(DataFrame \union {AssociationRequest})
    BY DEF TypeOK
  <2>2. queue'[p] = Append(queue[p], AssociationRequest)
    BY <1>1 DEF TypeOK
  <2> QED
    BY <2>1, <2>2
<1>6. \A i \in 1 .. n : queue[p][i] # AssociationRequest
  BY <1>5 DEF Associate, Waiting
<1>7. NoLockout'
  BY <1>2, <1>3, <1>4 DEF LockoutInv, NoLockout, Used
<1>8. CountersBelow'
  BY <1>2, <1>3, <1>4 DEF LockoutInv, CountersBelow
<1>9. OneRequest'
  <2> SUFFICES ASSUME NEW q \in Peers, NEW i \in DOMAIN queue'[q], NEW j \in DOMAIN queue'[q],
                      queue'[q][i] = AssociationRequest, queue'[q][j] = AssociationRequest
               PROVE  i = j
    BY DEF OneRequest, AssociationRequest
  <2>1. CASE q # p
    BY <2>1, <1>3 DEF LockoutInv, OneRequest
  <2>2. CASE q = p
    BY <2>2, <1>5, <1>6
  <2> QED
    BY <2>1, <2>2
<1>10. RequestBehindData'
  <2> SUFFICES ASSUME NEW q \in Peers, status'[q] = "joining",
                      NEW i \in DOMAIN queue'[q], queue'[q][i].type = "data"
               PROVE  \E j \in DOMAIN queue'[q] : i < j /\ queue'[q][j] = AssociationRequest
    BY DEF RequestBehindData, AssociationRequest
  <2>1. CASE q # p
    BY <2>1, <1>3 DEF LockoutInv, RequestBehindData
  <2>2. CASE q = p
    <3>1. i # n + 1
      BY <2>2, <1>5 DEF AssociationRequest
    <3>2. i < n + 1 /\ n + 1 \in DOMAIN queue'[p]
      BY <3>1, <2>2, <1>5
    <3> QED
      BY <3>2, <2>2, <1>5
  <2> QED
    BY <2>1, <2>2
<1> QED
  BY <1>7, <1>8, <1>9, <1>10 DEF LockoutInv

\* A frame secured has a counter above all that the parent has seen.
LEMMA SecureKeepsLockout ==
  ASSUME TypeOK, LockoutInv, NEW p \in Peers, SecureNpdu(p)
  PROVE  LockoutInv'
<1> DEFINE n == Len(queue[p])
           f == [type |-> "data", keySeq |-> key[p], counter |-> counter'[p]]
<1>1. status[p] = "up" /\ UNCHANGED status /\ UNCHANGED replay /\ UNCHANGED unreset
  BY DEF SecureNpdu, history
<1>2. counter' = [counter EXCEPT ![p] = @ + 1]
      /\ queue' = [queue EXCEPT ![p] = Append(@, f)]
  BY DEF SecureNpdu
<1>3. f.type = "data" /\ f.counter = counter'[p] /\ f # AssociationRequest
  BY DEF AssociationRequest
<1> HIDE DEF f
<1>4. counter[p] \in Nat /\ counter'[p] = counter[p] + 1
  BY <1>2, BoundsAssumption DEF TypeOK
<1>5. \A q \in Peers : q # p => counter'[q] = counter[q] /\ queue'[q] = queue[q]
  BY <1>2 DEF TypeOK
<1>6. queue[p] \in Seq(DataFrame \union {AssociationRequest})
  BY DEF TypeOK
<1>7. queue'[p] = Append(queue[p], f)
  BY <1>2 DEF TypeOK
<1>8. /\ n \in Nat /\ DOMAIN queue[p] = 1 .. n /\ DOMAIN queue'[p] = 1 .. (n + 1)
      /\ queue'[p][n + 1] = f
      /\ \A i \in 1 .. n : queue'[p][i] = queue[p][i]
  BY <1>6, <1>7
<1>9. NoLockout'
  <2> SUFFICES ASSUME NEW q \in Peers, status[q] = "up", q \notin unreset,
                      NEW s \in Slots, replay[s] # NoEntry, replay[s].ieee = q
               PROVE  replay[s].lastCounter <= counter'[q]
    BY <1>1 DEF NoLockout, Used
  <2>1. replay[s].lastCounter <= counter[q]
    BY DEF LockoutInv, NoLockout, Used
  <2>2. CASE q # p
    BY <2>1, <2>2, <1>5
  <2>3. CASE q = p
    <3>1. replay[s].lastCounter \in 0 .. MaxCounter
      BY DEF TypeOK, ReplayEntry
    <3> QED
      BY <3>1, <2>1, <2>3, <1>4
  <2> QED
    BY <2>2, <2>3
<1>10. CountersBelow'
  <2> SUFFICES ASSUME NEW q \in Peers, status[q] = "up",
                      NEW i \in DOMAIN queue'[q], queue'[q][i].type = "data"
               PROVE  queue'[q][i].counter <= counter'[q]
    BY <1>1 DEF CountersBelow
  <2>1. CASE q # p
    BY <2>1, <1>5 DEF LockoutInv, CountersBelow
  <2>2. CASE q = p /\ i = n + 1
    BY <2>2, <1>3, <1>4, <1>8
  <2>3. CASE q = p /\ i # n + 1
    <3>1. i \in DOMAIN queue[p] /\ queue'[p][i] = queue[p][i]
      BY <2>3, <1>8
    <3>2. queue[p][i].type = "data" /\ queue[p][i].counter <= counter[p]
      BY <3>1, <2>3 DEF LockoutInv, CountersBelow
    <3>3. queue[p][i] \in DataFrame
      BY <3>1, <3>2, <1>6, <1>8 DEF AssociationRequest
    <3>4. queue[p][i].counter \in 0 .. MaxCounter
      BY <3>3 DEF DataFrame
    <3> QED
      BY <2>3, <3>1, <3>2, <3>4, <1>4
  <2> QED
    BY <2>1, <2>2, <2>3
<1>11. OneRequest'
  <2> SUFFICES ASSUME NEW q \in Peers, NEW i \in DOMAIN queue'[q], NEW j \in DOMAIN queue'[q],
                      queue'[q][i] = AssociationRequest, queue'[q][j] = AssociationRequest
               PROVE  i = j
    BY DEF OneRequest, AssociationRequest
  <2>1. CASE q # p
    BY <2>1, <1>5 DEF LockoutInv, OneRequest
  <2>2. CASE q = p
    <3>1. i # n + 1 /\ j # n + 1
      BY <2>2, <1>3, <1>8
    <3>2. i \in DOMAIN queue[p] /\ j \in DOMAIN queue[p]
      BY <3>1, <2>2, <1>8
    <3>3. queue[p][i] = AssociationRequest /\ queue[p][j] = AssociationRequest
      BY <3>2, <2>2, <1>8
    <3> QED
      BY <3>2, <3>3 DEF LockoutInv, OneRequest
  <2> QED
    BY <2>1, <2>2
<1>12. RequestBehindData'
  <2> SUFFICES ASSUME NEW q \in Peers, status[q] = "joining",
                      NEW i \in DOMAIN queue'[q], queue'[q][i].type = "data"
               PROVE  \E j \in DOMAIN queue'[q] : i < j /\ queue'[q][j] = AssociationRequest
    BY <1>1 DEF RequestBehindData, AssociationRequest
  <2>1. q # p
    BY <1>1
  <2> QED
    BY <2>1, <1>5 DEF LockoutInv, RequestBehindData
<1> QED
  BY <1>9, <1>10, <1>11, <1>12 DEF LockoutInv

(***************************************************************************)
(* A frame that is dropped leaves the table alone.                         *)
(***************************************************************************)
LEMMA DropKeepsLockout ==
  ASSUME TypeOK, LockoutInv, NEW p \in Peers, DropNpdu(p)
  PROVE  LockoutInv'
<1>1. queue[p] # <<>> /\ Consume(p)
  BY DEF DropNpdu, Consume
<1>2. UNCHANGED status /\ UNCHANGED counter /\ UNCHANGED replay /\ UNCHANGED unreset
  BY DEF DropNpdu, history
<1>3. NoLockout'
  BY <1>2 DEF LockoutInv, NoLockout, Used
<1>4. CountersBelow'
  BY <1>1, <1>2, ConsumeKeepsBound DEF CountersBelow
<1>5. OneRequest' /\ RequestBehindData'
  BY <1>1, <1>2, ConsumeKeepsOrder
<1> QED
  BY <1>3, <1>4, <1>5 DEF LockoutInv

(***************************************************************************)
(* Every step keeps LockoutInv as long as counters run on across a switch. *)
(***************************************************************************)
LEMMA LockoutStep ==
  ASSUME TypeOK, LockoutInv, CountersRestart = FALSE, [Next]_vars
  PROVE  LockoutInv'
<1>1. CASE StartRotation
  <2>1. UNCHANGED <<replay, status, counter, queue, unreset>>
    BY <1>1 DEF StartRotation, history
  <2> QED
    BY <2>1, LockoutUnchanged
<1>2. ASSUME NEW p \in Peers, SetAlternateKey(p) PROVE LockoutInv'
  <2>1. UNCHANGED <<replay, status, counter, queue, unreset>>
    BY <1>2 DEF SetAlternateKey, history
  <2> QED
    BY <2>1, LockoutUnchanged
<1>3. ASSUME NEW n \in Nodes, SwitchKey(n) PROVE LockoutInv'
  <2>1. UNCHANGED <<replay, status, counter, queue, unreset>>
    BY <1>3 DEF SwitchKey, history
  <2> QED
    BY <2>1, LockoutUnchanged
<1>4. ASSUME NEW p \in Peers, ForgetChild(p) PROVE LockoutInv'
  <2>1. UNCHANGED <<replay, status, counter, queue, unreset>>
    BY <1>4 DEF ForgetChild, history
  <2> QED
    BY <2>1, LockoutUnchanged
<1>5. CASE UNCHANGED vars
  <2>1. UNCHANGED <<replay, status, counter, queue, unreset>>
    BY <1>5 DEF vars
  <2> QED
    BY <2>1, LockoutUnchanged
<1>6. ASSUME NEW p \in Peers,
             \/ Restart(p) \/ Associate(p) \/ SecureNpdu(p)
             \/ OpenNpdu(p) \/ DropNpdu(p) \/ AcceptAssociation(p)
      PROVE  LockoutInv'
  BY <1>6, RestartKeepsLockout, AssociateKeepsLockout, SecureKeepsLockout,
     OpenKeepsLockout, DropKeepsLockout, AcceptKeepsLockout
<1> QED
  BY <1>1, <1>2, <1>3, <1>4, <1>5, <1>6 DEF Next, Rotation, Peer, Receiver

(***************************************************************************)
(* A peer that lost its counters and was accepted again by a hub that      *)
(* still had it in its neighbor table is heard from its first frame on     *)
(* (resetReplayPeer on an association request), if peers keep counting     *)
(* when they switch to a new key.                                          *)
(***************************************************************************)
THEOREM NoLockoutAlways ==
  ASSUME CountersRestart = FALSE
  PROVE  Spec => []NoLockout
<1>1. IndInv /\ LockoutInv /\ [Next]_vars => LockoutInv'
  BY LockoutStep DEF IndInv
<1>2. LockoutInv => NoLockout
  BY DEF LockoutInv
<1> QED
  BY IndInvariant, LockoutInit, <1>1, <1>2, PTL DEF Spec

=============================================================================
