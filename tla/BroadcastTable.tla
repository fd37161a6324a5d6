--------------------------- MODULE BroadcastTable ---------------------------
(***************************************************************************)
(* The broadcast transaction table (ZigbeeBroadcastTable.h) of a node that *)
(* hears every transaction several times, rebroadcasts it until enough     *)
(* neighbours repeated it, and originates broadcasts of its own.  Slots    *)
(* are searched in their order, as the code's loops do.                    *)
(***************************************************************************)
EXTENDS Integers, FiniteSets, LeastElement

CONSTANTS
  Transactions, \* pairs of NWK source and sequence number
  OwnBroadcasts,\* the transactions this node originates
  Slots,        \* capacity_
  DeliveryTime, \* kDefaultExpiryMs
  RetryTime, NeededAcks, MaxRetries,  \* arguments of due()
  CounterTop,   \* value at which the byte counters stay, 255 in the code
  BroadcastHorizon  \* bound on the clock

ASSUME TransactionAssumption ==
  IsFiniteSet(Transactions) /\ Slots \in Nat \ {0} /\ DeliveryTime \in Nat

VARIABLES
  clock,        \* millis()
  transactions, \* entries_: [slot -> entry]
  lastNew       \* when each transaction was last taken for a new one

broadcastVars == <<clock, transactions, lastNew>>

NotSeen == -1
Unused == [used |-> FALSE]
Entry(x) == [used |-> TRUE, tx |-> x, seen |-> clock, sent |-> clock,
             retries |-> 0, acks |-> 0]

BroadcastInit ==
  /\ clock = 0
  /\ transactions = [s \in 1 .. Slots |-> Unused]
  /\ lastNew = [x \in Transactions |-> NotSeen]

Where(x) == {s \in 1 .. Slots : transactions[s].used /\ transactions[s].tx = x}
FreeSlots == {s \in 1 .. Slots : ~transactions[s].used}

\* Mutant: a full table gives up its first slot.
AllocatedFirst == IF FreeSlots # {} THEN First(FreeSlots) ELSE 1

\* allocate(): the first free slot, else the first of those seen longest ago.
Allocated ==
  IF FreeSlots # {} THEN First(FreeSlots)
  ELSE First({s \in 1 .. Slots : \A t \in 1 .. Slots :
                  transactions[s].seen <= transactions[t].seen})

Counted(n) == IF n < CounterTop THEN n + 1 ELSE n
PassiveAck(s) == [transactions EXCEPT ![s].acks = Counted(@)]

RecordIncoming(x) ==
  /\ IF Where(x) # {}
     THEN /\ transactions' = PassiveAck(First(Where(x)))
          /\ UNCHANGED lastNew
     ELSE /\ transactions' = [transactions EXCEPT ![Allocated] = Entry(x)]
          /\ lastNew' = [lastNew EXCEPT ![x] = clock]
  /\ UNCHANGED clock

RecordOutgoing(x) ==
  /\ x \in OwnBroadcasts
  /\ IF Where(x) # {}
     THEN /\ transactions' = [transactions EXCEPT ![First(Where(x))].sent = clock]
          /\ UNCHANGED lastNew
     ELSE /\ transactions' = [transactions EXCEPT ![Allocated] = Entry(x)]
          /\ lastNew' = [lastNew EXCEPT ![x] = clock]
  /\ UNCHANGED clock

MarkPassiveAck(x) ==
  /\ Where(x) # {}
  /\ transactions' = PassiveAck(First(Where(x)))
  /\ UNCHANGED <<clock, lastNew>>

Due == {s \in 1 .. Slots :
          /\ transactions[s].used
          /\ transactions[s].retries < MaxRetries
          /\ transactions[s].acks < NeededAcks
          /\ clock - transactions[s].sent >= RetryTime}

MarkRebroadcast ==
  /\ Due # {}
  /\ transactions' = [transactions EXCEPT
       ![First(Due)].retries = Counted(@), ![First(Due)].sent = clock]
  /\ UNCHANGED <<clock, lastNew>>

Expire ==
  /\ transactions' = [s \in 1 .. Slots |->
       IF transactions[s].used /\ clock - transactions[s].seen >= DeliveryTime
       THEN Unused ELSE transactions[s]]
  /\ UNCHANGED <<clock, lastNew>>

PassTime ==
  /\ clock < BroadcastHorizon
  /\ clock' = clock + 1
  /\ UNCHANGED <<transactions, lastNew>>

BroadcastNext ==
  \/ \E x \in Transactions :
        RecordIncoming(x) \/ RecordOutgoing(x) \/ MarkPassiveAck(x)
  \/ MarkRebroadcast
  \/ Expire
  \/ PassTime

BroadcastSpec == BroadcastInit /\ [][BroadcastNext]_broadcastVars

-----------------------------------------------------------------------------
Rivals(x) == {y \in Transactions \ {x} : lastNew[y] >= lastNew[x]}

\* Within the delivery time a broadcast is taken for a new one a second time,
\* and processed and flooded again, only if as many other transactions as the
\* table holds came in the same millisecond or later and pushed it out: not
\* by a retry, a passive acknowledgement, an expiry run, or hearing the own
\* broadcast come back (ZigbeeBroadcastTable.h:77-118, 154-190).
NewOncePerDeliveryTime ==
  [][\A x \in Transactions :
        \/ Where(x) # {}
        \/ Where(x)' = {}
        \/ lastNew[x] = NotSeen
        \/ clock - lastNew[x] >= DeliveryTime
        \/ Cardinality(Rivals(x)) >= Slots]_broadcastVars

\* Why that is so, as an invariant: the entry dropped for a new one was seen no
\* later than all the others, and an entry remembers when its transaction was new.
BroadcastEntries == [used : {TRUE}, tx : Transactions, seen : Nat, sent : Nat, retries : Nat, acks : Nat]
BroadcastTypeOK ==
  /\ clock \in Nat
  /\ transactions \in [1 .. Slots -> BroadcastEntries \cup {Unused}]
  /\ lastNew \in [Transactions -> Nat \cup {NotSeen}]
OneEntryPerTransaction ==
  \A s, t \in 1 .. Slots :
    transactions[s].used /\ transactions[t].used /\ transactions[s].tx = transactions[t].tx
      => s = t
SeenWhenNew ==
  /\ \A s \in 1 .. Slots :
       transactions[s].used => transactions[s].seen = lastNew[transactions[s].tx]
  /\ \A x \in Transactions : lastNew[x] <= clock
ForgottenUnderPressure ==
  \A x \in Transactions :
    \/ Where(x) # {}
    \/ lastNew[x] = NotSeen
    \/ clock - lastNew[x] >= DeliveryTime
    \/ Cardinality(Rivals(x)) >= Slots
BroadcastInv ==
  /\ BroadcastTypeOK
  /\ OneEntryPerTransaction
  /\ SeenWhenNew
  /\ ForgottenUnderPressure
=============================================================================
