----------------------------- MODULE ApsDelivery -----------------------------
(***************************************************************************)
(* Acknowledged APS delivery from one device to another, end to end across *)
(* the mesh: ZigbeeApsRetransmit and ZigbeeApsDuplicateTable with their    *)
(* callers in CC2530_BeaconJoin (serviceRouteDiscovery, serviceApsRetx,    *)
(* onApsData, onApsAck).                                                   *)
(*                                                                         *)
(* The sender keeps a copy of each frame and sends it again until an       *)
(* acknowledgement with its APS counter arrives or its tries are used up.  *)
(* The receiver acknowledges every copy and hands up those whose counter   *)
(* differs from the last one it saw from this sender.  The mesh loses      *)
(* frames but keeps their order: the copies are 1.2 s apart, and the NWK   *)
(* replay check of every hop rejects a frame that was overtaken.           *)
(***************************************************************************)
EXTENDS Integers, Sequences, FiniteSets, LeastElement

CONSTANTS
  TableSize,       \* capacity of the pending table
  MaxRetries,      \* triesLeft of a new entry
  CounterMod,      \* APS counters are numbers modulo this (256 in the code)
  MaxOutstanding,  \* frames the sender lets wait for their acknowledgements
  NoCounter,       \* the receiver has no entry for the sender
  MaxFrames,       \* bound: frames sent in all
  MaxInFlight,     \* bound: frames the mesh holds in either direction
  MaxRestarts      \* bound: restarts of the sender or of the receiver

ASSUME TableAssumption ==
  /\ TableSize \in Nat \ {0}
  /\ MaxRetries \in Nat
  /\ MaxOutstanding \in Nat \ {0}

ASSUME CounterAssumption == CounterMod \in Nat \ {0} /\ NoCounter \notin Nat

ASSUME BoundAssumption ==
  MaxFrames \in Nat /\ MaxInFlight \in Nat /\ MaxRestarts \in Nat

Frames == 1 .. MaxFrames
Slots == 1 .. TableSize
Counters == 0 .. CounterMod - 1
Entry == [frame : Frames, counter : Counters, triesLeft : 0 .. MaxRetries]
Free == [frame |-> 0, counter |-> 0, triesLeft |-> 0]
DataFrame == [frame : Frames, counter : Counters]
Outcomes == {"unsent", "pending", "untracked", "delivered", "dropped", "forgotten"}

VARIABLES
  pending,     \* entries_ of the sender's ZigbeeApsRetransmit
  apsCounter,  \* the sender's next APS counter
  sent,        \* number of frames sent so far; frame n is the nth
  data,        \* data frames on their way
  acks,        \* counters of the acknowledgements on their way
  lastCounter, \* lastCounter of the receiver's entry for the sender
  restarts,    \* restarts so far, for the bound
  outcome,     \* [Frames -> what became of the frame at the sender]
  handed,      \* frames the receiver handed to the application, in order
  recent,      \* history: frames processed since it has its entry for the sender
  repeated,    \* history: frames processed while they were in recent
  lastFrame,   \* history: the frame lastCounter was recorded from, or 0
  overlapped,  \* history: frames that waited while another one was sent, and that one
  counterOf    \* history: [Frames -> counter the frame was sent with]

sender == <<pending, apsCounter, sent, outcome, counterOf, overlapped>>
receiver == <<lastCounter, handed, recent, repeated, lastFrame>>
vars == <<pending, apsCounter, sent, data, acks, lastCounter, restarts, outcome,
          handed, recent, repeated, lastFrame, overlapped, counterOf>>

TypeOK ==
  /\ pending \in [Slots -> Entry \union {Free}]
  /\ apsCounter \in Counters
  /\ sent \in 0 .. MaxFrames
  /\ data \in Seq(DataFrame)
  /\ acks \in Seq(Counters)
  /\ lastCounter \in Counters \union {NoCounter}
  /\ restarts \in 0 .. MaxRestarts
  /\ outcome \in [Frames -> Outcomes]
  /\ handed \in Seq(Frames)
  /\ recent \in SUBSET Frames
  /\ repeated \in SUBSET Frames
  /\ lastFrame \in {0} \union Frames
  /\ overlapped \in SUBSET Frames
  /\ counterOf \in [Frames -> Counters]

Init ==
  /\ pending = [s \in Slots |-> Free]
  /\ apsCounter = 0
  /\ sent = 0
  /\ data = <<>>
  /\ acks = <<>>
  /\ lastCounter = NoCounter
  /\ restarts = 0
  /\ outcome = [f \in Frames |-> "unsent"]
  /\ handed = <<>>
  /\ recent = {}
  /\ repeated = {}
  /\ lastFrame = 0
  /\ overlapped = {}
  /\ counterOf = [f \in Frames |-> 0]

-----------------------------------------------------------------------------
Used == {s \in Slots : pending[s] # Free}

\* A mesh that holds MaxInFlight frames loses the next one.
Transmit(queue, m) == IF Len(queue) < MaxInFlight THEN Append(queue, m) ELSE queue

(***************************************************************************)
(* The sender transmits a new frame and registers it with                  *)
(* ZigbeeApsRetransmit::add; with a full table the frame gets one try and  *)
(* nobody waits for its acknowledgement.                                   *)
(***************************************************************************)
SendApsFrame ==
  /\ sent < MaxFrames
  /\ Cardinality(Used) < MaxOutstanding
  /\ sent' = sent + 1
  /\ data' = Transmit(data, [frame |-> sent', counter |-> apsCounter])
  /\ counterOf' = [counterOf EXCEPT ![sent'] = apsCounter]
  /\ apsCounter' = (apsCounter + 1) % CounterMod
  /\ overlapped' = IF Used = {} THEN overlapped
                   ELSE overlapped \union {pending[s].frame : s \in Used} \union {sent'}
  /\ IF Used # Slots
     THEN /\ pending' = [pending EXCEPT ![First(Slots \ Used)] =
               [frame |-> sent', counter |-> apsCounter, triesLeft |-> MaxRetries]]
          /\ outcome' = [outcome EXCEPT ![sent'] = "pending"]
     ELSE /\ outcome' = [outcome EXCEPT ![sent'] = "untracked"]
          /\ UNCHANGED pending
  /\ UNCHANGED <<acks, receiver, restarts>>

(***************************************************************************)
(* serviceApsRetx, at a time when the entries in timedOut are overdue.     *)
(* due() drops overdue entries without tries until it meets one that has   *)
(* tries; that one is sent again.                                          *)
(***************************************************************************)
Retryable(S) == {s \in S : pending[s].triesLeft > 0}

\* Mutant of GivenUp: an entry is dropped while a try is left.
GivenUpEarly(S) ==
  {s \in S : pending[s].triesLeft <= 1 /\ \A t \in Retryable(S) : t >= s}

GivenUp(S) ==
  {s \in S : pending[s].triesLeft = 0 /\ \A t \in Retryable(S) : s < t}

\* Mutant of Attempted: markAttempted does not account the try.
AttemptedForFree(s) == pending[s]

\* Mutant of Attempted: the last try clears the entry, and no drop is counted.
AttemptedClearing(s) ==
  IF pending[s].triesLeft = 1 THEN Free ELSE [pending[s] EXCEPT !.triesLeft = @ - 1]

Attempted(s) == [pending[s] EXCEPT !.triesLeft = @ - 1]

ServiceApsRetx ==
  \E timedOut \in SUBSET Used :
    /\ timedOut # {}
    /\ LET retried == IF Retryable(timedOut) = {} THEN {} ELSE {First(Retryable(timedOut))}
           gone == GivenUp(timedOut)
           lost == {pending[s].frame : s \in gone}
       IN /\ pending' = [s \in Slots |->
               IF s \in gone THEN Free ELSE IF s \in retried THEN Attempted(s) ELSE pending[s]]
          /\ outcome' = [f \in Frames |-> IF f \in lost THEN "dropped" ELSE outcome[f]]
          /\ IF retried = {} THEN UNCHANGED data
             ELSE LET e == pending[First(retried)] IN
                  data' = Transmit(data, [frame |-> e.frame, counter |-> e.counter])
    /\ UNCHANGED <<apsCounter, sent, counterOf, overlapped, acks, receiver, restarts>>

-----------------------------------------------------------------------------
\* Mutant of IsNew: every arriving frame is handed up.
IsNewAlways(c) == TRUE

\* checkAndRecord: the frame is not a duplicate of the last one.
IsNew(c) == lastCounter # c

\* Mutant of Acknowledge: a frame is acknowledged only if it is new.
AcknowledgeNew(c) == IF IsNew(c) THEN Transmit(acks, c) ELSE acks

Acknowledge(c) == Transmit(acks, c)

(***************************************************************************)
(* onApsData: record the counter, acknowledge, and process if new.         *)
(***************************************************************************)
OnApsData ==
  /\ data # <<>>
  /\ data' = Tail(data)
  /\ LET m == Head(data) IN
       /\ lastCounter' = m.counter
       /\ lastFrame' = m.frame
       /\ acks' = Acknowledge(m.counter)
       /\ IF IsNew(m.counter)
          THEN /\ handed' = Append(handed, m.frame)
               /\ recent' = recent \union {m.frame}
               /\ repeated' = IF m.frame \in recent THEN repeated \union {m.frame} ELSE repeated
          ELSE UNCHANGED <<handed, recent, repeated>>
  /\ UNCHANGED <<sender, restarts>>

\* Mutant of Matching: the acknowledgement's counter is not compared.
MatchingAny(c) == Used

\* The entries an acknowledgement matches.
Matching(c) == {s \in Used : pending[s].counter = c}

(***************************************************************************)
(* onApsAck: the first matching entry is cleared and counted delivered.    *)
(***************************************************************************)
OnApsAck ==
  /\ acks # <<>>
  /\ acks' = Tail(acks)
  /\ LET matching == Matching(Head(acks)) IN
       IF matching = {} THEN UNCHANGED <<pending, outcome>>
       ELSE /\ pending' = [pending EXCEPT ![First(matching)] = Free]
            /\ outcome' = [outcome EXCEPT ![pending[First(matching)].frame] = "delivered"]
  /\ UNCHANGED <<apsCounter, sent, counterOf, overlapped, data, receiver, restarts>>

-----------------------------------------------------------------------------
\* The mesh loses a frame after all its hops' MAC retries.
LoseData ==
  /\ data # <<>>
  /\ data' = Tail(data)
  /\ UNCHANGED <<sender, acks, receiver, restarts>>

LoseAck ==
  /\ acks # <<>>
  /\ acks' = Tail(acks)
  /\ UNCHANGED <<sender, data, receiver, restarts>>

(***************************************************************************)
(* The sender restarts: the table is empty and the counter starts over;    *)
(* neither is kept in flash.                                               *)
(***************************************************************************)
SenderRestart ==
  /\ restarts < MaxRestarts
  /\ restarts' = restarts + 1
  /\ pending' = [s \in Slots |-> Free]
  /\ apsCounter' = 0
  /\ outcome' = [f \in Frames |-> IF outcome[f] = "pending" THEN "forgotten" ELSE outcome[f]]
  /\ UNCHANGED <<sent, counterOf, overlapped, data, acks, receiver>>

(***************************************************************************)
(* The receiver restarts, or its duplicate table recycles the sender's     *)
(* entry for another sender.                                               *)
(***************************************************************************)
ReceiverForgets ==
  /\ restarts < MaxRestarts
  /\ restarts' = restarts + 1
  /\ lastCounter # NoCounter
  /\ lastCounter' = NoCounter
  /\ lastFrame' = 0
  /\ recent' = {}
  /\ UNCHANGED <<sender, data, acks, handed, repeated>>

Next ==
  \/ SendApsFrame \/ ServiceApsRetx
  \/ OnApsData \/ OnApsAck
  \/ LoseData \/ LoseAck
  \/ SenderRestart \/ ReceiverForgets

\* loop() calls serviceApsRetx on every pass, and every entry gets overdue.
Spec == Init /\ [][Next]_vars /\ WF_vars(ServiceApsRetx)

-----------------------------------------------------------------------------
Processed == {handed[i] : i \in 1 .. Len(handed)}

(***************************************************************************)
(* onApsData: "the duplicate must not be processed by the app twice".  The *)
(* single counter of the duplicate table is enough for that when a sender  *)
(* waits for one acknowledgement at a time: a frame is processed twice     *)
(* only if it and another one were unacknowledged at the same time.        *)
(***************************************************************************)
RepeatOnlyWhenOverlapping == repeated \subseteq overlapped

(***************************************************************************)
(* A frame is counted delivered without having been processed only if it   *)
(* carried the counter of another frame that was: the sender restarted, or *)
(* a whole cycle of counters lies between the two.                         *)
(***************************************************************************)
FalseDeliveryOnlyByCounterReuse ==
  \A f \in Frames : outcome[f] = "delivered" /\ f \notin Processed =>
    \E g \in Processed : g # f /\ counterOf[g] = counterOf[f]

(***************************************************************************)
(* The frames that wait for an acknowledgement are exactly those in the    *)
(* table, each in one entry: none is leaked or reported twice.             *)
(***************************************************************************)
PendingAccounted ==
  /\ \A f \in Frames : outcome[f] = "pending" <=> \E s \in Used : pending[s].frame = f
  /\ \A s, t \in Used : pending[s].frame = pending[t].frame => s = t

-----------------------------------------------------------------------------
\* Everything on its way or kept carries the counter its frame was sent with.
CountersTravel ==
  /\ \A s \in Used : pending[s].frame <= sent /\ pending[s].counter = counterOf[pending[s].frame]
  /\ \A i \in 1 .. Len(data) : data[i].frame <= sent /\ data[i].counter = counterOf[data[i].frame]

\* The receiver's entry and its history describe the same frame.
EntryDescribesLastFrame ==
  /\ lastFrame = 0 => lastCounter = NoCounter /\ recent = {}
  /\ lastFrame # 0 => lastCounter = counterOf[lastFrame] /\ lastFrame <= sent
  /\ \A f \in recent : f <= sent

\* A frame f that comes before an older frame g overlapped with it.
Overtaking(f, g) == f > g => f \in overlapped /\ g \in overlapped

\* Frames get out of order only if they overlap: in the sender's table, in
\* the mesh, between the receiver and the mesh, and at the receiver.
TableOrder == \A s \in Used : \A f \in Frames : f <= sent => Overtaking(f, pending[s].frame)
MeshOrder ==
  \A i, j \in 1 .. Len(data) : i < j => Overtaking(data[i].frame, data[j].frame)
ArrivalOrder ==
  \A f \in recent \union {lastFrame} : \A j \in 1 .. Len(data) : Overtaking(f, data[j].frame)
RecentOrder == \A f \in recent : f > lastFrame => f \in overlapped

\* Some frame with counter c was processed.
Vouched(c) == \E g \in Processed : g <= sent /\ counterOf[g] = c

\* The receiver's entry, acknowledgements and deliveries stem from such frames.
DeliveryVouched ==
  /\ lastCounter # NoCounter => Vouched(lastCounter)
  /\ \A i \in 1 .. Len(acks) : Vouched(acks[i])
  /\ \A f \in Frames : outcome[f] = "delivered" => f <= sent /\ Vouched(counterOf[f])

(***************************************************************************)
(* The inductive invariant.  RepeatOnlyWhenOverlapping needs the order of  *)
(* what is still to arrive: a copy that arrives after a younger frame was  *)
(* recorded had overlapped with it.  FalseDeliveryOnlyByCounterReuse needs *)
(* DeliveryVouched for the acknowledgements on their way.                  *)
(***************************************************************************)
IndInv ==
  /\ TypeOK
  /\ CountersTravel
  /\ EntryDescribesLastFrame
  /\ TableOrder /\ MeshOrder /\ ArrivalOrder /\ RecentOrder
  /\ RepeatOnlyWhenOverlapping
  /\ DeliveryVouched
  /\ PendingAccounted

(***************************************************************************)
(* What acknowledged delivery promises, under the mapping that shows each  *)
(* frame's outcome and the frames handed up, and hides counters, tables,   *)
(* retransmissions and the network between the two ends.                   *)
(***************************************************************************)
Service ==
  INSTANCE ApsService WITH Frames <- Frames, outcome <- outcome, handed <- handed

ServiceSpec == Service!Spec

(***************************************************************************)
(* The conditions under which the code keeps that promise: no frame waited *)
(* while another one was sent, neither end restarted, and the counter has  *)
(* not come round.                                                         *)
(***************************************************************************)
Undisturbed == overlapped = {} /\ restarts = 0 /\ sent <= CounterMod

(***************************************************************************)
(* What the mapping needs of the state beside IndInv: frames sent are the  *)
(* first ones, without overlap one frame waits at most, what was processed *)
(* is still known as recent, and the counters are those of a first cycle.  *)
(***************************************************************************)
ServiceInv ==
  /\ \A f \in Frames : outcome[f] = "unsent" <=> f > sent
  /\ overlapped = {} => \A s, t \in Used : s = t
  /\ restarts = 0 => Processed \subseteq recent
  /\ restarts = 0 /\ sent <= CounterMod =>
       /\ apsCounter = IF sent = CounterMod THEN 0 ELSE sent
       /\ \A f \in 1 .. sent : counterOf[f] = f - 1

\* The steps taken while nothing disturbs the delivery are steps of the service.
ServedWhileUndisturbed ==
  Service!Init /\ [][Undisturbed' => Service!Next]_(Service!vars)
=============================================================================
