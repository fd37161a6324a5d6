--------------------------- MODULE IndirectQueue ---------------------------
(***************************************************************************)
(* The indirect queue of a parent (ZigbeeIndirectQueue.h): frames wait for *)
(* a sleeping child to poll.  pending() hands out a pointer to the entry,  *)
(* the caller transmits the frame, and dequeue() clears what the pointer   *)
(* names; frames received while the transmission waits for its result may  *)
(* make the upper layers enqueue more.  Frames are numbered as accepted.   *)
(***************************************************************************)
EXTENDS Integers, Sequences, FiniteSets, LeastElement

CONSTANTS
  SleepyChildren,
  QueueSlots,      \* capacity_
  Persistence,     \* kDefaultPersistenceMs
  MaxFrames,       \* bound on the frames accepted
  QueueHorizon     \* bound on the clock

ASSUME QueueAssumption == QueueSlots \in Nat \ {0} /\ Persistence \in Nat

VARIABLES
  queueClock,  \* millis()
  queued,      \* entries_: [slot -> number of the frame, or NoFrame]
  accepted,    \* of each frame accepted: its child and expiryMs
  onAir,       \* the transmission under way: the pointer and the frame
  delivered,   \* frames whose transmission was confirmed
  overtaken    \* frames put into an entry that was on the air

queueVars == <<queueClock, queued, accepted, onAir, delivered, overtaken>>

NoFrame == 0
Silent == [slot |-> 0, frame |-> NoFrame]

QueueInit ==
  /\ queueClock = 0
  /\ queued = [s \in 1 .. QueueSlots |-> NoFrame]
  /\ accepted = <<>>
  /\ onAir = Silent
  /\ delivered = {}
  /\ overtaken = {}

SlotsOf(c) == {s \in 1 .. QueueSlots :
                 queued[s] # NoFrame /\ accepted[queued[s]].child = c}
Vacancies == {s \in 1 .. QueueSlots : queued[s] = NoFrame}
SoonestGone ==
  {s \in 1 .. QueueSlots : \A t \in 1 .. QueueSlots :
      accepted[queued[s]].expiry <= accepted[queued[t]].expiry}

\* Mutant: a full queue gives up its first entry.
SlotForFirst(c) ==
  IF SlotsOf(c) # {} THEN First(SlotsOf(c))
  ELSE IF Vacancies # {} THEN First(Vacancies)
  ELSE 1

\* find(), else firstFree(), else oldest().
SlotFor(c) ==
  IF SlotsOf(c) # {} THEN First(SlotsOf(c))
  ELSE IF Vacancies # {} THEN First(Vacancies)
  ELSE First(SoonestGone)

Enqueue(c) ==
  LET f == Len(accepted) + 1
  IN  /\ f <= MaxFrames
      /\ accepted' = Append(accepted,
           [child |-> c, expiry |-> queueClock + Persistence])
      /\ queued' = [queued EXCEPT ![SlotFor(c)] = f]
      /\ overtaken' = IF SlotFor(c) = onAir.slot THEN overtaken \cup {f}
                      ELSE overtaken
      /\ UNCHANGED <<queueClock, onAir, delivered>>

\* The child polls: pending() and the start of the transmission.
Poll(c) ==
  /\ onAir = Silent
  /\ SlotsOf(c) # {}
  /\ onAir' = [slot |-> First(SlotsOf(c)), frame |-> queued[First(SlotsOf(c))]]
  /\ UNCHANGED <<queueClock, queued, accepted, delivered, overtaken>>

\* The transmission was confirmed: dequeue() of the pointer.
Dequeue ==
  /\ onAir # Silent
  /\ queued' = [queued EXCEPT ![onAir.slot] = NoFrame]
  /\ delivered' = delivered \cup {onAir.frame}
  /\ onAir' = Silent
  /\ UNCHANGED <<queueClock, accepted, overtaken>>

\* It was not: the entry stays for the next poll.
TransmissionLost ==
  /\ onAir # Silent
  /\ onAir' = Silent
  /\ UNCHANGED <<queueClock, queued, accepted, delivered, overtaken>>

\* expire() is called from the main loop, never inside a transmission.
ExpireQueue ==
  /\ onAir = Silent
  /\ queued' = [s \in 1 .. QueueSlots |->
       IF queued[s] # NoFrame /\ accepted[queued[s]].expiry <= queueClock
       THEN NoFrame ELSE queued[s]]
  /\ UNCHANGED <<queueClock, accepted, onAir, delivered, overtaken>>

QueueTick ==
  /\ queueClock < QueueHorizon
  /\ queueClock' = queueClock + 1
  /\ UNCHANGED <<queued, accepted, onAir, delivered, overtaken>>

QueueNext ==
  \/ \E c \in SleepyChildren : Enqueue(c) \/ Poll(c)
  \/ Dequeue
  \/ TransmissionLost
  \/ ExpireQueue
  \/ QueueTick

QueueSpec == QueueInit /\ [][QueueNext]_queueVars

-----------------------------------------------------------------------------
Superseded(f) == \E g \in f + 1 .. Len(accepted) :
                    accepted[g].child = accepted[f].child
LastingAsLong(f) ==
  {g \in 1 .. Len(accepted) : /\ accepted[g].child # accepted[f].child
                              /\ accepted[g].expiry >= accepted[f].expiry}
CrowdedOut(f) ==
  Cardinality({accepted[g].child : g \in LastingAsLong(f)}) >= QueueSlots

\* A frame enqueue() accepted stays queued until its transmission is confirmed
\* or its time is over, unless a newer frame for the same child replaced it,
\* frames for as many other children as there are slots, that last as long,
\* pushed it out, or it was written into an entry that was on the air, whose confirmation then
\* removes it unsent (ZigbeeIndirectQueue.h:62-95).
AcceptedIsAccountedFor ==
  \A f \in 1 .. Len(accepted) :
    \/ \E s \in 1 .. QueueSlots : queued[s] = f
    \/ f \in delivered
    \/ accepted[f].expiry <= queueClock
    \/ Superseded(f)
    \/ CrowdedOut(f)
    \/ f \in overtaken

\* What makes it inductive: a child has one slot, so a full queue holds frames of
\* as many children; no frame lasts longer than one accepted now; and an entry on
\* the air holds the frame on the air, or one that was written over it.
FrameStates == [child : SleepyChildren, expiry : Nat]
QueueTypeOK ==
  /\ queueClock \in Nat
  /\ accepted \in Seq(FrameStates)
  /\ queued \in [1 .. QueueSlots -> 0 .. Len(accepted)]
  /\ onAir \in [slot : 0 .. QueueSlots, frame : Nat]
OneSlotPerChild ==
  \A s, t \in 1 .. QueueSlots :
    queued[s] # NoFrame /\ queued[t] # NoFrame
      /\ accepted[queued[s]].child = accepted[queued[t]].child => s = t
NoneOutlastsTheNewest ==
  \A f \in 1 .. Len(accepted) : accepted[f].expiry <= queueClock + Persistence
EntryOnAir ==
  onAir # Silent => /\ onAir.slot # 0
                    /\ queued[onAir.slot] \in {NoFrame, onAir.frame} \cup overtaken
QueueInv ==
  /\ QueueTypeOK
  /\ OneSlotPerChild
  /\ NoneOutlastsTheNewest
  /\ EntryOnAir
  /\ AcceptedIsAccountedFor
=============================================================================
