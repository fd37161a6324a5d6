----------------------------- MODULE GreenPower -----------------------------
(***************************************************************************)
(* Green Power: battery-less devices broadcast data frames, repeating the  *)
(* last one; proxies forward them as notifications (ZigbeeGpProxy.h); the  *)
(* sink learns devices and executes their commands, from notifications or  *)
(* heard directly (ZigbeeGreenPower.h, ZigbeeGreenPowerCluster.h, onMacGp  *)
(* of CC2530_BeaconJoin.ino).  Notifications of several proxies overtake   *)
(* each other.  Keys are right; a device that does not secure its frames   *)
(* sends no counter.                                                       *)
(***************************************************************************)
EXTENDS Integers, FiniteSets, SequencesExt

CONSTANTS
  Gpds, UnsecuredGpds,  \* devices; those whose frames are not secured
  Proxies,
  ProxySlots, SinkSlots,\* capacities of the two tables
  MaxGpCounter,           \* bound on the frame counters
  MaxCommissionings     \* bound on how often the sink takes devices in

VARIABLES
  lastSent,    \* [device -> the frame it broadcasts]
  proxyTable,  \* [proxy -> its entries], in slot order
  notes,       \* notifications on their way: proxy and frame
  sinkTable,   \* [device -> lastFrameCounter, NotPaired without an entry]
  commissioned,\* how often the sink took each device in
  executed     \* how often each counted command of each device was executed

gpVars == <<lastSent, proxyTable, notes, sinkTable, commissioned, executed>>

NotPaired == -1
CommissioningFrame(g) == [gpd |-> g, kind |-> "commissioning", counter |-> 0]
CountedCommand(g, c) ==
  [gpd |-> g, kind |-> IF g \in UnsecuredGpds THEN "plain" ELSE "secured",
   counter |-> IF g \in UnsecuredGpds THEN 0 ELSE c]

GpInit ==
  /\ lastSent = [g \in Gpds |-> CommissioningFrame(g)]
  /\ proxyTable = [p \in Proxies |-> <<>>]
  /\ notes = {}
  /\ sinkTable = [g \in Gpds |-> NotPaired]
  /\ commissioned = [g \in Gpds |-> 0]
  /\ executed = [g \in Gpds |-> [c \in 1 .. MaxGpCounter |-> 0]]

\* The device is operated: a command with the next counter, from 0 on.
Operate(g) ==
  LET c == IF lastSent[g].kind = "commissioning" THEN 0
           ELSE lastSent[g].counter + 1
  IN  /\ c <= MaxGpCounter
      /\ lastSent' = [lastSent EXCEPT ![g] = CountedCommand(g, c)]
      /\ UNCHANGED <<proxyTable, notes, sinkTable, commissioned, executed>>

\* isDuplicate() of a proxy, which recycles the entry of the lowest counter.
Entries(p) == proxyTable[p]
EntryOf(p, g) == {i \in 1 .. Len(Entries(p)) : Entries(p)[i].gpd = g}
IsDuplicateOf(p, f) ==
  \E i \in EntryOf(p, f.gpd) : f.counter <= Entries(p)[i].counter
LowestCounter(p) ==
  CHOOSE i \in 1 .. Len(Entries(p)) : \A j \in 1 .. Len(Entries(p)) :
    \/ Entries(p)[i].counter < Entries(p)[j].counter
    \/ Entries(p)[i].counter = Entries(p)[j].counter /\ i <= j
Noted(p, f) ==
  LET e == [gpd |-> f.gpd, counter |-> f.counter]
  IN  IF EntryOf(p, f.gpd) # {}
      THEN [i \in 1 .. Len(Entries(p)) |->
              IF i \in EntryOf(p, f.gpd) THEN e ELSE Entries(p)[i]]
      ELSE IF Len(Entries(p)) < ProxySlots THEN Append(Entries(p), e)
      ELSE [Entries(p) EXCEPT ![LowestCounter(p)] = e]

Forward(p, g) ==
  LET f == lastSent[g]
  IN  /\ f.kind = "secured" => ~IsDuplicateOf(p, f)
      /\ proxyTable' = IF f.kind = "secured"
                       THEN [proxyTable EXCEPT ![p] = Noted(p, f)]
                       ELSE proxyTable
      /\ notes' = notes \cup {[proxy |-> p, frame |-> f]}
      /\ UNCHANGED <<lastSent, sinkTable, commissioned, executed>>

\* commission(): an entry known already starts again at counter 0.
Paired == {g \in Gpds : sinkTable[g] # NotPaired}
CommissionGpd(g) ==
  /\ IF g \in Paired \/ Cardinality(Paired) < SinkSlots
     THEN /\ sinkTable' = [sinkTable EXCEPT ![g] = 0]
          /\ commissioned' = [commissioned EXCEPT ![g] = @ + 1]
     ELSE UNCHANGED <<sinkTable, commissioned>>
  /\ UNCHANGED executed

\* Mutant: a counter that repeats is accepted.
AdvancesOrRepeats(g, c) == c >= sinkTable[g]

\* checkAndUpdateCounter()
Advances(g, c) == c > sinkTable[g] \/ sinkTable[g] = 0

Execute(g, c) ==
  /\ sinkTable' = [sinkTable EXCEPT ![g] = c]
  /\ executed' = IF c = 0 THEN executed ELSE [executed EXCEPT ![g][c] = @ + 1]
  /\ UNCHANGED commissioned

\* handleNotification(); without a counter nothing is checked.
HandleNotification(f) ==
  IF f.gpd \in Paired /\ f.kind = "secured" /\ Advances(f.gpd, f.counter)
  THEN Execute(f.gpd, f.counter)
  ELSE UNCHANGED <<sinkTable, commissioned, executed>>

SinkReceives(n) ==
  /\ n.frame.kind = "commissioning" =>
       FoldFunction(LAMBDA x, y : x + y, 0, commissioned) < MaxCommissionings
  /\ IF n.frame.kind = "commissioning" THEN CommissionGpd(n.frame.gpd)
     ELSE HandleNotification(n.frame)
  /\ notes' = notes \ {n}
  /\ UNCHANGED <<lastSent, proxyTable>>

LoseNotification(n) ==
  /\ notes' = notes \ {n}
  /\ UNCHANGED <<lastSent, proxyTable, sinkTable, commissioned, executed>>

\* onMacGp(): the sink hears a secured frame of a device it knows itself.
SinkHears(g) ==
  /\ g \in Paired /\ lastSent[g].kind = "secured"
  /\ Advances(g, lastSent[g].counter)
  /\ Execute(g, lastSent[g].counter)
  /\ UNCHANGED <<lastSent, proxyTable, notes>>

RemoveGpd(g) ==
  /\ g \in Paired
  /\ sinkTable' = [sinkTable EXCEPT ![g] = NotPaired]
  /\ UNCHANGED <<lastSent, proxyTable, notes, commissioned, executed>>

GpNext ==
  \/ \E g \in Gpds : Operate(g) \/ SinkHears(g) \/ RemoveGpd(g)
  \/ \E p \in Proxies, g \in Gpds : Forward(p, g)
  \/ \E n \in notes : SinkReceives(n) \/ LoseNotification(n)

GpSpec == GpInit /\ [][GpNext]_gpVars

-----------------------------------------------------------------------------
\* However many proxies forward a command, in whatever order the copies reach
\* the sink, and though it hears the device itself, a command with a counter
\* is executed at most once for each time the sink took the device in: a
\* commissioning frame that a second proxy delivers late resets the counter
\* and lets the copies of earlier commands in again.  Counter 0 is outside the
\* claim: as long as it is the last one, it is accepted repeatedly
\* (ZigbeeGreenPower.h:299-325, ZigbeeGreenPowerCluster.h:232-313).
OncePerCommissioning ==
  \A g \in Gpds : \A c \in 1 .. MaxGpCounter : executed[g][c] <= commissioned[g]
\* What makes it inductive: a counter the sink would still accept from a device
\* has a commissioning left to be executed under.
CounterLeft ==
  \A g \in Gpds : \A c \in 1 .. MaxGpCounter :
    sinkTable[g] # NotPaired /\ c > sinkTable[g] => executed[g][c] < commissioned[g]

GpFrames == [gpd : Gpds, kind : {"commissioning", "plain", "secured"},
             counter : 0 .. MaxGpCounter]

GpInv ==
  /\ lastSent \in [Gpds -> GpFrames]
  /\ notes \subseteq [proxy : Proxies, frame : GpFrames]
  /\ sinkTable \in [Gpds -> Nat \cup {NotPaired}]
  /\ commissioned \in [Gpds -> Nat]
  /\ executed \in [Gpds -> [1 .. MaxGpCounter -> Nat]]
  /\ OncePerCommissioning
  /\ CounterLeft
=============================================================================
