--------------------------- MODULE Commissioning ---------------------------
(***************************************************************************)
(* Base Device Behaviour commissioning (ZigbeeBdb.h) of a switch, with     *)
(* finding and binding (ZigbeeFindingBinding.h): the switch asks a target  *)
(* for its descriptors (ZigbeeDevice.cpp answers), binds the clusters both *)
(* have (ZigbeeBindingTable.h) and then sends to every bound destination.  *)
(* Bind and Unbind requests arrive at any time, also between two sends.    *)
(***************************************************************************)
EXTENDS Integers, FiniteSets, SequencesExt

CONSTANTS
  OwnOutputs,     \* the output clusters of the switch, in their order
  Profile,        \* the application profile of the switch
  Targets,        \* [target -> its endpoint descriptors, in their order]
  ShortAddresses, \* the addresses a target may have
  BindingSlots    \* capacity of the binding table

ASSUME BindingAssumption ==
  /\ BindingSlots \in Nat
  /\ OwnOutputs \in Seq(Range(OwnOutputs))

VARIABLES
  bdb,            \* pending_, current_, state_ and lastStatus_
  failed,         \* the steps that failed since start()
  address,        \* [target -> its short address]
  bindings,       \* [slot -> a binding, or none]
  found,          \* bindings that finding made and nobody removed since
  press           \* a send to the bound destinations: cursor, cluster, ...

bdbVars == <<bdb, failed>>
commissioningVars == <<bdb, failed, address, bindings, found, press>>

Precedence == <<"touchlink", "steering", "formation", "finding">>
NetworkSteps == {"steering", "formation"}
NoBinding == [used |-> FALSE]
Binding(cluster, target, endpoint) ==
  [used |-> TRUE, cluster |-> cluster, target |-> target, endpoint |-> endpoint]

NoPress == [cursor |-> 0, cluster |-> {}, bound |-> {}, served |-> {}, again |-> {}]

CommissioningInit ==
  /\ bdb = [pending |-> {}, current |-> "none", state |-> "idle",
            last |-> "success"]
  /\ failed = {}
  /\ address = [t \in DOMAIN Targets |-> CHOOSE a \in ShortAddresses : TRUE]
  /\ bindings = [s \in 1 .. BindingSlots |-> NoBinding]
  /\ found = {}
  /\ press = NoPress

-----------------------------------------------------------------------------
(* The device that is asked                                                 *)

FindEndpoint(t, e) == SelectSeq(Targets[t], LAMBDA d : d.endpoint = e)
EndpointMatches(d, profile, inputs, outputs) ==
  d.profile = profile /\ inputs \subseteq d.inputs /\ outputs \subseteq d.outputs

ActiveEndpoints(t, asked) ==
  IF asked # address[t] THEN <<>>
  ELSE [i \in DOMAIN Targets[t] |-> Targets[t][i].endpoint]
SimpleDescriptor(t, asked, e) ==
  IF asked # address[t] THEN <<>> ELSE FindEndpoint(t, e)
MatchDescriptor(t, asked, profile, inputs) ==
  SelectSeq(ActiveEndpoints(t, asked),
            LAMBDA e : EndpointMatches(FindEndpoint(t, e)[1], profile, inputs, {}))

-----------------------------------------------------------------------------
(* The binding table                                                        *)

SlotsOfBinding(table, b) == {s \in DOMAIN table : table[s] = b}
FreeBindings(table) == {s \in DOMAIN table : ~table[s].used}
LowestSlot(slots) == CHOOSE s \in slots : \A r \in slots : s <= r

AddBinding(table, b) ==
  IF SlotsOfBinding(table, b) # {} \/ FreeBindings(table) = {} THEN table
  ELSE [table EXCEPT ![LowestSlot(FreeBindings(table))] = b]

\* Mutant: the last entry moves into the hole, as in the group table.
RemoveBindingBySwap(table, b) ==
  LET last == CHOOSE s \in DOMAIN table :
                table[s].used /\ \A r \in DOMAIN table : r > s => ~table[r].used
  IN  [table EXCEPT ![LowestSlot(SlotsOfBinding(table, b))] = table[last],
                    ![last] = NoBinding]

RemoveBinding(table, b) ==
  [table EXCEPT ![LowestSlot(SlotsOfBinding(table, b))] = NoBinding]

Stored(table) == {table[s] : s \in DOMAIN table} \ {NoBinding}

Bind(b) ==
  /\ bindings' = AddBinding(bindings, b)
  /\ UNCHANGED <<bdb, failed, address, found, press>>

Unbind(b) ==
  /\ SlotsOfBinding(bindings, b) # {}
  /\ bindings' = RemoveBinding(bindings, b)
  /\ found' = found \ {b}
  /\ press' = [press EXCEPT !.bound = @ \ {b}]
  /\ UNCHANGED <<bdb, failed, address>>

\* Each cluster that both have, once, by its first place among the own outputs.
MatchClusters(inputs) ==
  {i \in DOMAIN OwnOutputs :
     OwnOutputs[i] \in inputs /\ \A j \in 1 .. i - 1 : OwnOutputs[j] # OwnOutputs[i]}

\* add() of the wanted bindings one after the other: the k-th that the table
\* does not hold takes the k-th free slot, as far as these reach.
Rank(i, S) == Cardinality({j \in S : j <= i})
Missing(table, wanted) == {i \in DOMAIN wanted : wanted[i] \notin Stored(table)}
PutInto(table, wanted, s) ==
  {i \in Missing(table, wanted) :
     ~table[s].used /\ Rank(i, Missing(table, wanted)) = Rank(s, FreeBindings(table))}
CreateBindings(table, wanted) ==
  [s \in DOMAIN table |->
     IF PutInto(table, wanted, s) = {} THEN table[s]
     ELSE wanted[CHOOSE i \in PutInto(table, wanted, s) : TRUE]]

-----------------------------------------------------------------------------
(* Commissioning                                                            *)

DueModes(pending) == {i \in DOMAIN Precedence : Precedence[i] \in pending}
Advance(pending) ==
  [pending |-> pending,
   current |-> IF DueModes(pending) = {} THEN "none"
               ELSE Precedence[LowestSlot(DueModes(pending))],
   state |-> IF DueModes(pending) = {} THEN "done" ELSE "in progress"]

\* overallStatus() answers with last once the state is "done".
WithStatus(b, status) == [pending |-> b.pending, current |-> b.current,
                          state |-> b.state, last |-> status]
\* Mutant: a failed network step does not end the sequence.
NotAbandoned == Advance(bdb.pending \ {bdb.current})

Abandoned == [pending |-> {}, current |-> "none", state |-> "done"]

ReportResult(status) ==
  /\ bdb' = WithStatus(IF status # "success" /\ bdb.current \in NetworkSteps
                       THEN Abandoned ELSE Advance(bdb.pending \ {bdb.current}),
                       status)
  /\ failed' = IF status = "success" THEN failed ELSE failed \cup {bdb.current}

Start(modes) ==
  /\ bdb' = WithStatus(Advance(modes), "success")
  /\ failed' = {}
  /\ found' = {}
  /\ UNCHANGED <<address, bindings, press>>

NetworkStep(status) ==
  /\ bdb.current \in {"touchlink"} \cup NetworkSteps
  /\ ReportResult(status)
  /\ UNCHANGED <<address, bindings, found, press>>

\* The switch asks t, at the address it believes t has, for an endpoint with
\* its first cluster and for the descriptor of that endpoint.
Offering(t, at) == MatchDescriptor(t, at, Profile, {Head(OwnOutputs)})
Wanted(t, at) ==
  LET e == Offering(t, at)[1]
  IN  [i \in MatchClusters(SimpleDescriptor(t, at, e)[1].inputs) |->
         Binding(OwnOutputs[i], t, e)]

FindingFails ==
  /\ bdb.current = "finding"
  /\ ReportResult("no identify query response")
  /\ UNCHANGED <<address, bindings, found, press>>

FindAndBind(t, at) ==
  /\ bdb.current = "finding"
  /\ Offering(t, at) # <<>>
  /\ bindings' = CreateBindings(bindings, Wanted(t, at))
  /\ LET full == ~(Range(Wanted(t, at)) \subseteq Stored(bindings'))
     IN  ReportResult(IF full THEN "binding table full" ELSE "success")
  /\ found' = Range(Wanted(t, at))
  /\ UNCHANGED <<address, press>>

\* A target joins again under another address.
Readdress(t, a) ==
  /\ address' = [address EXCEPT ![t] = a]
  /\ UNCHANGED <<bdb, failed, bindings, found, press>>

-----------------------------------------------------------------------------
(* Sending to what is bound: next() is called until it finds no more        *)

Press(cluster) ==
  /\ press = NoPress
  /\ press' = [NoPress EXCEPT !.cursor = 1, !.cluster = {cluster},
       !.bound = {b \in Stored(bindings) : b.cluster = cluster}]
  /\ UNCHANGED <<bdb, failed, address, bindings, found>>

Ahead == {s \in press.cursor .. BindingSlots :
            bindings[s].used /\ {bindings[s].cluster} = press.cluster}

ServeNext ==
  /\ press # NoPress /\ Ahead # {}
  /\ LET b == bindings[LowestSlot(Ahead)]
     IN  press' = [press EXCEPT !.cursor = LowestSlot(Ahead) + 1,
                                !.served = @ \cup ({b} \cap press.bound),
                                !.again = @ \cup ({b} \cap press.served)]
  /\ UNCHANGED <<bdb, failed, address, bindings, found>>

PressEnds ==
  /\ press # NoPress /\ Ahead = {}
  /\ press' = NoPress
  /\ UNCHANGED <<bdb, failed, address, bindings, found>>

\* The bindings a Bind request may ask for.
Bindable == UNION {{Binding(c, t, d.endpoint) :
                      c \in ToSet(OwnOutputs), d \in ToSet(Targets[t])} :
                   t \in DOMAIN Targets}

CommissioningNext ==
  \/ \E modes \in SUBSET ToSet(Precedence) : Start(modes)
  \/ \E status \in {"success", "no network"} : NetworkStep(status)
  \/ FindingFails
  \/ \E t \in DOMAIN Targets, a \in ShortAddresses :
       FindAndBind(t, a) \/ Readdress(t, a)
  \/ \E b \in Bindable : Bind(b) \/ Unbind(b)
  \/ \E c \in ToSet(OwnOutputs) : Press(c)
  \/ ServeNext
  \/ PressEnds

CommissioningSpec == CommissioningInit /\ [][CommissioningNext]_commissioningVars

-----------------------------------------------------------------------------
\* When commissioning ends with SUCCESS, every requested network step
\* succeeded, whatever failed before it, and everything that finding matched on
\* the target is bound, also what other requests had bound already, unless it
\* was unbound since (ZigbeeBdb.h:78-105, ZigbeeFindingBinding.h:58-76).
SuccessMeansCommissioned ==
  bdb.state = "done" /\ bdb.last = "success" =>
    /\ failed \cap NetworkSteps = {}
    /\ found \subseteq Stored(bindings)

\* A destination that stays bound while the switch sends to the destinations of
\* a cluster is served exactly once, whatever is bound, found or unbound between
\* two sends (ZigbeeBindingTable.h:67-118).
BoundAreServedOnce ==
  press # NoPress =>
    /\ press.again \cap press.bound = {}
    /\ Ahead = {} => press.bound \subseteq press.served
=============================================================================
