-------------------------- MODULE FragmentService --------------------------
(***************************************************************************)
(* What fragmentation promises: a long payload that was begun is handed to *)
(* the receiving application whole, or not at all.                         *)
(***************************************************************************)
CONSTANT Asdus  \* the payloads a sender may fragment

VARIABLES
  begun,  \* payloads of which at least one fragment was produced
  whole   \* payloads handed to the receiving application

service == <<begun, whole>>

ServiceInit == begun = {} /\ whole = {}

Begin(a) == begun' = begun \cup {a} /\ UNCHANGED whole

HandUp(a) ==
  /\ a \in begun
  /\ whole' = whole \cup {a}
  /\ UNCHANGED begun

ServiceNext == \E a \in Asdus : Begin(a) \/ HandUp(a)

ServiceSpec == ServiceInit /\ [][ServiceNext]_service
=============================================================================
