----------------------------- MODULE ApsService -----------------------------
(***************************************************************************)
(* What acknowledged APS delivery promises to the applications at its two  *)
(* ends: every frame is reported delivered or dropped in the end, frames   *)
(* are handed up in the order they were sent and at most once each, and a  *)
(* frame is reported delivered only if it was handed up.  A frame reported *)
(* dropped may have been handed up: only its acknowledgements were lost.   *)
(***************************************************************************)
EXTENDS Integers, Sequences

CONSTANT Frames  \* the frames a sender may send, numbered in their order

VARIABLES
  outcome,  \* [Frames -> what the sender knows of the frame]
  handed    \* frames handed to the receiving application, in order

vars == <<outcome, handed>>

Processed == {handed[i] : i \in 1 .. Len(handed)}

Init ==
  /\ outcome = [f \in Frames |-> "unsent"]
  /\ handed = <<>>

Send(f) ==
  /\ outcome[f] = "unsent"
  /\ outcome' = [outcome EXCEPT ![f] = "pending"]
  /\ UNCHANGED handed

Process(f) ==
  /\ outcome[f] # "unsent"
  /\ \A g \in Processed : g < f
  /\ handed' = Append(handed, f)
  /\ UNCHANGED outcome

Confirm(f) ==
  /\ outcome[f] = "pending"
  /\ f \in Processed
  /\ outcome' = [outcome EXCEPT ![f] = "delivered"]
  /\ UNCHANGED handed

GiveUp(f) ==
  /\ outcome[f] = "pending"
  /\ outcome' = [outcome EXCEPT ![f] = "dropped"]
  /\ UNCHANGED handed

Settle(f) == Confirm(f) \/ GiveUp(f)

Next == \E f \in Frames : Send(f) \/ Process(f) \/ Settle(f)

Spec == Init /\ [][Next]_vars /\ \A f \in Frames : WF_vars(Settle(f))
=============================================================================
