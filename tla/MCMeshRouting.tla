---------------------------- MODULE MCMeshRouting ----------------------------
(* Model checking of MeshRouting on a small mesh: two routers in range of  *)
(* the coordinator and of each other, the end devices in range of the      *)
(* routers only.                                                           *)
EXTENDS MeshRouting

CONSTANTS A, R1, R2, C, D

\* Router R1 hears the coordinator badly: the way through R2 is cheaper.
Cost(p, q) ==
  CASE {p, q} = {A, R1} -> 5
    [] {p, q} = {A, R2} -> 1
    [] {p, q} = {R1, R2} -> 1
    [] {p, q} = {C, R1} -> 1
    [] {p, q} = {C, R2} -> IF D \in EndDevices THEN 0 ELSE 3
    [] {p, q} = {D, R2} -> 1
    [] OTHER -> 0

MCLinkCost == [p \in Nodes |-> [q \in Nodes |-> Cost(p, q)]]
MCParent == [n \in Routers \union EndDevices |->
               IF n \in Routers THEN A ELSE IF n = C THEN R1 ELSE R2]
=============================================================================
