---------------------------- MODULE MCNetworkJoin ----------------------------
(* Model checking of NetworkJoin with two parents and few crashes.         *)
EXTENDS NetworkJoin
=============================================================================
