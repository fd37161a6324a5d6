---------------------------- MODULE MCNwkSecurity ----------------------------
(* Model checking of NwkSecurity: two peers and fewer replay slots than    *)
(* identities (peer, key), so that the table is full and recycles entries. *)
EXTENDS NwkSecurity, TLC

PeerSymmetry == Permutations(Peers)
=============================================================================
