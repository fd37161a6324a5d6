--------------------------- MODULE MCAddressLeases ---------------------------
(* Model checking of AddressLeases with a table smaller than its peers.    *)
EXTENDS AddressLeases
=============================================================================
