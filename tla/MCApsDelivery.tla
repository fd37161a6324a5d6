---------------------------- MODULE MCApsDelivery ----------------------------
(* Model checking of ApsDelivery with few counters, tries and frames.      *)
EXTENDS ApsDelivery
=============================================================================
