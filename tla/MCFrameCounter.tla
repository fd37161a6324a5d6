--------------------------- MODULE MCFrameCounter ---------------------------
(* Model checking of FrameCounter with a margin of a few frames.           *)
EXTENDS FrameCounter
=============================================================================
