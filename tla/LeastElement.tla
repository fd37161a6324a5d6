---------------------------- MODULE LeastElement ----------------------------
(***************************************************************************)
(* The tables of the library are arrays scanned from slot 0: a search for  *)
(* any slot that fits takes the first one.                                 *)
(***************************************************************************)
EXTENDS Integers

First(S) == CHOOSE s \in S : \A t \in S : s <= t
=============================================================================
