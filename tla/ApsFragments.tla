---------------------------- MODULE ApsFragments ----------------------------
(***************************************************************************)
(* Fragmentation of long APS payloads (ZigbeeApsFragment.h): a fragmenter  *)
(* numbers the blocks of each payload, the first of which carries their    *)
(* total instead of a number, and one reassembler collects the blocks of   *)
(* the payload whose APS counter it saw last.  Blocks are lost, repeated   *)
(* and reordered on the way: any block ever produced may arrive, at any    *)
(* time, any number of times.  A payload is identified by its place in     *)
(* AsduBlocks, and counters are not reused among the modelled payloads.    *)
(***************************************************************************)
EXTENDS Integers, Sequences, FiniteSets

CONSTANTS
  AsduBlocks,  \* how many blocks each payload fills, in the order of sending
  MaxBlocks,   \* kMaxBlocks, 16 in the code
  BufferBlocks \* blocks that fit into the buffer given to begin()

VARIABLES
  produced,    \* index_: blocks produced so far, of each payload
  collecting,  \* counter_ and haveCounter_: the payload being collected
  total,       \* totalBlocks_: 0 until the first block arrived
  got,         \* got_: numbers of the blocks that arrived
  buffer,      \* [block number -> the block stored there]
  handedUp     \* contents addBlock() reported complete

fragmentVars == <<produced, collecting, total, got, buffer, handedUp>>

FragmentAsdus == 1 .. Len(AsduBlocks)
NoAsdu == 0
Vacant == [asdu |-> NoAsdu, index |-> 0]

\* total_ is one byte, and an empty payload is one empty block.
TotalOf(a) == LET n == AsduBlocks[a] % 256 IN IF n = 0 THEN 1 ELSE n

FragmentInit ==
  /\ produced = [a \in FragmentAsdus |-> 0]
  /\ collecting = NoAsdu
  /\ total = 0
  /\ got = {}
  /\ buffer = [i \in 0 .. BufferBlocks - 1 |-> Vacant]
  /\ handedUp = {}

NextFragment(a) ==
  /\ produced[a] < TotalOf(a)
  /\ produced' = [produced EXCEPT ![a] = @ + 1]
  /\ UNCHANGED <<collecting, total, got, buffer, handedUp>>

\* Mutant: a new counter does not forget the blocks of the last one.
KeptAcross(a) == got

\* reset(): a new counter forgets what had arrived, but not the buffer.
Kept(a) == IF collecting = a THEN got ELSE {}
KeptTotal(a) == IF collecting = a THEN total ELSE 0

\* length_ reaches to the end of the highest block that was stored.
Content(b, n) == [i \in 0 .. n - 1 |-> b[i]]
Extent(blocks) == IF blocks = {} THEN 0
                  ELSE (CHOOSE i \in blocks : \A j \in blocks : j <= i) + 1

AddBlock(a, i) ==
  LET fits == i < MaxBlocks /\ i < BufferBlocks
      got2 == IF fits THEN Kept(a) \cup {i} ELSE Kept(a)
      total2 == IF i = 0 THEN TotalOf(a) ELSE KeptTotal(a)
      buffer2 == IF fits THEN [buffer EXCEPT ![i] = [asdu |-> a, index |-> i]]
                 ELSE buffer
      complete == total2 > 0 /\ Cardinality(got2) >= total2
  IN  /\ i < produced[a]
      /\ collecting' = a
      /\ got' = got2
      /\ total' = total2
      /\ buffer' = buffer2
      /\ handedUp' = IF complete
                     THEN handedUp \cup {Content(buffer2, Extent(got2))}
                     ELSE handedUp
      /\ UNCHANGED produced

FragmentNext ==
  \E a \in FragmentAsdus :
    \/ NextFragment(a)
    \/ \E i \in 0 .. AsduBlocks[a] - 1 : AddBlock(a, i)

FragmentSpec == FragmentInit /\ [][FragmentNext]_fragmentVars

-----------------------------------------------------------------------------
WholeAsdu(a) == [i \in 0 .. AsduBlocks[a] - 1 |-> [asdu |-> a, index |-> i]]

Garbled == Len(AsduBlocks) + 1

Delivered(c) ==
  IF \E a \in FragmentAsdus : c = WholeAsdu(a)
  THEN CHOOSE a \in FragmentAsdus : c = WholeAsdu(a)
  ELSE Garbled

Promise ==
  INSTANCE FragmentService WITH
    Asdus <- FragmentAsdus,
    begun <- {a \in FragmentAsdus : produced[a] > 0},
    whole <- {Delivered(c) : c \in handedUp}

\* Whatever is lost, repeated or reordered on the way, addBlock() reports a
\* payload complete only when the buffer holds exactly the blocks one
\* fragmenter produced (ZigbeeApsFragment.h:140-186): it implements the
\* abstract service.
HandedUpWhole == Promise!ServiceSpec

-----------------------------------------------------------------------------
\* What makes it so: the reassembler's blocks are those of the payload it
\* collects, each at its place in the buffer, and no more than were produced.
BlocksInPlace ==
  collecting # NoAsdu =>
    /\ total \in {0, TotalOf(collecting)}
    /\ \A i \in got :
         /\ i \in 0 .. BufferBlocks - 1 /\ i < produced[collecting]
         /\ buffer[i] = [asdu |-> collecting, index |-> i]

FragmentInv ==
  /\ produced \in [FragmentAsdus -> Nat]
  /\ \A a \in FragmentAsdus : produced[a] <= TotalOf(a)
  /\ collecting \in FragmentAsdus \cup {NoAsdu}
  /\ got \in SUBSET Nat
  /\ buffer \in [0 .. BufferBlocks - 1 -> [asdu : Nat, index : Nat]]
  /\ BlocksInPlace
=============================================================================
