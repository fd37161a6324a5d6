----------------------------- MODULE WireFormat -----------------------------
(***************************************************************************)
(* The vocabulary of the frame codecs.  A byte on the wire is known by the *)
(* field it belongs to (f), the list item (k, 0 outside lists), its place  *)
(* in the field (i, least significant first: writeLe16, writeLe64), and,   *)
(* for the bytes a parser branches on, its number (n) or the positions of  *)
(* its set bits (s).  e marks a byte of ciphertext.                        *)
(*                                                                         *)
(* A parser answers a frame p with the reads it performs; a read is right  *)
(* when the bytes it takes are those of the field it assigns.              *)
(***************************************************************************)
EXTENDS Naturals, Sequences, SequencesExt

AtItem(f, k, w) ==
    [i \in 1..w |-> [f |-> f, k |-> k, i |-> i, n |-> 0, s |-> {}, e |-> FALSE]]
U(f, w) == AtItem(f, 0, w)
Num(f, v) == <<[U(f, 1)[1] EXCEPT !.n = v]>>
Wide(f, w, v) == [i \in 1..w |-> [U(f, w)[i] EXCEPT !.n = v]]
Bits(f, w, s) == [i \in 1..w |-> [U(f, w)[i] EXCEPT !.s = s]]
Const(v) == Num("const", v)
Ignored(w) == [i \in 1..w |-> Const(0)[1]]
When(c, bytes) == IF c THEN bytes ELSE <<>>

(***************************************************************************)
(* n items one after the other: of 16 bits each, or laid out by Item(k).   *)
(***************************************************************************)
Words(f, n) == [j \in 1..(2 * n) |-> AtItem(f, (j + 1) \div 2, 2)[2 - (j % 2)]]
List(n, Item(_)) == FlattenSeq([k \in 1..n |-> Item(k)])

(***************************************************************************)
(* A read of w bytes of field f (of item k) at offset off, counted from 0  *)
(* as the source counts; what a parser answers.  rest is the offset of the *)
(* payload it hands on, NoRest when the format has none.                   *)
(***************************************************************************)
NoRest == 999
R(f, off, w) == [f |-> f, k |-> 0, off |-> off, w |-> w]
RItem(f, k, off, w) == [f |-> f, k |-> k, off |-> off, w |-> w]
Reject == [ok |-> FALSE, reads |-> {}, rest |-> NoRest]
Accept(reads, rest) == [ok |-> TRUE, reads |-> reads, rest |-> rest]
AcceptIf(c, reads, rest) == IF c THEN Accept(reads, rest) ELSE Reject

Right(p, r) ==
    /\ r.off + r.w <= Len(p)
    /\ \A i \in 1..r.w : /\ p[r.off + i].f = r.f /\ p[r.off + i].k = r.k
                         /\ p[r.off + i].i = i /\ ~p[r.off + i].e

Rest(p, a) == SubSeq(p, a.rest + 1, Len(p))

(***************************************************************************)
(* The named fields of a header; constants are checked, not read.          *)
(***************************************************************************)
Fields(h) == {<<h[j].f, h[j].k>> : j \in {m \in DOMAIN h : h[m].f # "const"}}

(***************************************************************************)
(* A format of fixed layout: what is written, the length the parser asks   *)
(* for, the constant bytes it checks (pairs <<offset, value>>) and the     *)
(* fields it reads (triples <<field, offset, width>>).                     *)
(***************************************************************************)
Fixed(wire, min, tags, fields) ==
    [wire |-> wire, min |-> min, tags |-> tags,
     reads |-> {R(t[1], t[2], t[3]) : t \in fields}]

ParseFixed(c, p) ==
    AcceptIf(Len(p) >= c.min /\ \A t \in c.tags : p[t[1] + 1].n = t[2],
             c.reads, NoRest)

(***************************************************************************)
(* The value of a w-bit field at bit lo, as the set of its set bits.       *)
(***************************************************************************)
SubField(s, lo, w) == {b \in 0..(w - 1) : (b + lo) \in s}
Trunc8(x) == x % 256
=============================================================================
