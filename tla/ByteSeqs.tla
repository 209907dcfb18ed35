------------------------------ MODULE ByteSeqs ------------------------------
(***************************************************************************)
(* The two ends of a byte sequence.                                        *)
(***************************************************************************)
EXTENDS Integers, Sequences

Drop(s, n) == SubSeq(s, n + 1, Len(s))
Take(s, n) == SubSeq(s, 1, n)
=============================================================================
