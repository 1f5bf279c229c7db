------------------------------- MODULE SrtSeq -------------------------------
(***************************************************************************)
(* Serial-number arithmetic of seq.rs, for a space of 2 * SeqHalf sequence *)
(* numbers (SRT's has 2^31).  Inputs are normalised sequences, so the      *)
(* masked wrapping subtraction is one conditional addition of the space.   *)
(***************************************************************************)
EXTENDS Integers

CONSTANT SeqHalf   \* SEQ_HALF

ASSUME SeqHalfAssumption == SeqHalf \in Nat \ {0}

SeqSpace == 2 * SeqHalf
Seqs == 0 .. SeqSpace - 1
NoAckYet == -1     \* NO_ACK_YET: outside the space

SeqDiff(a, b) ==
  LET d == IF a >= b THEN a - b ELSE a - b + SeqSpace
  IN IF d >= SeqHalf THEN d - SeqSpace ELSE d

SeqAfterNumeric(a, b) == a > b

SeqAfter(a, b) == SeqDiff(a, b) > 0

SeqPrev(s) == IF s = 0 THEN SeqSpace - 1 ELSE s - 1

(* The last sequence a cumulative ACK acknowledges: its field names the    *)
(* first one the receiver does not have.                                   *)
SrtAckLastAcked(field) == SeqPrev(field)

(* The sequence n steps after s, for n up to the size of the space.        *)
SeqPlus(s, n) == IF s + n >= SeqSpace THEN s + n - SeqSpace ELSE s + n
=============================================================================
