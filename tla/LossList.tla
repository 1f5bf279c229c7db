------------------------------ MODULE LossList ------------------------------
(***************************************************************************)
(* The loss list of an SRT NAK and the list of an SRTLA ACK, read word by  *)
(* word: parse_srt_nak with its two loops, parse_srtla_ack with its one.   *)
(*                                                                         *)
(* A word is a number below 2 * SeqSpace; the upper half is the range flag *)
(* (SeqSpace is 2^31).  The buffer is the words after the header; the one  *)
(* to three bytes that may follow the last whole word are never read.  The *)
(* receiver writes single losses and ranges, across the wrap too; the wire *)
(* may spoil the end of a range, and cut the list.                         *)
(***************************************************************************)
EXTENDS Naturals, Sequences, FiniteSetsExt, SequencesExt

CONSTANTS
  SeqSpace,
  MaxLossIds,   \* SRT_NAK_MAX_LOSS_IDS
  MaxEntries    \* entries the receiver writes

None == 2 * SeqSpace

LossListAssumption ==
  SeqSpace \in Nat \ {0} /\ MaxLossIds \in Nat \ {0} /\ MaxEntries \in Nat

Seqs == 0 .. SeqSpace - 1
Flagged(w) == w >= SeqSpace
FirstUnmasked(w) == w
First(w) == w % SeqSpace

VARIABLES
  packet,   \* "nak", "srtla_ack" or "other"
  entries,  \* history: what the receiver wrote
  words,    \* what arrived
  i,        \* the next word
  seq, end, \* inner loop: next and last id of the range, or None
  out

vars == <<packet, entries, words, i, seq, end, out>>

Single(s) == [words |-> <<s>>, ids |-> <<s>>]
LossRange(a, b) ==
  [words |-> <<a + SeqSpace, b>>, ids |-> IF a <= b THEN [k \in 1 .. b - a + 1 |-> a + k - 1] ELSE <<>>]
Spoilt(a, b) == [words |-> <<a + SeqSpace, b + SeqSpace>>, ids |-> <<>>]

Entries(p) ==
  {Single(s) : s \in Seqs} \union
  IF p = "srtla_ack" THEN {} ELSE {LossRange(a, b) : a, b \in Seqs} \union {Spoilt(a, b) : a, b \in Seqs}

-----------------------------------------------------------------------------
(* parse_srt_nak *)

Unread == i <= Len(words)
Done == packet = "other" \/ (~Unread /\ seq = None)

RangeOk(first, last) == ~Flagged(last) /\ first <= last

ReadSingle ==
  /\ packet = "nak" /\ seq = None /\ Unread /\ ~Flagged(words[i])
  /\ out' = Append(out, words[i])
  /\ i' = i + 1
  /\ UNCHANGED <<packet, entries, words, seq, end>>

ReadRange ==
  /\ packet = "nak" /\ seq = None /\ Unread /\ Flagged(words[i])
  /\ i' = i + 2
  /\ IF i < Len(words) /\ RangeOk(First(words[i]), words[i + 1])
     THEN seq' = First(words[i]) /\ end' = words[i + 1]
     ELSE UNCHANGED <<seq, end>>
  /\ UNCHANGED <<packet, entries, words, out>>

PushRange ==
  /\ seq # None
  /\ IF Len(out) >= MaxLossIds
     THEN seq' = None /\ UNCHANGED out
     ELSE /\ out' = Append(out, seq)
          /\ seq' = IF seq = end THEN None ELSE seq + 1
  /\ UNCHANGED <<packet, entries, words, i, end>>

(* parse_srtla_ack *)

ReadAck ==
  /\ packet = "srtla_ack" /\ Unread
  /\ out' = Append(out, words[i])
  /\ i' = i + 1
  /\ UNCHANGED <<packet, entries, words, seq, end>>

Init ==
  /\ packet \in {"nak", "srtla_ack", "other"}
  /\ entries \in UNION {[1..n -> Entries(packet)] : n \in 0..MaxEntries}
  /\ \E cut \in {0, 1} :
       LET all == FlattenSeq([k \in DOMAIN entries |-> entries[k].words])
       IN  cut <= Len(all) /\ words = SubSeq(all, 1, Len(all) - cut)
  /\ i = 1 /\ seq = None /\ end = None /\ out = <<>>

Next == ReadSingle \/ ReadRange \/ PushRange \/ ReadAck

Spec == Init /\ [][Next]_vars

-----------------------------------------------------------------------------
\* Every id is a bare sequence number, however the words of a range are spoilt.
TypeOK == i \in 1 .. 2 * MaxEntries + 2 /\ \A k \in DOMAIN out : out[k] \in Seqs

\* What the receiver reported, from the entries that arrived whole.
Reported ==
  LET size(n) == Len(FlattenSeq([k \in 1..n |-> entries[k].words]))
      whole == Max({n \in 0..Len(entries) : size(n) <= Len(words)})
  IN  FlattenSeq([k \in 1..whole |-> entries[k].ids])

\* The ids are the reported losses in wire order: a spoilt, backward or cut range
\* gives nothing and does not disturb its neighbours, a range stops at its end even
\* at the top of the space, and a list that is too long loses only what is past the
\* limit.
LossesMeant ==
  Done /\ packet # "other" =>
    LET n == IF packet = "nak" THEN Min({MaxLossIds, Len(Reported)}) ELSE Len(Reported)
    IN  /\ Len(out) >= n /\ SubSeq(out, 1, n) = SubSeq(Reported, 1, n)
        /\ Len(out) <= Len(Reported)

\* The limit holds for the packet: "Expansion is bounded at SRT_NAK_MAX_LOSS_IDS ids
\* per packet".
NakBounded == packet = "nak" => Len(out) <= MaxLossIds
=============================================================================
