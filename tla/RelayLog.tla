------------------------------ MODULE RelayLog ------------------------------
(***************************************************************************)
(* What the relay of ACKs and NAKs to the SRT client promises, without the *)
(* ring buffers that implement it: for each kind of packet the sender      *)
(* remembers its latest Size forwards, newest first, and forwards a packet *)
(* unless one of those is the same packet, younger than the kind's window. *)
(***************************************************************************)
EXTENDS Naturals, Sequences

CONSTANTS
  Kinds,     \* the kinds of packet that are deduplicated
  Packets,   \* distinct packets, as byte strings
  KindOf,    \* the kind of a packet
  Size,      \* forwards of a kind that are remembered
  Window     \* how long a forward of a kind suppresses copies

VARIABLES
  recent,    \* the remembered forwards of each kind, newest first
  decision   \* the packet last decided on and whether it was forwarded

vars == <<recent, decision>>

None == [pkt |-> "none", fwd |-> FALSE]

Init ==
  /\ recent = [k \in Kinds |-> <<>>]
  /\ decision = None

\* A forward of p is remembered that still suppresses copies.
Suppresses(p) ==
  \E i \in DOMAIN recent[KindOf[p]] :
    LET f == recent[KindOf[p]][i] IN f.pkt = p /\ f.age < Window[KindOf[p]]

Latest(s, n) == SubSeq(s, 1, IF Len(s) < n THEN Len(s) ELSE n)

Forward(p) ==
  /\ ~Suppresses(p)
  /\ recent' = [recent EXCEPT ![KindOf[p]] =
                  Latest(<<[pkt |-> p, age |-> 0]>> \o @, Size[KindOf[p]])]
  /\ decision' = [pkt |-> p, fwd |-> TRUE]

Suppress(p) ==
  /\ Suppresses(p)
  /\ decision' = [pkt |-> p, fwd |-> FALSE]
  /\ UNCHANGED recent

\* Time passes; a forward older than its window no longer ages.
Tick ==
  /\ recent' = [k \in Kinds |-> [i \in DOMAIN recent[k] |->
                  [recent[k][i] EXCEPT !.age = IF @ < Window[k] THEN @ + 1 ELSE @]]]
  /\ UNCHANGED decision

Next == Tick \/ \E p \in Packets : Forward(p) \/ Suppress(p)

Spec == Init /\ [][Next]_vars
=============================================================================
