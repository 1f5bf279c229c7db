----------------------------- MODULE ClientDedup -----------------------------
(***************************************************************************)
(* The relay of SRT ACKs and NAKs to the local client (client_dedup.rs and *)
(* the two arms of process_uplink_packet that use it).  The receiver sends *)
(* each of them down every uplink; copies arrive late, out of order or not *)
(* at all, and a NAK is sent again, byte for byte, every Period ticks.     *)
(* How far the copies lag is not related to the windows or to the period:  *)
(* the ACK window is sized for a skew of hundreds of milliseconds, and a   *)
(* copy of one round may arrive when the next round has been sent.         *)
(*                                                                         *)
(* Packets are model values: equal bytes are the same value, and distinct  *)
(* bytes hash differently.  Stamps are ages that saturate at the window.   *)
(***************************************************************************)
EXTENDS Naturals, Sequences

CONSTANTS
  Acks, Naks,            \* distinct ACKs and NAKs
  Links,
  AckRing, NakRing,      \* ACK_RING_SIZE, NAK_RING_SIZE
  AckWindow, NakWindow,  \* ACK_DEDUP_WINDOW_MS, NAK_DEDUP_WINDOW_MS, in ticks
  Skew,                  \* ticks by which a copy may lag, at most
  Period,                \* ticks before the receiver repeats a NAK
  MaxRounds              \* bound: times a NAK is sent

ASSUME DedupAssumption ==
  /\ AckRing \in Nat \ {0} /\ NakRing \in Nat \ {0}
  /\ AckWindow \in Nat \ {0} /\ NakWindow \in Nat \ {0}
  /\ Skew \in Nat /\ Period \in Nat /\ MaxRounds \in Nat \ {0}
  /\ "none" \notin Acks \union Naks

Kinds == {"ack", "nak"}
Packets == Acks \union Naks
KindOf == [p \in Packets |-> IF p \in Acks THEN "ack" ELSE "nak"]
RingSize == [k \in Kinds |-> IF k = "ack" THEN AckRing ELSE NakRing]
Window == [k \in Kinds |-> IF k = "ack" THEN AckWindow ELSE NakWindow]
Rounds == 1..MaxRounds

Empty == [pkt |-> "none", age |-> 0]

VARIABLES
  ring,      \* Ring of each kind: its entries and the slot written next
  client,    \* last_client_addr is known
  queue,     \* ACKs in the instant-forward channel
  copies,    \* copies on their way from the receiver
  round,     \* times each packet was sent by the receiver
  gen,       \* ticks since then, up to Period
  decision,  \* history: the packet last decided on, and the verdict
  heard,     \* history: the rounds of a packet of which a copy was decided on
  told,      \* history: the rounds of a packet forwarded, and how late each copy was
  offered    \* history: packets handed to the client's socket

relay == <<ring, client, queue>>
net == <<copies, round, gen>>
ghosts == <<decision, heard, told, offered>>
vars == <<relay, net, ghosts>>

Init ==
  /\ ring = [k \in Kinds |-> [entries |-> [s \in 0..RingSize[k] - 1 |-> Empty], next |-> 0]]
  /\ client = FALSE
  /\ queue = <<>>
  /\ copies = {}
  /\ round = [p \in Packets |-> 0]
  /\ gen = [p \in Packets |-> 0]
  /\ decision = [pkt |-> "none", fwd |-> FALSE]
  /\ heard = [p \in Packets |-> {}]
  /\ told = [p \in Packets |-> {}]
  /\ offered = {}

-----------------------------------------------------------------------------
(* Ring::should_forward *)

\* The ring that remembers a packet, and its window.
RingOf(p) == KindOf[p]

\* An entry still suppresses copies on the last tick of its window and after.
SeenRecentlyLate(p) ==
  \E s \in DOMAIN ring[RingOf(p)].entries :
    /\ ring[RingOf(p)].entries[s].pkt = p
    /\ ring[RingOf(p)].entries[s].age <= Window[RingOf(p)]
SeenRecently(p) ==
  \E s \in DOMAIN ring[RingOf(p)].entries :
    /\ ring[RingOf(p)].entries[s].pkt = p
    /\ ring[RingOf(p)].entries[s].age < Window[RingOf(p)]

\* The slot written next stays where it is.
AdvanceStuck(i, n) == i
Advance(i, n) == (i + 1) % n

Record(p) ==
  ring' = [ring EXCEPT ![RingOf(p)] =
             [entries |-> [@.entries EXCEPT ![@.next] = [pkt |-> p, age |-> 0]],
              next |-> Advance(@.next, RingSize[RingOf(p)])]]

-----------------------------------------------------------------------------
(* The ACK and NAK arms of process_uplink_packet *)

\* try_send_to takes the ACK or fails for good, or it would block and the
\* channel takes it.  A NAK is sent when the handler has run.
Offer(p) ==
  \/ offered' = offered \union {p} /\ UNCHANGED queue
  \/ p \in Acks /\ queue' = Append(queue, p) /\ UNCHANGED offered

Forward(c) ==
  /\ ~SeenRecently(c.pkt)
  /\ Record(c.pkt)
  /\ Offer(c.pkt)
  /\ decision' = [pkt |-> c.pkt, fwd |-> TRUE]
  /\ told' = [told EXCEPT ![c.pkt] = @ \union {[round |-> c.round, lag |-> c.age]}]

Suppress(p) ==
  /\ SeenRecently(p)
  /\ decision' = [pkt |-> p, fwd |-> FALSE]
  /\ UNCHANGED <<ring, queue, told, offered>>

\* A copy arrives.  Without a client nothing is decided and nothing recorded.
ProcessUplinkPacket(c) ==
  /\ copies' = copies \ {c}
  /\ \/ /\ client
        /\ Forward(c) \/ Suppress(c.pkt)
        /\ heard' = [heard EXCEPT ![c.pkt] = @ \union {c.round}]
     \/ /\ ~client
        /\ UNCHANGED <<ring, queue, ghosts>>
  /\ UNCHANGED <<client, round, gen>>

\* handle_srt_packet has seen the client's first packet.
ClientAppears ==
  /\ ~client
  /\ client' = TRUE
  /\ UNCHANGED <<ring, queue, net, ghosts>>

\* The instant-forward task sends the oldest ACK of its channel.
InstantForward ==
  /\ queue # <<>>
  /\ queue' = Tail(queue)
  /\ offered' = offered \union {Head(queue)}
  /\ UNCHANGED <<ring, client, net, decision, heard, told>>

-----------------------------------------------------------------------------
(* The receiver and the network *)

\* The receiver sends a packet down every uplink: an ACK once, a NAK again
\* after each Period.
PeerSends(p) ==
  /\ round[p] < (IF p \in Acks THEN 1 ELSE MaxRounds)
  /\ round[p] > 0 => gen[p] = Period
  /\ round' = [round EXCEPT ![p] = @ + 1]
  /\ gen' = [gen EXCEPT ![p] = 0]
  /\ copies' = copies \union [pkt : {p}, round : {round'[p]}, link : Links, age : {0}]
  /\ UNCHANGED <<relay, ghosts>>

Lose(c) ==
  /\ copies' = copies \ {c}
  /\ UNCHANGED <<relay, round, gen, ghosts>>

\* The stamp of a slot, a tick later.
Older(e, window) ==
  IF e.pkt # "none" /\ e.age < window THEN [e EXCEPT !.age = @ + 1] ELSE e

\* Time passes, while no copy has lagged for as long as one may.
Tick ==
  /\ \A c \in copies : c.age < Skew
  /\ ring' = [k \in Kinds |->
       [entries |-> [s \in DOMAIN ring[k].entries |-> Older(ring[k].entries[s], Window[k])],
        next |-> ring[k].next]]
  /\ copies' = {[c EXCEPT !.age = @ + 1] : c \in copies}
  /\ gen' = [p \in Packets |-> IF round[p] > 0 /\ gen[p] < Period THEN gen[p] + 1 ELSE gen[p]]
  /\ UNCHANGED <<client, queue, round, decision, heard, told, offered>>

Next ==
  \/ \E p \in Packets : PeerSends(p)
  \/ \E c \in copies : ProcessUplinkPacket(c) \/ Lose(c)
  \/ ClientAppears \/ InstantForward \/ Tick

Spec == Init /\ [][Next]_vars

-----------------------------------------------------------------------------
TypeOK ==
  /\ \A k \in Kinds :
       /\ ring[k].next \in 0..RingSize[k] - 1
       /\ ring[k].entries \in [0..RingSize[k] - 1 ->
                                [pkt : Packets \union {"none"}, age : 0..Window[k]]]
  /\ client \in BOOLEAN
  /\ queue \in Seq(Acks)
  /\ copies \subseteq [pkt : Packets, round : Rounds, link : Links, age : 0..Skew]
  /\ offered \subseteq Packets

\* A repeat of a NAK is withheld from the client only because of a late copy: when a
\* copy of a round has been decided on, that round or a later one was forwarded, or a
\* copy that lagged by more than Period - NakWindow was, whose record outlives the
\* repeat's arrival.  So it is whatever the order in which the copies of all rounds
\* arrive, and however far they lag (NAK_DEDUP_WINDOW_MS: a repeat "still has to reach
\* the client").  And an ACK that was forwarded has been handed to the client's socket,
\* or is in the channel of the instant-forward task: suppressing its copies loses nothing.
NothingWithheld ==
  /\ \A p \in Packets : \A r \in heard[p] :
       \E f \in told[p] : f.round >= r \/ f.lag + NakWindow > Period
  /\ \A p \in Acks : told[p] # {} => p \in offered \/ \E i \in DOMAIN queue : queue[i] = p

\* What the comment on NAK_DEDUP_WINDOW_MS says without that exception: a repeat "still
\* has to reach the client".  It does when copies lag by Period - NakWindow at most, and
\* not beyond: the record of a late copy of one round swallows the next.
RepeatsReach ==
  \A p \in Packets : \A r \in heard[p] : \E f \in told[p] : f.round >= r

\* The slots of a ring from the newest back to the oldest that is filled: all, or
\* those before the next one when that was never written.
Unrolled(k) ==
  LET n == RingSize[k]
      filled == IF ring[k].entries[ring[k].next].pkt = "none" THEN ring[k].next ELSE n
  IN  [i \in 1..filled |-> ring[k].entries[(ring[k].next + n - i) % n]]

Log == INSTANCE RelayLog WITH
  Size <- RingSize,
  recent <- [k \in Kinds |-> Unrolled(k)]

\* The two rings implement the log of the latest forwards: each decision on a
\* copy is the one the log would take.
RelaysAsLog == Log!Spec
=============================================================================
