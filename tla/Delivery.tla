------------------------------ MODULE Delivery ------------------------------
(***************************************************************************)
(* What the bond believes is in flight: the batch queue, packet log and    *)
(* probe log of every uplink (batch_send.rs, connection/mod.rs, ack_nak.rs)*)
(* the sequence tracker that says which uplink carried a sequence          *)
(* (sequence.rs), and the handlers that fill and drain them                *)
(* (packet_handler.rs).                                                    *)
(*                                                                         *)
(* The SRT client numbers its packets from Start; packet p has the         *)
(* sequence SeqAt(p), which wraps.  Which uplink the scheduler picks, when *)
(* an uplink is held out of the rotation and when a socket refuses a batch *)
(* are left open.  Windows, RTT samples and byte counts are left out.      *)
(***************************************************************************)
EXTENDS SrtSeq, Sequences, FiniteSets

CONSTANTS
  NLinks,       \* number of uplinks
  Start,        \* the client's initial sequence number
  RingSize,     \* SEQ_TRACKING_SIZE
  WalkLimit,    \* TARGETED_REMOVAL_LIMIT
  BatchSizes,   \* the batch_size of the regimes
  ProbeCap,     \* PROBE_LOG_SOFT_CAP
  MaxPackets,   \* bound: packets the client sends
  MaxResends,   \* bound: SRT retransmissions
  MaxResets,    \* bound: uplinks lost (refused batch, timeout or REG_ERR)
  MaxHolds,     \* bound: times an uplink is held out
  MaxExpired,   \* bound: tracker entries that reach their maximum age
  UpAtStart     \* uplinks already registered in the initial state

ASSUME LinksAssumption == NLinks \in Nat \ {0}
ASSUME SizeAssumption ==
  /\ RingSize \in Nat \ {0} /\ WalkLimit \in Nat /\ ProbeCap \in Nat \ {0}
  /\ BatchSizes \subseteq Nat \ {0} /\ BatchSizes # {}
ASSUME StreamAssumption ==
  /\ Start \in Seqs /\ MaxPackets \in Nat /\ MaxPackets < SeqHalf
  /\ MaxResends \in Nat /\ MaxResets \in Nat /\ MaxHolds \in Nat
  /\ MaxExpired \in Nat
  /\ UpAtStart \subseteq 0 .. NLinks - 1

Links == 0 .. NLinks - 1
NoLink == -1
Slots == 0 .. RingSize - 1

VARIABLES
  link,     \* the uplinks
  ring,     \* SequenceTracker
  net,      \* per uplink, the sequences on their way to the receiver
  acks,     \* per uplink, the SRTLA ACKs on their way back
  got,      \* sequences the receiver has
  lost,     \* sequences the receiver has reported missing
  sent,     \* packets the client has sent so far
  once,     \* has_connected: some uplink has registered
  spent,    \* what is used up of the last four bounds above
  ghost     \* history the properties speak about, per uplink

vars == <<link, ring, net, acks, got, lost, sent, once, spent, ghost>>

SeqAt(p) == SeqPlus(Start, p)

(* sched: the phase is past Registering.  held: stall gated or quality     *)
(* excluded.  stamps: the probes whose SRTLA ACK stamped delivery proof    *)
(* (last_ack_or_rtt_sample_ms) while it was held.                          *)
LinkState ==
  [queue : Seq([seq : Seqs, probe : BOOLEAN]), log : SUBSET Seqs,
   probes : SUBSET Seqs, highest : Seqs \cup {NoAckYet},
   connected : BOOLEAN, sched : BOOLEAN, held : BOOLEAN, stamps : SUBSET Seqs]

RingEntry == [conn : Links \cup {NoLink}, seq : Seqs, expired : BOOLEAN]

(* Since the uplink was last reset: the sequences whose unique copy it was *)
(* given, the tracked ones it put on the wire, the NAKs charged to it, the *)
(* ones a REG3 wiped, the probes the receiver got from it.                 *)
GhostState ==
  [carried : SUBSET Seqs, wired : SUBSET Seqs, blamed : SUBSET Seqs,
   wiped : SUBSET Seqs, reached : SUBSET Seqs]

NewLink ==
  [queue |-> <<>>, log |-> {}, probes |-> {}, highest |-> NoAckYet,
   connected |-> FALSE, sched |-> FALSE, held |-> FALSE, stamps |-> {}]

NewGhost ==
  [carried |-> {}, wired |-> {}, blamed |-> {}, wiped |-> {}, reached |-> {}]

-----------------------------------------------------------------------------
(* SequenceTracker.                                                        *)

EmptyEntry == [conn |-> NoLink, seq |-> 0, expired |-> FALSE]

Insert(r, s, i) ==
  [r EXCEPT ![s % RingSize] = [conn |-> i, seq |-> s, expired |-> FALSE]]

Owner(r, s) ==
  LET e == r[s % RingSize]
  IN IF e.seq = s /\ ~e.expired THEN e.conn ELSE NoLink

RemoveConnectionNever(r, S) == r

RemoveConnections(r, S) ==
  [k \in Slots |-> IF r[k].conn \in S THEN EmptyEntry ELSE r[k]]

-----------------------------------------------------------------------------
(* One uplink.                                                             *)

QueueData(c, s) ==
  [c EXCEPT !.queue = Append(@, [seq |-> s, probe |-> FALSE])]

(* record_probe: at the soft cap the old probes go, or all of them; which  *)
(* ones are old is left open.                                              *)
RecordProbe(S, s, kept) == (IF Cardinality(S) < ProbeCap THEN S ELSE kept) \cup {s}

QueueProbeTracked(c, s, kept) ==
  [c EXCEPT !.queue = Append(@, [seq |-> s, probe |-> FALSE])]

QueueProbe(c, s, kept) ==
  [c EXCEPT !.probes = RecordProbe(@, s, kept),
            !.queue = Append(@, [seq |-> s, probe |-> TRUE])]

Batch(c, n) == {c.queue[k].seq : k \in 1 .. n}
Tracked(c) == {c.queue[k].seq : k \in {j \in DOMAIN c.queue : ~c.queue[j].probe}}

(* take_batch: the whole batch is registered before it is sent.            *)
TakeBatch(c) == [c EXCEPT !.queue = <<>>, !.log = @ \cup Tracked(c)]

MarkForRecovery(c) == NewLink

(* clear_pre_registration_state: the tracker is left alone.                *)
ClearPreRegistration(c) ==
  [c EXCEPT !.queue = <<>>, !.log = {}, !.probes = {}, !.highest = NoAckYet,
            !.connected = TRUE, !.sched = TRUE]

(* handle_srt_ack: walk the newly acknowledged range, or sweep the log.    *)
HandleSrtAck(c, ack) ==
  LET first == c.highest = NoAckYet
      advance == SeqDiff(ack, c.highest)
      walked == {SeqPlus(c.highest, n) : n \in 1 .. advance}
  IN IF ~first /\ ~SeqAfter(ack, c.highest) THEN c
     ELSE [c EXCEPT !.highest = ack,
                    !.log = IF ~first /\ advance <= WalkLimit THEN @ \ walked
                            ELSE {s \in @ : SeqAfter(s, ack)}]

(* handle_srtla_ack_specific answers whether the uplink knew the sequence. *)
Knows(c, s) == s \in c.probes \/ s \in c.log

HandleSrtlaAck(c, s) ==
  [c EXCEPT !.probes = @ \ {s},
            !.log = IF s \in c.probes THEN @ ELSE @ \ {s},
            !.stamps = IF c.held THEN @ \cup ({s} \cap c.probes) ELSE @]

HandleNak(c, s) == [c EXCEPT !.log = @ \ {s}]

-----------------------------------------------------------------------------
(* flush_connection for the uplinks of S.  good[i] is how many datagrams   *)
(* of i's batch leave the socket; if one is refused the uplink is put into *)
(* recovery and the tracker forgets it.                                    *)

Refused(l, S, good) == {i \in S : good[i] < Len(l[i].queue)}

FlushedLogged(l, S, good) ==
  [i \in Links |-> IF i \in S THEN TakeBatch(l[i]) ELSE l[i]]

Flushed(l, S, good) ==
  [i \in Links |-> IF i \in Refused(l, S, good) THEN MarkForRecovery(l[i])
                   ELSE IF i \in S THEN TakeBatch(l[i]) ELSE l[i]]

(* good, bounded by the number of resets.                                  *)
Outcomes(l, S) ==
  {good \in [S -> 0 .. MaxPackets + MaxResends] :
     /\ \A i \in S : good[i] <= Len(l[i].queue)
     /\ spent.resets + Cardinality(Refused(l, S, good)) <= MaxResets}

FlushGhost(g, l, S, good) ==
  [i \in Links |-> IF i \in Refused(l, S, good) THEN NewGhost
                   ELSE IF i \in S THEN [g[i] EXCEPT !.wired = @ \cup Tracked(l[i])]
                   ELSE g[i]]

(* Flush S, given the uplinks l, the tracker r and the history g; again   *)
(* counts a retransmission.                                                *)
Flush(l, r, g, S, again) ==
  \E good \in Outcomes(l, S) :
    LET bad == Refused(l, S, good)
    IN /\ link' = Flushed(l, S, good)
       /\ ring' = RemoveConnections(r, bad)
       /\ net' = [i \in Links |->
                    IF i \in S THEN net[i] \cup Batch(l[i], good[i]) ELSE net[i]]
       /\ ghost' = FlushGhost(g, l, S, good)
       /\ spent' = [spent EXCEPT !.resends = @ + again,
                                 !.resets = @ + Cardinality(bad)]

-----------------------------------------------------------------------------
(* handle_srt_packet: the packet is queued on the selected uplink and the  *)
(* tracker told so; held-out uplinks may get a duplicate probe; batches at *)
(* their threshold are flushed.                                            *)

(* Before the first REG3 any uplink can be selected, later a schedulable   *)
(* one that is not held out.                                               *)
Selectable ==
  IF once THEN {i \in Links : link[i].sched /\ ~link[i].held} ELSE Links

HeldOut(sel) ==
  IF once THEN {i \in Links \ {sel} : link[i].held /\ link[i].connected} ELSE {}

(* What record_probe may keep of a probe log S.                            *)
Kept(S) == {K \in SUBSET S : Cardinality(K) < ProbeCap}

Queued(sel, s, due, kept) ==
  [i \in Links |-> IF i = sel THEN QueueData(link[i], s)
                   ELSE IF i \in due THEN QueueProbe(link[i], s, kept[i])
                   ELSE link[i]]

(* S are exactly the uplinks of T whose queue has reached its batch size.  *)
AtThreshold(l, T, S) ==
  \A i \in T : \E n \in BatchSizes : i \in S <=> Len(l[i].queue) >= n

Forward(sel, s, again) ==
  \E due \in SUBSET HeldOut(sel) :
  \E kept \in [due -> SUBSET Seqs], full \in SUBSET (due \cup {sel}) :
    LET queued == Queued(sel, s, due, kept)
    IN /\ \A i \in due : kept[i] \in Kept(link[i].probes)
       /\ AtThreshold(queued, due \cup {sel}, full)
       /\ Flush(queued, Insert(ring, s, sel),
                [ghost EXCEPT ![sel].carried = @ \cup {s}], full, again)

ForwardNew(sel) ==
  /\ sel \in Selectable /\ sent < MaxPackets
  /\ Forward(sel, SeqAt(sent), 0)
  /\ sent' = sent + 1
  /\ UNCHANGED <<acks, got, lost, once>>

(* The client answers a loss report.                                       *)
ForwardResend(sel, s) ==
  /\ sel \in Selectable /\ s \in lost /\ spent.resends < MaxResends
  /\ Forward(sel, s, 1)
  /\ UNCHANGED <<acks, got, lost, sent, once>>

(* No uplink is available (each is timed out): the packet is dropped.      *)
ForwardNone ==
  /\ sent < MaxPackets
  /\ sent' = sent + 1
  /\ UNCHANGED <<link, ring, net, acks, got, lost, once, spent, ghost>>

(* flush_all_batches, on the 15 ms timer.                                  *)
FlushAll ==
  LET busy == {i \in Links : link[i].queue # <<>>}
  IN /\ busy # {}
     /\ Flush(link, ring, ghost, busy, 0)
     /\ UNCHANGED <<acks, got, lost, sent, once>>

-----------------------------------------------------------------------------
(* The answers of the receiver, in process_connection_events.              *)

(* A cumulative ACK, perhaps an old one, whose field names packet p.       *)
Acknowledged(p) == \A q \in 0 .. p - 1 : SeqAt(q) \in got

RecvSrtAck(p) ==
  /\ Acknowledged(p)
  /\ link' = [i \in Links |-> HandleSrtAck(link[i], SrtAckLastAcked(SeqAt(p)))]
  /\ UNCHANGED <<ring, net, acks, got, lost, sent, once, spent, ghost>>

FirstKnowing(s) ==
  {i \in Links : Knows(link[i], s) /\ \A j \in 0 .. i - 1 : ~Knows(link[j], s)}

(* An SRTLA ACK that arrives on uplink i: its own logs first, then a scan. *)
SrtlaAckTarget(i, s) == IF Knows(link[i], s) THEN {i} ELSE FirstKnowing(s)

RecvSrtlaAck(i, s) ==
  /\ s \in acks[i]
  /\ acks' = [acks EXCEPT ![i] = @ \ {s}]
  /\ link' = [j \in Links |-> IF j \in SrtlaAckTarget(i, s)
                               THEN HandleSrtlaAck(link[j], s) ELSE link[j]]
  /\ UNCHANGED <<ring, net, got, lost, sent, once, spent, ghost>>

(* attribute_nak: the uplink charged with the loss of s, if any.           *)
NakTarget(s) ==
  IF Owner(ring, s) # NoLink
  THEN {Owner(ring, s)} \cap {i \in Links : s \in link[i].log}
  ELSE {i \in Links : s \in link[i].log /\ \A j \in 0 .. i - 1 : s \notin link[j].log}

RecvNak(s) ==
  /\ s \in lost
  /\ link' = [i \in Links |-> IF i \in NakTarget(s)
                               THEN HandleNak(link[i], s) ELSE link[i]]
  /\ ghost' = [i \in Links |-> IF i \in NakTarget(s)
                                THEN [ghost[i] EXCEPT !.blamed = @ \cup {s}]
                                ELSE ghost[i]]
  /\ UNCHANGED <<ring, net, acks, got, lost, sent, once, spent>>

-----------------------------------------------------------------------------
(* Registration and recovery of an uplink.                                 *)

(* REG3: only an uplink that is not connected is granted one.              *)
Reg3(i) ==
  /\ ~link[i].connected
  /\ link' = [link EXCEPT ![i] = ClearPreRegistration(@)]
  /\ ghost' = [ghost EXCEPT ![i].wiped = @ \cup link[i].log]
  /\ once' = TRUE
  /\ UNCHANGED <<ring, net, acks, got, lost, sent, spent>>

RegErr(i) ==
  /\ link[i].connected /\ spent.resets < MaxResets
  /\ spent' = [spent EXCEPT !.resets = @ + 1]
  /\ link' = [link EXCEPT ![i].connected = FALSE]
  /\ UNCHANGED <<ring, net, acks, got, lost, sent, once, ghost>>

(* A timed-out uplink is rebuilt or put into recovery by housekeeping.     *)
Recover(i) ==
  /\ spent.resets < MaxResets
  /\ spent' = [spent EXCEPT !.resets = @ + 1]
  /\ link' = [link EXCEPT ![i] = MarkForRecovery(@)]
  /\ ring' = RemoveConnections(ring, {i})
  /\ ghost' = [ghost EXCEPT ![i] = NewGhost]
  /\ UNCHANGED <<net, acks, got, lost, sent, once>>

(* The gates of the scheduler: the last usable uplink is never held out.   *)
Hold(i) ==
  /\ link[i].sched /\ ~link[i].held /\ spent.holds < MaxHolds
  /\ spent' = [spent EXCEPT !.holds = @ + 1]
  /\ \E j \in Links \ {i} : link[j].sched /\ ~link[j].held
  /\ link' = [link EXCEPT ![i].held = TRUE, ![i].stamps = {}]
  /\ UNCHANGED <<ring, net, acks, got, lost, sent, once, ghost>>

Release(i) ==
  /\ link[i].held
  /\ link' = [link EXCEPT ![i].held = FALSE, ![i].stamps = {}]
  /\ UNCHANGED <<ring, net, acks, got, lost, sent, once, spent, ghost>>

(* A tracker entry reaches SEQUENCE_TRACKING_MAX_AGE_MS.                   *)
Expire(k) ==
  /\ ring[k].conn # NoLink /\ ~ring[k].expired /\ spent.expired < MaxExpired
  /\ spent' = [spent EXCEPT !.expired = @ + 1]
  /\ ring' = [ring EXCEPT ![k].expired = TRUE]
  /\ UNCHANGED <<link, net, acks, got, lost, sent, once, ghost>>

-----------------------------------------------------------------------------
(* The network and the receiver.                                           *)

(* A copy of s arrives over uplink i and is answered on it.  A copy or an  *)
(* ACK that is lost is one that never arrives.                             *)
Arrive(i, s) ==
  /\ s \in net[i]
  /\ net' = [net EXCEPT ![i] = @ \ {s}]
  /\ got' = got \cup {s}
  /\ acks' = [acks EXCEPT ![i] = @ \cup {s}]
  /\ ghost' = [ghost EXCEPT ![i].reached = @ \cup ({s} \cap link[i].probes)]
  /\ UNCHANGED <<link, ring, lost, sent, once, spent>>

(* The receiver sees a gap below a packet it has and reports it.           *)
ReportLoss(p, q) ==
  /\ p < q /\ SeqAt(q) \in got /\ SeqAt(p) \notin got \cup lost
  /\ lost' = lost \cup {SeqAt(p)}
  /\ UNCHANGED <<link, ring, net, acks, got, sent, once, spent, ghost>>

-----------------------------------------------------------------------------
Init ==
  /\ link = [i \in Links |-> IF i \in UpAtStart THEN ClearPreRegistration(NewLink)
                           ELSE NewLink]
  /\ ring = [k \in Slots |-> EmptyEntry]
  /\ net = [i \in Links |-> {}] /\ acks = [i \in Links |-> {}]
  /\ got = {} /\ lost = {} /\ sent = 0 /\ once = (UpAtStart # {})
  /\ spent = [resends |-> 0, resets |-> 0, holds |-> 0, expired |-> 0]
  /\ ghost = [i \in Links |-> NewGhost]

Next ==
  \/ \E sel \in Links : ForwardNew(sel)
  \/ \E sel \in Links, s \in lost : ForwardResend(sel, s)
  \/ ForwardNone
  \/ FlushAll
  \/ \E p \in 1 .. sent : RecvSrtAck(p)
  \/ \E i \in Links : \E s \in acks[i] : RecvSrtlaAck(i, s)
  \/ \E s \in lost : RecvNak(s)
  \/ \E i \in Links : Reg3(i)
  \/ \E i \in Links : RegErr(i)
  \/ \E i \in Links : Recover(i)
  \/ \E i \in Links : Hold(i)
  \/ \E i \in Links : Release(i)
  \/ \E k \in Slots : Expire(k)
  \/ \E i \in Links : \E s \in net[i] : Arrive(i, s)
  \/ \E p, q \in 0 .. sent - 1 : ReportLoss(p, q)

Spec == Init /\ [][Next]_vars

-----------------------------------------------------------------------------
(* Properties.                                                             *)

(* Every uplink, tracker entry and message keeps its type; sequences stay  *)
(* inside the wrapping space through the arithmetic of seq.rs.             *)
TypeOK ==
  /\ link \in [Links -> LinkState]
  /\ ring \in [Slots -> RingEntry]
  /\ net \in [Links -> SUBSET Seqs] /\ acks \in [Links -> SUBSET Seqs]
  /\ got \subseteq Seqs /\ lost \subseteq Seqs
  /\ sent \in 0 .. MaxPackets /\ once \in BOOLEAN
  /\ spent \in [resends : Nat, resets : Nat, holds : Nat, expired : Nat]
  /\ ghost \in [Links -> GhostState]

(* A packet counted in flight on an uplink was handed to its socket since  *)
(* the uplink's last reset: take_batch registers optimistically, and every *)
(* failed flush goes through flush_connection, which recovers the uplink.  *)
NoPhantomInFlight == \A i \in Links : link[i].log \subseteq ghost[i].wired

(* The tracker attributes a sequence only to an uplink that was given the  *)
(* unique copy since its last reset: recover_connection removes the        *)
(* entries, and forward_via_connection inserts before it may flush.        *)
TrackerNamesCarrier ==
  \A k \in Slots : ring[k].conn # NoLink
                     => ring[k].seq \in ghost[ring[k].conn].carried

(* attribute_nak, fallback scan included, charges a loss only to an uplink *)
(* that carried the unique copy, never to one that sent a duplicate probe. *)
BlameOnlyCarrier == \A i \in Links : ghost[i].blamed \subseteq ghost[i].carried

(* A packet leaves the in-flight log of an uplink only because the         *)
(* receiver has it, a NAK was charged for it, or a REG3 wiped the log: the *)
(* walk and the sweep of handle_srt_ack never drop a packet still owed,    *)
(* across the wrap of the sequence space and for stale ACKs.               *)
RemovedForCause ==
  \A i \in Links : ghost[i].wired \ link[i].log
                     \subseteq got \cup ghost[i].blamed \cup ghost[i].wiped

(* What packet_handler.rs says of SRTLA ACK matching: a healthy uplink's   *)
(* ACK does not stamp delivery proof on a held-out uplink, so each ACK     *)
(* that stamped one answers a copy the receiver got over that uplink.      *)
ProofIsOwn == \A i \in Links : link[i].stamps \subseteq ghost[i].reached

(* What ack_nak.rs says of handle_srt_ack: an ACK that advances an         *)
(* uplink's highest acknowledged sequence clears every logged packet at or *)
(* before it.                                                              *)
AckClearsAllBefore ==
  [][\A i \in Links :
       link'[i].highest \notin {link[i].highest, NoAckYet}
         => \A s \in link'[i].log : SeqAfter(s, link'[i].highest)]_vars
=============================================================================
