--------------------------- MODULE DeliveryProofs ---------------------------
(***************************************************************************)
(* Proofs about Delivery, for any number of uplinks, any batch sizes and   *)
(* any tracker size: no phantom packet is counted in flight, the tracker   *)
(* names only carriers, only carriers are charged with a loss, and no      *)
(* packet that is still owed leaves a log.                                 *)
(***************************************************************************)
EXTENDS Delivery, FiniteSetTheorems, TLAPS

(* What one uplink's state c owes its history g.                           *)
LinkInv(c, g) ==
  /\ c.log \subseteq g.wired /\ g.wired \subseteq g.carried
  /\ Tracked(c) \subseteq g.carried /\ g.blamed \subseteq g.carried

RingInv(r, g) ==
  \A k \in Slots : r[k].conn # NoLink => r[k].seq \in g[r[k].conn].carried

(* The inductive invariant.                                                *)
IInv ==
  /\ TypeOK
  /\ \A i \in Links : LinkInv(link[i], ghost[i])
  /\ RingInv(ring, ghost)

QEntry == [seq : Seqs, probe : BOOLEAN]
SP == [resends : Nat, resets : Nat, holds : Nat, expired : Nat]

-----------------------------------------------------------------------------
(* The constants, with their definitions expanded.                         *)
LEMMA ConstantTypes ==
  /\ SeqHalf \in Nat /\ SeqHalf > 0 /\ SeqSpace \in Nat /\ SeqSpace = 2 * SeqHalf
  /\ Start \in Seqs /\ MaxPackets \in Nat /\ MaxPackets < SeqHalf
  /\ NLinks \in Nat /\ UpAtStart \subseteq Links /\ 0 \in Seqs
  /\ NoAckYet \notin Seqs /\ NoLink \notin Links
BY SeqHalfAssumption, LinksAssumption, StreamAssumption
   DEF SeqSpace, Seqs, Links, NoAckYet, NoLink

(* The arithmetic of seq.rs stays inside the sequence space.               *)
LEMMA SeqTypes ==
  /\ \A p \in 0 .. MaxPackets : SeqAt(p) \in Seqs
  /\ \A s \in Seqs : SrtAckLastAcked(s) \in Seqs
BY ConstantTypes DEF SeqAt, SeqPlus, SrtAckLastAcked, SeqPrev, Seqs

(* A new or reset uplink owes nothing.                                     *)
LEMMA NewTypes ==
  /\ NewLink \in LinkState /\ NewGhost \in GhostState /\ EmptyEntry \in RingEntry
  /\ Tracked(NewLink) = {} /\ LinkInv(NewLink, NewGhost)
<1>1. NewLink.queue = <<>> /\ NewLink.log = {} BY DEF NewLink
<1>2. <<>> \in Seq(QEntry) OBVIOUS
<1>3. NewLink \in LinkState BY <1>2, Zenon DEF NewLink, LinkState, QEntry
<1>4. NewGhost \in GhostState BY Zenon DEF NewGhost, GhostState
<1>5. EmptyEntry \in RingEntry BY ConstantTypes, Zenon DEF EmptyEntry, RingEntry
<1>6. Tracked(NewLink) = {} BY <1>1 DEF Tracked
<1>7. NewGhost.blamed = {} /\ NewGhost.wired = {} BY DEF NewGhost
<1> QED BY <1>1, <1>3, <1>4, <1>5, <1>6, <1>7, Zenon DEF LinkInv

(* What an uplink owes stays accounted for when its log only shrinks.      *)
LEMMA ShrinkKeeps ==
  ASSUME NEW c, NEW d, NEW g, LinkInv(c, g), d.log \subseteq c.log, d.queue = c.queue
  PROVE  LinkInv(d, g)
<1>1. Tracked(d) = Tracked(c) BY Zenon DEF Tracked
<1>2. d.log \subseteq g.wired BY DEF LinkInv
<1> QED BY <1>1, <1>2, Zenon DEF LinkInv

(* Queueing a packet adds its sequence to the tracked ones of the batch.   *)
LEMMA QueueDataKeeps ==
  ASSUME NEW c \in LinkState, NEW s \in Seqs
  PROVE  /\ QueueData(c, s) \in LinkState
         /\ QueueData(c, s).log = c.log
         /\ Tracked(QueueData(c, s)) \subseteq Tracked(c) \cup {s}
<1> DEFINE e == [seq |-> s, probe |-> FALSE]  q == Append(c.queue, e)
<1>1. c.queue \in Seq(QEntry) /\ e \in QEntry BY DEF LinkState, QEntry
<1>2. q \in Seq(QEntry) BY <1>1
<1>3. QueueData(c, s) = [c EXCEPT !.queue = q] BY DEF QueueData
<1>4. QueueData(c, s).queue = q /\ QueueData(c, s).log = c.log
  BY <1>3 DEF LinkState
<1>5. QueueData(c, s) \in LinkState
  <2> HIDE DEF q
  <2> QED BY <1>2, <1>3, Zenon DEF LinkState, QEntry
<1>6. \A j \in DOMAIN q : q[j] = e \/ (j \in DOMAIN c.queue /\ q[j] = c.queue[j])
  BY <1>1, SMTT(30)
<1> QED BY <1>4, <1>5, <1>6 DEF Tracked

(* A probe is queued untracked.                                            *)
LEMMA QueueProbeKeeps ==
  ASSUME NEW c \in LinkState, NEW s \in Seqs, NEW kept \in SUBSET Seqs
  PROVE  /\ QueueProbe(c, s, kept) \in LinkState
         /\ QueueProbe(c, s, kept).log = c.log
         /\ Tracked(QueueProbe(c, s, kept)) \subseteq Tracked(c)
<1> DEFINE e == [seq |-> s, probe |-> TRUE]  q == Append(c.queue, e)
           b == RecordProbe(c.probes, s, kept)  d == QueueProbe(c, s, kept)
<1>1. c.queue \in Seq(QEntry) /\ e \in QEntry BY DEF LinkState, QEntry
<1>2. q \in Seq(QEntry) BY <1>1
<1>3. b \in SUBSET Seqs BY DEF RecordProbe, LinkState
<1>4. d = [c EXCEPT !.probes = b, !.queue = q] BY DEF QueueProbe
<1>5. d.queue = q /\ d.log = c.log
  <2> HIDE DEF b, q
  <2> QED BY <1>4 DEF LinkState
<1>6. d \in LinkState
  <2> HIDE DEF b, q, d
  <2> QED BY <1>2, <1>3, <1>4, Zenon DEF LinkState, QEntry
<1>7. \A j \in DOMAIN q : q[j] = e \/ (j \in DOMAIN c.queue /\ q[j] = c.queue[j])
  BY <1>1
<1>8. \A j \in DOMAIN q : ~q[j].probe => j \in DOMAIN c.queue /\ q[j] = c.queue[j]
  BY <1>7, SMTT(30)
<1> QED BY <1>5, <1>6, <1>8, SMTT(30) DEF Tracked

(* Draining a batch registers what it tracks.                              *)
LEMMA TakeBatchKeeps ==
  ASSUME NEW c \in LinkState
  PROVE  /\ Tracked(c) \in SUBSET Seqs
         /\ TakeBatch(c) \in LinkState
         /\ TakeBatch(c).log = c.log \cup Tracked(c)
         /\ Tracked(TakeBatch(c)) = {}
         /\ \A n \in 0 .. Len(c.queue) : Batch(c, n) \in SUBSET Seqs
<1>1. c.queue \in Seq(QEntry) /\ c.log \in SUBSET Seqs BY DEF LinkState, QEntry
<1>2. \A j \in DOMAIN c.queue : c.queue[j].seq \in Seqs
  <2>1. \A j \in DOMAIN c.queue : c.queue[j] \in QEntry BY <1>1
  <2> QED BY <2>1, Zenon DEF QEntry
<1>3. Tracked(c) \in SUBSET Seqs BY <1>2 DEF Tracked
<1>4. TakeBatch(c).queue = <<>> /\ TakeBatch(c).log = c.log \cup Tracked(c)
  BY DEF TakeBatch, LinkState
<1>5. Tracked(TakeBatch(c)) = {} BY <1>4 DEF Tracked
<1>6. <<>> \in Seq(QEntry) /\ c.log \cup Tracked(c) \in SUBSET Seqs
  BY <1>1, <1>3
<1>7. TakeBatch(c) \in LinkState
  BY <1>6, Zenon DEF TakeBatch, LinkState, QEntry
<1>8. \A n \in 0 .. Len(c.queue) : Batch(c, n) \in SUBSET Seqs
  BY <1>1, <1>2 DEF Batch
<1> QED BY <1>3, <1>4, <1>5, <1>7, <1>8, SMTT(30)

(* The answers of the receiver only take packets out of a log.             *)
LEMMA HandlersKeep ==
  ASSUME NEW c \in LinkState, NEW s \in Seqs,
         NEW d \in {HandleSrtAck(c, s), HandleSrtlaAck(c, s), HandleNak(c, s)}
  PROVE  d \in LinkState /\ d.log \subseteq c.log /\ d.queue = c.queue
<1>0. c.log \in SUBSET Seqs /\ c.probes \in SUBSET Seqs /\ c.stamps \in SUBSET Seqs
  BY DEF LinkState
<1>1. CASE d = HandleNak(c, s)
  <2>1. c.log \ {s} \in SUBSET Seqs BY <1>0
  <2>2. d \in LinkState BY <1>1, <2>1, Zenon DEF HandleNak, LinkState
  <2> QED BY <1>1, <2>2, Zenon DEF HandleNak, LinkState
<1>2. CASE d = HandleSrtlaAck(c, s)
  <2> DEFINE pr == c.probes \ {s}
             lg == IF s \in c.probes THEN c.log ELSE c.log \ {s}
             st == IF c.held THEN c.stamps \cup ({s} \cap c.probes) ELSE c.stamps
  <2>1. pr \in SUBSET Seqs /\ lg \in SUBSET Seqs /\ st \in SUBSET Seqs /\ lg \subseteq c.log
    BY <1>0
  <2>2. d = [c EXCEPT !.probes = pr, !.log = lg, !.stamps = st]
    BY <1>2 DEF HandleSrtlaAck
  <2> HIDE DEF pr, lg, st
  <2>3. d \in LinkState BY <2>1, <2>2, Zenon DEF LinkState
  <2> QED BY <2>1, <2>2, <2>3, SMTT(30) DEF LinkState
<1>3. CASE d = HandleSrtAck(c, s)
  <2>1. d = c \/ \E L \in SUBSET c.log : d = [c EXCEPT !.highest = s, !.log = L]
    BY <1>3, Zenon DEF HandleSrtAck
  <2>2. CASE d = c BY <2>2
  <2>3. ASSUME NEW L \in SUBSET c.log, d = [c EXCEPT !.highest = s, !.log = L]
        PROVE  d \in LinkState /\ d.log \subseteq c.log /\ d.queue = c.queue
    <3>1. L \in SUBSET Seqs /\ s \in Seqs \cup {NoAckYet} BY <1>0
    <3>2. d \in LinkState BY <2>3, <3>1, Zenon DEF LinkState
    <3> QED BY <2>3, <3>2 DEF LinkState
  <2> QED BY <2>1, <2>2, <2>3, Zenon
<1> QED BY <1>1, <1>2, <1>3

(* Removing uplinks from the tracker leaves only the entries of others.    *)
LEMMA RemoveKeeps ==
  ASSUME NEW r \in [Slots -> RingEntry], NEW S
  PROVE  /\ RemoveConnections(r, S) \in [Slots -> RingEntry]
         /\ \A k \in Slots :
              RemoveConnections(r, S)[k].conn # NoLink
                => RemoveConnections(r, S)[k] = r[k] /\ r[k].conn \notin S
<1>1. EmptyEntry \in RingEntry /\ EmptyEntry.conn = NoLink
  BY NewTypes DEF EmptyEntry
<1> QED BY <1>1 DEF RemoveConnections

(* flush_connection: whatever the sockets accept, the accounting of every  *)
(* uplink and the tracker stay truthful.                                   *)
LEMMA FlushKeeps ==
  ASSUME TypeOK,
         NEW l \in [Links -> LinkState], NEW r \in [Slots -> RingEntry],
         NEW g \in [Links -> GhostState], NEW S \in SUBSET Links,
         NEW again \in Nat,
         \A i \in Links : LinkInv(l[i], g[i]), RingInv(r, g),
         Flush(l, r, g, S, again)
  PROVE  /\ link' \in [Links -> LinkState] /\ ring' \in [Slots -> RingEntry]
         /\ net' \in [Links -> SUBSET Seqs]
         /\ ghost' \in [Links -> GhostState]
         /\ spent' \in [resends : Nat, resets : Nat, holds : Nat, expired : Nat]
         /\ \A i \in Links : LinkInv(link'[i], ghost'[i])
         /\ RingInv(ring', ghost')
<1>1. PICK good \in Outcomes(l, S) :
        /\ link' = Flushed(l, S, good)
        /\ ring' = RemoveConnections(r, Refused(l, S, good))
        /\ net' = [i \in Links |->
                     IF i \in S THEN net[i] \cup Batch(l[i], good[i]) ELSE net[i]]
        /\ ghost' = FlushGhost(g, l, S, good)
        /\ spent' = [spent EXCEPT !.resends = @ + again,
                                  !.resets = @ + Cardinality(Refused(l, S, good))]
  BY Zenon DEF Flush
<1> DEFINE bad == Refused(l, S, good)
<1>2. bad \in SUBSET S BY DEF Refused
<1>4. good \in [S -> Nat] /\ \A i \in S : good[i] <= Len(l[i].queue)
  BY StreamAssumption DEF Outcomes
<1>5. Cardinality(bad) \in Nat
  <2>1. IsFiniteSet(Links) BY ConstantTypes, FS_Interval DEF Links
  <2>2. IsFiniteSet(bad) BY <1>2, <2>1, FS_Subset, SMTT(30)
  <2> QED BY <2>2, FS_CardinalityType, SMTT(30)
<1>6. \A i \in Links : link'[i] = IF i \in bad THEN NewLink
                                 ELSE IF i \in S THEN TakeBatch(l[i]) ELSE l[i]
  BY <1>1 DEF Flushed, MarkForRecovery
<1>7. \A i \in Links : ghost'[i] = IF i \in bad THEN NewGhost
                         ELSE IF i \in S
                         THEN [g[i] EXCEPT !.wired = @ \cup Tracked(l[i])] ELSE g[i]
  BY <1>1, SMTT(30) DEF FlushGhost
<1>8. ASSUME NEW i \in Links
      PROVE  /\ link'[i] \in LinkState /\ ghost'[i] \in GhostState
             /\ LinkInv(link'[i], ghost'[i])
             /\ i \notin bad => ghost'[i].carried = g[i].carried
  <2>1. CASE i \in bad BY <1>6, <1>7, <2>1, NewTypes, Zenon
  <2>2. CASE i \notin S BY <1>2, <1>6, <1>7, <2>2, Zenon
  <2>3. CASE i \in S /\ i \notin bad
    <3> DEFINE t == TakeBatch(l[i])  w == g[i].wired \cup Tracked(l[i])
    <3>1. link'[i] = t /\ ghost'[i] = [g[i] EXCEPT !.wired = w]
      BY <1>6, <1>7, <2>3, SMTT(30)
    <3>2. l[i] \in LinkState /\ g[i] \in GhostState /\ LinkInv(l[i], g[i]) OBVIOUS
    <3>3. /\ Tracked(l[i]) \in SUBSET Seqs /\ t \in LinkState
          /\ t.log = l[i].log \cup Tracked(l[i]) /\ Tracked(t) = {}
      BY <3>2, TakeBatchKeeps, SMTT(30)
    <3>4. w \in SUBSET Seqs BY <3>2, <3>3 DEF GhostState
    <3> HIDE DEF t, w
    <3>5. ghost'[i] \in GhostState BY <3>1, <3>2, <3>4, Zenon DEF GhostState
    <3>6. /\ ghost'[i].wired = w /\ ghost'[i].carried = g[i].carried
          /\ ghost'[i].blamed = g[i].blamed
      BY <3>1, <3>2, SMTT(30) DEF GhostState
    <3>7. LinkInv(t, ghost'[i]) BY <3>2, <3>3, <3>6 DEF LinkInv, w
    <3> QED BY <3>1, <3>3, <3>5, <3>6, <3>7, SMTT(30)
  <2> QED BY <2>1, <2>2, <2>3, SMTT(30)
<1>9. link' \in [Links -> LinkState] /\ ghost' \in [Links -> GhostState]
  <2>1. link' = [i \in Links |-> link'[i]] BY <1>1 DEF Flushed
  <2>2. ghost' = [i \in Links |-> ghost'[i]] BY <1>1 DEF FlushGhost
  <2> QED BY <1>8, <2>1, <2>2, Zenon
<1>10. ring' \in [Slots -> RingEntry] BY <1>1, RemoveKeeps
<1>11. net' \in [Links -> SUBSET Seqs]
  <2>1. ASSUME NEW i \in S PROVE Batch(l[i], good[i]) \in SUBSET Seqs
    <3>1. l[i].queue \in Seq(QEntry) BY Zenon DEF LinkState, QEntry
    <3>2. good[i] \in 0 .. Len(l[i].queue) BY <1>4, <3>1, SMTT(30)
    <3> QED BY <3>2, TakeBatchKeeps, SMTT(30)
  <2>2. net \in [Links -> SUBSET Seqs] BY SMTT(30) DEF TypeOK
  <2> QED BY <1>1, <2>1, <2>2, SMTT(30)
<1>12. RingInv(ring', ghost')
  <2> SUFFICES ASSUME NEW k \in Slots, ring'[k].conn # NoLink
               PROVE  ring'[k].seq \in ghost'[ring'[k].conn].carried
    BY DEF RingInv
  <2>1. ring'[k] = r[k] /\ r[k].conn \notin bad BY <1>1, RemoveKeeps, SMTT(30)
  <2>2. r[k].conn \in Links BY <2>1, SMTT(30) DEF RingEntry
  <2>3. r[k].seq \in g[r[k].conn].carried BY <2>1 DEF RingInv
  <2> QED BY <1>8, <2>1, <2>2, <2>3, SMTT(30)
<1>13. spent' \in [resends : Nat, resets : Nat, holds : Nat, expired : Nat]
  <2>1. spent \in [resends : Nat, resets : Nat, holds : Nat, expired : Nat]
    BY DEF TypeOK
  <2> DEFINE x == spent.resends + again  y == spent.resets + Cardinality(bad)
  <2>2. x \in Nat /\ y \in Nat BY <1>5, <2>1
  <2>3. spent' = [spent EXCEPT !.resends = x, !.resets = y] BY <1>1, SMTT(30)
  <2> HIDE DEF x, y
  <2> QED BY <2>1, <2>2, <2>3, Zenon
<1> QED BY <1>8, <1>9, <1>10, <1>11, <1>12, <1>13, SMTT(30)

(* handle_srt_packet, for a new packet or a retransmission.                *)
LEMMA ForwardKeeps ==
  ASSUME IInv, NEW sel \in Links, NEW s \in Seqs, NEW again \in Nat,
         Forward(sel, s, again)
  PROVE  /\ link' \in [Links -> LinkState] /\ ring' \in [Slots -> RingEntry]
         /\ net' \in [Links -> SUBSET Seqs]
         /\ ghost' \in [Links -> GhostState]
         /\ spent' \in [resends : Nat, resets : Nat, holds : Nat, expired : Nat]
         /\ \A i \in Links : LinkInv(link'[i], ghost'[i])
         /\ RingInv(ring', ghost')
<1> DEFINE r == Insert(ring, s, sel)
           g == [ghost EXCEPT ![sel].carried = @ \cup {s}]
<1>1. PICK due \in SUBSET HeldOut(sel) :
      \E kept \in [due -> SUBSET Seqs], full \in SUBSET (due \cup {sel}) :
        Flush(Queued(sel, s, due, kept), r, g, full, again)
  BY Zenon DEF Forward
<1>2. PICK kept \in [due -> SUBSET Seqs], full \in SUBSET (due \cup {sel}) :
        Flush(Queued(sel, s, due, kept), r, g, full, again)
  BY <1>1
<1> DEFINE l == Queued(sel, s, due, kept)
<1>3. due \in SUBSET Links BY DEF HeldOut
<1>4. full \in SUBSET Links BY <1>3, SMTT(30)
<1>5. TypeOK /\ link \in [Links -> LinkState] /\ ring \in [Slots -> RingEntry]
      /\ ghost \in [Links -> GhostState]
  BY SMTT(30) DEF IInv, TypeOK
<1>6. /\ g \in [Links -> GhostState]
      /\ \A i \in Links : /\ ghost[i].carried \subseteq g[i].carried
                          /\ g[i].wired = ghost[i].wired
                          /\ g[i].blamed = ghost[i].blamed
      /\ s \in g[sel].carried
  <2> DEFINE x == ghost[sel].carried \cup {s}  h == [ghost[sel] EXCEPT !.carried = x]
  <2>1. ghost[sel] \in GhostState /\ x \in SUBSET Seqs BY <1>5 DEF GhostState
  <2>2. h \in GhostState
    <3> HIDE DEF x
    <3> QED BY <2>1, Zenon DEF GhostState
  <2>3. h.carried = x /\ h.wired = ghost[sel].wired /\ h.blamed = ghost[sel].blamed
    BY <2>1 DEF GhostState
  <2>4. g = [ghost EXCEPT ![sel] = h] BY <1>5, SMTT(30)
  <2> HIDE DEF h, g
  <2> QED BY <1>5, <2>2, <2>3, <2>4, SMTT(30)
<1>7. ASSUME NEW i \in Links
      PROVE  l[i] \in LinkState /\ LinkInv(l[i], g[i])
  <2>1. LinkInv(link[i], ghost[i]) /\ link[i] \in LinkState BY <1>5 DEF IInv
  <2>2. l[i] = IF i = sel THEN QueueData(link[i], s)
               ELSE IF i \in due THEN QueueProbe(link[i], s, kept[i]) ELSE link[i]
    BY SMTT(30) DEF Queued
  <2> HIDE DEF l, g
  <2>3. CASE i = sel
    BY <1>6, <2>1, <2>2, <2>3, QueueDataKeeps, SMTT(30) DEF LinkInv
  <2>4. CASE i # sel /\ i \in due
    <3>1. kept[i] \in SUBSET Seqs BY <2>4, SMTT(30)
    <3> QED BY <1>6, <2>1, <2>2, <2>4, <3>1, QueueProbeKeeps, SMTT(30) DEF LinkInv
  <2>5. CASE i # sel /\ i \notin due
    BY <1>6, <2>1, <2>2, <2>5, Zenon DEF LinkInv
  <2> QED BY <2>3, <2>4, <2>5, SMTT(30)
<1>8. l \in [Links -> LinkState]
  <2>1. l = [i \in Links |-> l[i]] BY SMTT(30) DEF Queued
  <2> HIDE DEF l
  <2> QED BY <1>7, <2>1, Zenon
<1>9. r \in [Slots -> RingEntry] /\ RingInv(r, g)
  <2> DEFINE e == [conn |-> sel, seq |-> s, expired |-> FALSE]
  <2>1. e \in RingEntry /\ e.conn = sel /\ e.seq = s BY DEF RingEntry
  <2>2. r = [ring EXCEPT ![s % RingSize] = e] BY DEF Insert
  <2> HIDE DEF e, r, g
  <2>3. r \in [Slots -> RingEntry] BY <1>5, <2>1, <2>2, Zenon
  <2>4. \A k \in Slots : r[k] = e \/ r[k] = ring[k] BY <1>5, <2>2, SMTT(30)
  <2>5. \A k \in Slots : ring[k].conn \in Links \cup {NoLink} BY <1>5, SMTT(30) DEF RingEntry
  <2>6. RingInv(ring, ghost) BY DEF IInv
  <2> QED BY <1>6, <2>1, <2>3, <2>4, <2>5, <2>6, SMTT(30) DEF RingInv
<1> HIDE DEF l, r, g
<1>10. Flush(l, r, g, full, again) BY <1>2, SMTT(30) DEF l
<1> QED BY <1>4, <1>5, <1>6, <1>7, <1>8, <1>9, <1>10, FlushKeeps, Zenon

(* Every step that changes one uplink's state or history, and leaves the   *)
(* tracker alone, keeps the invariant if that uplink's part holds after it *)
(* and no uplink forgets what it carried.                                  *)
LEMMA LocalStep ==
  ASSUME IInv,
         \A i \in Links : /\ link'[i] \in LinkState /\ ghost'[i] \in GhostState
                          /\ LinkInv(link'[i], ghost'[i])
                          /\ ghost[i].carried \subseteq ghost'[i].carried,
         link' = [i \in Links |-> link'[i]], ghost' = [i \in Links |-> ghost'[i]],
         \A k \in Slots : ring'[k].conn = ring[k].conn /\ ring'[k].seq = ring[k].seq
  PROVE  /\ link' \in [Links -> LinkState] /\ ghost' \in [Links -> GhostState]
         /\ \A i \in Links : LinkInv(link'[i], ghost'[i])
         /\ RingInv(ring', ghost')
<1>1. link' \in [Links -> LinkState] /\ ghost' \in [Links -> GhostState] BY Zenon
<1>2. \A k \in Slots : ring[k].conn \in Links \cup {NoLink}
  BY SMTT(30) DEF IInv, TypeOK, RingEntry
<1>3. RingInv(ring', ghost') BY <1>2, SMTT(30) DEF IInv, RingInv
<1> QED BY <1>1, <1>3

-----------------------------------------------------------------------------
LEMMA InitIInv == Init => IInv
<1> SUFFICES ASSUME Init PROVE IInv OBVIOUS
<1> DEFINE up == ClearPreRegistration(NewLink)
<1>1. up \in LinkState /\ LinkInv(up, NewGhost)
  <2>1. <<>> \in Seq(QEntry) /\ {} \in SUBSET Seqs OBVIOUS
  <2>2. up \in LinkState
    BY <2>1, NewTypes, Zenon DEF ClearPreRegistration, LinkState, QEntry
  <2>3. up.queue = <<>> /\ up.log = {} BY NewTypes, SMTT(30) DEF ClearPreRegistration, LinkState
  <2>4. Tracked(up) = {} BY <2>3, SMTT(30) DEF Tracked
  <2> QED BY <2>2, <2>3, <2>4, NewTypes, SMTT(30) DEF LinkInv
<1>2. \A i \in Links : link[i] \in {up, NewLink} /\ ghost[i] = NewGhost BY DEF Init
<1> HIDE DEF up
<1>3. \A i \in Links : link[i] \in LinkState /\ LinkInv(link[i], ghost[i])
  BY <1>1, <1>2, NewTypes
<1>4. link \in [Links -> LinkState]
  <2>1. link = [i \in Links |-> link[i]] BY DEF Init
  <2> QED BY <1>3, <2>1, Zenon
<1>5. ring \in [Slots -> RingEntry] /\ \A k \in Slots : ring[k].conn = NoLink
  <2>1. EmptyEntry.conn = NoLink BY SMTT(30) DEF EmptyEntry
  <2> QED BY <2>1, NewTypes DEF Init
<1>6. ghost \in [Links -> GhostState] BY NewTypes, SMTT(30) DEF Init
<1>7. spent \in [resends : Nat, resets : Nat, holds : Nat, expired : Nat] BY SMTT(30) DEF Init
<1>8. TypeOK BY <1>4, <1>5, <1>6, <1>7, ConstantTypes, SMTT(30) DEF Init, TypeOK
<1> QED BY <1>3, <1>5, <1>8 DEF IInv, RingInv

(* One step per action.                                                    *)
LEMMA StepIInv == IInv /\ [Next]_vars => IInv'
<1> SUFFICES ASSUME IInv, [Next]_vars PROVE IInv' BY SMTT(30)
<1> USE DEF SP
<1>1. /\ TypeOK /\ link \in [Links -> LinkState] /\ ring \in [Slots -> RingEntry]
      /\ net \in [Links -> SUBSET Seqs] /\ acks \in [Links -> SUBSET Seqs]
      /\ got \in SUBSET Seqs /\ lost \in SUBSET Seqs
      /\ sent \in 0 .. MaxPackets /\ once \in BOOLEAN
      /\ spent \in SP /\ ghost \in [Links -> GhostState]
  BY SMTT(30) DEF IInv, TypeOK
<1>2. \A i \in Links : LinkInv(link[i], ghost[i]) BY DEF IInv
<1>3. RingInv(ring, ghost) BY SMTT(30) DEF IInv
<1>4. ASSUME NEW sel \in Links, ForwardNew(sel) PROVE IInv'
  <2>1. SeqAt(sent) \in Seqs BY <1>1, SeqTypes, SMTT(30)
  <2>2. Forward(sel, SeqAt(sent), 0) BY <1>4 DEF ForwardNew
  <2>3. 0 \in Nat BY SMTT(30)
  <2>4. sent' \in 0 .. MaxPackets
    BY <1>1, <1>4, ConstantTypes, SMTT(30) DEF ForwardNew
  <2>5. UNCHANGED <<acks, got, lost, once>> BY <1>4, SMTT(30) DEF ForwardNew
  <2> QED BY <1>1, <2>1, <2>2, <2>3, <2>4, <2>5, ForwardKeeps, Zenon DEF IInv, TypeOK
<1>5. ASSUME NEW sel \in Links, NEW s \in lost, ForwardResend(sel, s) PROVE IInv'
  <2>1. s \in Seqs /\ 1 \in Nat BY <1>1
  <2>2. Forward(sel, s, 1) BY <1>5 DEF ForwardResend
  <2>3. UNCHANGED <<acks, got, lost, sent, once>> BY <1>5, SMTT(30) DEF ForwardResend
  <2> QED BY <1>1, <2>1, <2>2, <2>3, ForwardKeeps, Zenon DEF IInv, TypeOK
<1>6. CASE ForwardNone
  <2>1. sent' \in 0 .. MaxPackets BY <1>1, <1>6, ConstantTypes, SMTT(30) DEF ForwardNone
  <2>2. UNCHANGED <<link, ring, net, acks, got, lost, once, spent, ghost>>
    BY <1>6, SMTT(30) DEF ForwardNone
  <2> QED BY <1>1, <1>2, <1>3, <2>1, <2>2, Zenon DEF IInv, TypeOK, RingInv
<1>7. CASE FlushAll
  <2> DEFINE busy == {i \in Links : link[i].queue # <<>>}
  <2>1. Flush(link, ring, ghost, busy, 0) /\ UNCHANGED <<acks, got, lost, sent, once>>
    BY <1>7 DEF FlushAll
  <2>2. busy \in SUBSET Links /\ 0 \in Nat BY SMTT(30)
  <2> HIDE DEF busy
  <2> QED BY <1>1, <1>2, <1>3, <2>1, <2>2, FlushKeeps, Zenon DEF IInv, TypeOK
<1>8. ASSUME NEW p \in 1 .. sent, RecvSrtAck(p) PROVE IInv'
  <2> DEFINE a == SrtAckLastAcked(SeqAt(p))
  <2>1. a \in Seqs BY <1>1, ConstantTypes, SeqTypes, SMTT(30)
  <2>2. /\ link' = [i \in Links |-> HandleSrtAck(link[i], a)]
        /\ UNCHANGED <<ring, net, acks, got, lost, sent, once, spent, ghost>>
    BY <1>8, SMTT(30) DEF RecvSrtAck
  <2> HIDE DEF a
  <2>3. \A i \in Links : /\ link'[i] \in LinkState /\ link'[i].log \subseteq link[i].log
                        /\ link'[i].queue = link[i].queue
    BY <1>1, <2>1, <2>2, HandlersKeep, Zenon
  <2>4. \A i \in Links : LinkInv(link'[i], ghost'[i])
    <3>1. ghost' = ghost BY <2>2, SMTT(30)
    <3> QED BY <1>2, <2>3, <3>1, ShrinkKeeps, Zenon
  <2>5. link' \in [Links -> LinkState] BY <2>2, <2>3, SMTT(30)
  <2> QED BY <1>1, <1>3, <2>2, <2>4, <2>5, Zenon DEF IInv, TypeOK, RingInv
<1>9. ASSUME NEW i \in Links, NEW s \in acks[i], RecvSrtlaAck(i, s) PROVE IInv'
  <2>1. s \in Seqs BY <1>1, SMTT(30)
  <2>2. /\ link' = [j \in Links |-> IF j \in SrtlaAckTarget(i, s)
                                    THEN HandleSrtlaAck(link[j], s) ELSE link[j]]
        /\ acks' = [acks EXCEPT ![i] = @ \ {s}]
        /\ UNCHANGED <<ring, net, got, lost, sent, once, spent, ghost>>
    BY <1>9, Zenon DEF RecvSrtlaAck
  <2>3. \A j \in Links : /\ link'[j] \in LinkState /\ link'[j].log \subseteq link[j].log
                        /\ link'[j].queue = link[j].queue
    BY <1>1, <2>1, <2>2, HandlersKeep, Zenon
  <2>4. \A j \in Links : LinkInv(link'[j], ghost'[j])
    <3>1. ghost' = ghost BY <2>2
    <3> QED BY <1>2, <2>3, <3>1, ShrinkKeeps, Zenon
  <2>5. link' \in [Links -> LinkState] BY <2>2, <2>3, SMTT(30)
  <2>6. acks' \in [Links -> SUBSET Seqs] BY <1>1, <2>2, SMTT(30)
  <2> QED BY <1>1, <1>3, <2>2, <2>4, <2>5, <2>6, Zenon DEF IInv, TypeOK, RingInv
<1>10. ASSUME NEW s \in lost, RecvNak(s) PROVE IInv'
  <2>1. s \in Seqs BY <1>1
  <2>2. /\ link' = [i \in Links |-> IF i \in NakTarget(s)
                                    THEN HandleNak(link[i], s) ELSE link[i]]
        /\ ghost' = [i \in Links |-> IF i \in NakTarget(s)
                        THEN [ghost[i] EXCEPT !.blamed = @ \cup {s}] ELSE ghost[i]]
        /\ UNCHANGED <<ring, net, acks, got, lost, sent, once, spent>>
    BY <1>10, SMTT(30) DEF RecvNak
  <2>3. ASSUME NEW i \in NakTarget(s) PROVE i \in Links /\ s \in link[i].log
    BY SMTT(30) DEF NakTarget
  <2>4. ASSUME NEW i \in Links
        PROVE  /\ link'[i] \in LinkState /\ ghost'[i] \in GhostState
               /\ LinkInv(link'[i], ghost'[i])
               /\ ghost'[i].carried = ghost[i].carried
    <3>1. CASE i \notin NakTarget(s) BY <1>1, <1>2, <2>2, <3>1, SMTT(30)
    <3>2. CASE i \in NakTarget(s)
      <4> DEFINE b == ghost[i].blamed \cup {s}
      <4>1. link'[i] = HandleNak(link[i], s) /\ ghost'[i] = [ghost[i] EXCEPT !.blamed = b]
        BY <2>2, <3>2, SMTT(30)
      <4>2. ghost[i] \in GhostState /\ b \in SUBSET Seqs BY <1>1, <2>1, SMTT(30) DEF GhostState
      <4>3. b \subseteq ghost[i].carried BY <1>2, <2>3, <3>2, SMTT(30) DEF LinkInv
      <4> HIDE DEF b
      <4>4. ghost'[i] \in GhostState BY <4>1, <4>2, Zenon DEF GhostState
      <4>5. /\ ghost'[i].blamed = b /\ ghost'[i].wired = ghost[i].wired
            /\ ghost'[i].carried = ghost[i].carried
        BY <4>1, <4>2, SMTT(30) DEF GhostState
      <4>6. /\ link'[i] \in LinkState /\ link'[i].log \subseteq link[i].log
            /\ link'[i].queue = link[i].queue
        BY <1>1, <2>1, <4>1, HandlersKeep, SMTT(30)
      <4>7. LinkInv(link'[i], ghost'[i])
        <5>1. LinkInv(link'[i], ghost[i]) BY <1>2, <4>6, ShrinkKeeps, Zenon
        <5> QED BY <4>3, <4>5, <5>1, Zenon DEF LinkInv
      <4> QED BY <4>4, <4>5, <4>6, <4>7, SMTT(30)
    <3> QED BY <3>1, <3>2, SMTT(30)
  <2>5. link' = [i \in Links |-> link'[i]] /\ ghost' = [i \in Links |-> ghost'[i]]
    BY <2>2, SMTT(30)
  <2> QED BY <1>1, <2>2, <2>4, <2>5, LocalStep, Zenon DEF IInv, TypeOK
<1>11. ASSUME NEW i \in Links, Reg3(i) PROVE IInv'
  <2> DEFINE c == ClearPreRegistration(link[i])  w == ghost[i].wiped \cup link[i].log
             h == [ghost[i] EXCEPT !.wiped = w]
  <2>1. link[i] \in LinkState /\ ghost[i] \in GhostState /\ w \in SUBSET Seqs
    BY <1>1, Zenon DEF LinkState, GhostState
  <2>2. <<>> \in Seq(QEntry) /\ {} \in SUBSET Seqs OBVIOUS
  <2>3. c \in LinkState
    BY <2>1, <2>2, Zenon DEF ClearPreRegistration, LinkState, QEntry
  <2>4. c.queue = <<>> /\ c.log = {} BY <2>1, SMTT(30) DEF ClearPreRegistration, LinkState
  <2>5. Tracked(c) = {} BY <2>4 DEF Tracked
  <2>6. /\ link' = [link EXCEPT ![i] = c] /\ ghost' = [ghost EXCEPT ![i] = h]
        /\ once' = TRUE /\ UNCHANGED <<ring, net, acks, got, lost, sent, spent>>
    BY <1>1, <1>11 DEF Reg3
  <2>7. h \in GhostState
    <3> HIDE DEF w
    <3> QED BY <2>1, Zenon DEF GhostState
  <2>8. /\ h.carried = ghost[i].carried /\ h.wired = ghost[i].wired
        /\ h.blamed = ghost[i].blamed
    BY <2>1, SMTT(30) DEF GhostState
  <2> HIDE DEF c, h
  <2>9. LinkInv(c, h) BY <1>2, <2>4, <2>5, <2>8, SMTT(30) DEF LinkInv
  <2>10. \A j \in Links : /\ link'[j] \in LinkState /\ ghost'[j] \in GhostState
                         /\ LinkInv(link'[j], ghost'[j])
                         /\ ghost[j].carried \subseteq ghost'[j].carried
    BY <1>1, <1>2, <2>3, <2>6, <2>7, <2>8, <2>9, Zenon
  <2>11. link' = [j \in Links |-> link'[j]] /\ ghost' = [j \in Links |-> ghost'[j]]
    BY <1>1, <2>6, Zenon
  <2> QED BY <1>1, <2>6, <2>10, <2>11, LocalStep, Zenon DEF IInv, TypeOK
<1>12. ASSUME NEW i \in Links, RegErr(i) \/ Hold(i) \/ Release(i) PROVE IInv'
  <2> DEFINE c == link'[i]
  <2>0. link[i] \in LinkState /\ {} \in SUBSET Seqs BY <1>1, SMTT(30)
  <2>1. PICK d : /\ link' = [link EXCEPT ![i] = d] /\ d \in LinkState
                 /\ d.log = link[i].log /\ d.queue = link[i].queue
    <3>1. CASE RegErr(i)
      <4> DEFINE d == [link[i] EXCEPT !.connected = FALSE]
      <4>1. link' = [link EXCEPT ![i] = d] BY <1>1, <3>1 DEF RegErr
      <4>2. d \in LinkState BY <2>0, Zenon DEF LinkState
      <4>3. d.log = link[i].log /\ d.queue = link[i].queue BY <2>0 DEF LinkState
      <4> QED BY <4>1, <4>2, <4>3, Zenon
    <3>2. CASE Hold(i)
      <4> DEFINE d == [link[i] EXCEPT !.held = TRUE, !.stamps = {}]
      <4>1. link' = [link EXCEPT ![i] = d] BY <1>1, <3>2, Zenon DEF Hold
      <4>2. d \in LinkState BY <2>0, Zenon DEF LinkState
      <4>3. d.log = link[i].log /\ d.queue = link[i].queue BY <2>0 DEF LinkState
      <4> QED BY <4>1, <4>2, <4>3, Zenon
    <3>3. CASE Release(i)
      <4> DEFINE d == [link[i] EXCEPT !.held = FALSE, !.stamps = {}]
      <4>1. link' = [link EXCEPT ![i] = d] BY <1>1, <3>3, Zenon DEF Release
      <4>2. d \in LinkState BY <2>0, Zenon DEF LinkState
      <4>3. d.log = link[i].log /\ d.queue = link[i].queue BY <2>0 DEF LinkState
      <4> QED BY <4>1, <4>2, <4>3, Zenon
    <3> QED BY <1>12, <3>1, <3>2, <3>3, Zenon
  <2>2. LinkInv(d, ghost[i])
    <3>1. d.log \subseteq link[i].log BY <2>1, SMTT(30)
    <3> QED BY <1>2, <2>1, <3>1, ShrinkKeeps, Zenon
  <2>3. UNCHANGED <<ring, net, acks, got, lost, sent, once, ghost>>
    BY <1>12, SMTT(30) DEF RegErr, Hold, Release
  <2>4. spent' \in SP BY <1>1, <1>12, SMTT(30) DEF RegErr, Hold, Release
  <2>5. link' \in [Links -> LinkState] BY <1>1, <2>1, SMTT(30)
  <2>6. \A j \in Links : LinkInv(link'[j], ghost'[j]) BY <1>1, <1>2, <2>1, <2>2, <2>3, SMTT(30)
  <2> QED BY <1>1, <1>3, <2>3, <2>4, <2>5, <2>6, Zenon DEF IInv, TypeOK, RingInv
<1>13. ASSUME NEW i \in Links, Recover(i) PROVE IInv'
  <2>1. /\ link' = [link EXCEPT ![i] = NewLink] /\ ghost' = [ghost EXCEPT ![i] = NewGhost]
        /\ ring' = RemoveConnections(ring, {i})
        /\ UNCHANGED <<net, acks, got, lost, sent, once>>
    BY <1>13 DEF Recover, MarkForRecovery
  <2>2. spent' \in SP BY <1>1, <1>13, SMTT(30) DEF Recover
  <2>3. link' \in [Links -> LinkState] /\ ghost' \in [Links -> GhostState]
    BY <1>1, <2>1, NewTypes, SMTT(30)
  <2>4. \A j \in Links : LinkInv(link'[j], ghost'[j]) BY <1>1, <1>2, <2>1, NewTypes, SMTT(30)
  <2>5. ring' \in [Slots -> RingEntry] BY <1>1, <2>1, RemoveKeeps, SMTT(30)
  <2>6. RingInv(ring', ghost')
    <3> SUFFICES ASSUME NEW k \in Slots, ring'[k].conn # NoLink
                 PROVE  ring'[k].seq \in ghost'[ring'[k].conn].carried
      BY SMTT(30) DEF RingInv
    <3>1. ring'[k] = ring[k] /\ ring[k].conn # i BY <1>1, <2>1, RemoveKeeps, SMTT(30)
    <3>2. ring[k].conn \in Links BY <1>1, <3>1, Zenon DEF RingEntry
    <3>3. ring[k].seq \in ghost[ring[k].conn].carried BY <1>3, <3>1, SMTT(30) DEF RingInv
    <3> QED BY <1>1, <2>1, <3>1, <3>2, <3>3, Zenon
  <2> QED BY <1>1, <2>1, <2>2, <2>3, <2>4, <2>5, <2>6, Zenon DEF IInv, TypeOK
<1>14. ASSUME NEW k \in Slots, Expire(k) PROVE IInv'
  <2> DEFINE e == [ring[k] EXCEPT !.expired = TRUE]
  <2>1. ring[k] \in RingEntry BY <1>1
  <2>2. e \in RingEntry BY <2>1, Zenon DEF RingEntry
  <2>3. e.conn = ring[k].conn /\ e.seq = ring[k].seq BY <2>1, SMTT(30) DEF RingEntry
  <2>4. ring' = [ring EXCEPT ![k] = e] BY <1>1, <1>14, SMTT(30) DEF Expire
  <2> HIDE DEF e
  <2>5. ring' \in [Slots -> RingEntry] BY <1>1, <2>2, <2>4, SMTT(30)
  <2>6. \A m \in Slots : ring'[m].conn = ring[m].conn /\ ring'[m].seq = ring[m].seq
    BY <1>1, <2>3, <2>4, SMTT(30)
  <2>7. UNCHANGED <<link, net, acks, got, lost, sent, once, ghost>> BY <1>14 DEF Expire
  <2>8. spent' \in SP BY <1>1, <1>14, SMTT(30) DEF Expire
  <2>9. RingInv(ring', ghost') BY <1>3, <2>6, <2>7, SMTT(30) DEF RingInv
  <2> QED BY <1>1, <1>2, <2>5, <2>7, <2>8, <2>9, Zenon DEF IInv, TypeOK
<1>15. ASSUME NEW i \in Links, NEW s \in net[i], Arrive(i, s) PROVE IInv'
  <2> DEFINE x == ghost[i].reached \cup ({s} \cap link[i].probes)
             h == [ghost[i] EXCEPT !.reached = x]
  <2>1. s \in Seqs /\ ghost[i] \in GhostState BY <1>1, SMTT(30)
  <2>2. x \in SUBSET Seqs BY <2>1 DEF GhostState
  <2>3. h \in GhostState
    <3> HIDE DEF x
    <3> QED BY <2>1, <2>2, Zenon DEF GhostState
  <2>4. /\ h.carried = ghost[i].carried /\ h.wired = ghost[i].wired
        /\ h.blamed = ghost[i].blamed
    BY <2>1 DEF GhostState
  <2>5. /\ ghost' = [ghost EXCEPT ![i] = h]
        /\ net' = [net EXCEPT ![i] = @ \ {s}] /\ got' = got \cup {s}
        /\ acks' = [acks EXCEPT ![i] = @ \cup {s}]
        /\ UNCHANGED <<link, ring, lost, sent, once, spent>>
    BY <1>1, <1>15, SMTT(30) DEF Arrive
  <2> HIDE DEF h
  <2>6. net' \in [Links -> SUBSET Seqs] /\ acks' \in [Links -> SUBSET Seqs]
        /\ got' \in SUBSET Seqs
    BY <1>1, <2>1, <2>5, SMTT(30)
  <2>7. \A j \in Links : /\ link'[j] \in LinkState /\ ghost'[j] \in GhostState
                        /\ LinkInv(link'[j], ghost'[j])
                        /\ ghost[j].carried \subseteq ghost'[j].carried
    BY <1>1, <1>2, <2>3, <2>4, <2>5, Zenon DEF LinkInv
  <2>8. link' = [j \in Links |-> link'[j]] /\ ghost' = [j \in Links |-> ghost'[j]]
    BY <1>1, <2>5, Zenon
  <2> QED BY <1>1, <2>5, <2>6, <2>7, <2>8, LocalStep, Zenon DEF IInv, TypeOK
<1>16. ASSUME NEW p \in 0 .. sent - 1, NEW q \in 0 .. sent - 1, ReportLoss(p, q) PROVE IInv'
  <2>1. SeqAt(p) \in Seqs BY <1>1, ConstantTypes, SeqTypes, SMTT(30)
  <2>2. lost' \in SUBSET Seqs BY <1>1, <1>16, <2>1, SMTT(30) DEF ReportLoss
  <2>3. UNCHANGED <<link, ring, net, acks, got, sent, once, spent, ghost>>
    BY <1>16, SMTT(30) DEF ReportLoss
  <2> QED BY <1>1, <1>2, <1>3, <2>2, <2>3, Zenon DEF IInv, TypeOK, RingInv
<1>17. CASE UNCHANGED vars
  BY <1>1, <1>2, <1>3, <1>17, Zenon DEF vars, IInv, TypeOK, RingInv
<1> QED
  BY <1>4, <1>5, <1>6, <1>7, <1>8, <1>9, <1>10, <1>11, <1>12, <1>13, <1>14,
     <1>15, <1>16, <1>17, Zenon, Zenon DEF Next

(* The accounting of every uplink and the tracker agree with the history   *)
(* in every reachable state.                                               *)
THEOREM Inductive == Spec => []IInv
<1> QED BY InitIInv, StepIInv, PTL DEF Spec

(* Types, sequence numbers inside the wrapping space included.             *)
THEOREM TypeCorrect == Spec => []TypeOK
<1>1. IInv => TypeOK BY SMTT(30) DEF IInv
<1> QED BY <1>1, Inductive, PTL

(* take_batch's optimistic registration never outlives a failed flush.     *)
THEOREM InFlightIsReal == Spec => []NoPhantomInFlight
<1>1. IInv => NoPhantomInFlight BY SMTT(30) DEF IInv, LinkInv, NoPhantomInFlight
<1> QED BY <1>1, Inductive, PTL

(* The tracker never names an uplink that was reset after it was given the *)
(* sequence (recover_connection, remove_connection).                       *)
THEOREM TrackerIsTruthful == Spec => []TrackerNamesCarrier
<1>1. IInv => TrackerNamesCarrier BY SMTT(30) DEF IInv, RingInv, TrackerNamesCarrier
<1> QED BY <1>1, Inductive, PTL

(* attribute_nak charges a loss only to a carrier of the unique copy.      *)
THEOREM LossChargedToCarrier == Spec => []BlameOnlyCarrier
<1>1. IInv => BlameOnlyCarrier BY SMTT(30) DEF IInv, LinkInv, BlameOnlyCarrier
<1> QED BY <1>1, Inductive, PTL

-----------------------------------------------------------------------------
(* Why a packet leaves an in-flight log.  The client's packets are those   *)
(* of a stretch of less than half the sequence space, so that the serial   *)
(* arithmetic of seq.rs orders them as they were sent.                     *)

Stream(n) == {SeqAt(p) : p \in 0 .. n - 1}

Excused(c, g, k) == g.wired \ c.log \subseteq k \cup g.blamed \cup g.wiped

\* What an uplink takes for acknowledged, the receiver has.
HighestIsHad(c, k, n) ==
  c.highest # NoAckYet =>
    \E h \in 0 .. n - 1 : c.highest = SeqAt(h) /\ \A q \in 0 .. h : SeqAt(q) \in k

LinkCause(c, g, k, n) ==
  Excused(c, g, k) /\ HighestIsHad(c, k, n) /\ g.carried \subseteq Stream(n)

Cause ==
  /\ \A i \in Links : LinkCause(link[i], ghost[i], got, sent)
  /\ \A i \in Links : acks[i] \subseteq got
  /\ lost \subseteq Stream(sent)

(* Serial arithmetic on the stream is arithmetic on positions.             *)
LEMMA StreamOrder ==
  ASSUME NEW p \in 0 .. MaxPackets, NEW q \in 0 .. MaxPackets
  PROVE  /\ SeqDiff(SeqAt(p), SeqAt(q)) = p - q
         /\ SeqAfter(SeqAt(p), SeqAt(q)) <=> p > q
         /\ p > 0 => SrtAckLastAcked(SeqAt(p)) = SeqAt(p - 1)
         /\ \A n \in 0 .. MaxPackets : q + n <= MaxPackets => SeqPlus(SeqAt(q), n) = SeqAt(q + n)
<1>1. /\ SeqHalf \in Nat /\ SeqSpace = 2 * SeqHalf /\ MaxPackets \in Nat /\ MaxPackets < SeqHalf
      /\ Start \in 0 .. SeqSpace - 1
  BY ConstantTypes, SMTT(30) DEF Seqs
<1>2. SeqDiff(SeqAt(p), SeqAt(q)) = p - q
  BY <1>1, SMTT(30) DEF SeqDiff, SeqAt, SeqPlus
<1>3. SeqAfter(SeqAt(p), SeqAt(q)) <=> p > q BY <1>2, SMTT(30) DEF SeqAfter
<1>4. p > 0 => SrtAckLastAcked(SeqAt(p)) = SeqAt(p - 1)
  BY <1>1, SMTT(30) DEF SrtAckLastAcked, SeqPrev, SeqAt, SeqPlus
<1>5. \A n \in 0 .. MaxPackets : q + n <= MaxPackets => SeqPlus(SeqAt(q), n) = SeqAt(q + n)
  BY <1>1, SMTT(30) DEF SeqAt, SeqPlus
<1> QED BY <1>2, <1>3, <1>4, <1>5, SMTT(30)

(* handle_srt_ack takes out of a log only what the receiver has, whether   *)
(* it walks or sweeps, and leaves the mark where the ACK was.              *)
LEMMA SrtAckCause ==
  ASSUME NEW c \in LinkState, NEW g, NEW k, NEW n \in 0 .. MaxPackets, NEW p \in 1 .. n,
         LinkInv(c, g), LinkCause(c, g, k, n), \A q \in 0 .. p - 1 : SeqAt(q) \in k,
         NEW d, d = HandleSrtAck(c, SrtAckLastAcked(SeqAt(p)))
  PROVE  LinkCause(d, g, k, n)
<1> DEFINE a == SrtAckLastAcked(SeqAt(p))
           first == c.highest = NoAckYet
           advance == SeqDiff(a, c.highest)
           walked == {SeqPlus(c.highest, m) : m \in 1 .. advance}
           walk == ~first /\ advance <= WalkLimit
           x == IF walk THEN c.log \ walked ELSE {s \in c.log : SeqAfter(s, a)}
<1>0. /\ MaxPackets \in Nat /\ n \in Nat /\ p \in Nat /\ p - 1 \in 0 .. MaxPackets
      /\ p \in 0 .. MaxPackets
  BY ConstantTypes, SMTT(30)
<1>1. a = SeqAt(p - 1)
  <2>1. p > 0 BY <1>0, SMTT(30)
  <2> QED BY <1>0, <2>1, StreamOrder, SMTT(30)
<1>2. /\ Excused(c, g, k) /\ HighestIsHad(c, k, n) /\ g.carried \subseteq Stream(n)
  BY Zenon DEF LinkCause
<1>3. CASE d = c BY <1>3, SMTT(30)
<1>4. CASE /\ first \/ SeqAfter(a, c.highest)
           /\ d = [c EXCEPT !.highest = a, !.log = x]
  <2>1. d.log = x /\ d.highest = a
    <3> HIDE DEF x, a
    <3> QED BY <1>4, SMTT(30) DEF LinkState
  <2>2. c.log \ x \subseteq k
    <3> SUFFICES ASSUME NEW s \in c.log, s \notin x PROVE s \in k BY Zenon
    <3>1. CASE walk
      <4>1. s \in walked BY <3>1, Zenon
      <4>2. PICK m \in 1 .. advance : s = SeqPlus(c.highest, m) BY <4>1, SMTT(30)
      <4>3. PICK h \in 0 .. n - 1 : c.highest = SeqAt(h) BY <1>2, <3>1, Zenon DEF HighestIsHad
      <4>4. h \in 0 .. MaxPackets BY <1>0, <4>3, SMTT(30)
      <4>5. advance = p - 1 - h BY <1>0, <1>1, <4>3, <4>4, StreamOrder, Zenon
      <4> HIDE DEF advance
      <4>6. m \in 0 .. MaxPackets /\ h + m <= MaxPackets /\ h + m \in 0 .. p - 1
        BY <1>0, <4>2, <4>3, <4>4, <4>5, SMTT(30)
      <4>7. s = SeqAt(h + m) BY <4>2, <4>3, <4>4, <4>6, StreamOrder, SMTT(30)
      <4> QED BY <4>6, <4>7, Zenon
    <3>2. CASE ~walk
      <4>1. ~SeqAfter(s, a) BY <3>2, Zenon
      <4>2. s \in Stream(n) BY <1>2, Zenon DEF LinkInv
      <4>3. PICK q \in 0 .. n - 1 : s = SeqAt(q) BY <4>2, SMTT(30) DEF Stream
      <4>4. q \in 0 .. MaxPackets BY <1>0, <4>3, SMTT(30)
      <4>5. ~(q > p - 1) BY <1>0, <1>1, <4>1, <4>3, <4>4, StreamOrder, SMTT(30)
      <4>6. q \in 0 .. p - 1 BY <1>0, <4>3, <4>5, SMTT(30)
      <4> QED BY <4>3, <4>6, Zenon
    <3> QED BY <3>1, <3>2, Zenon
  <2> HIDE DEF x, a
  <2>3. Excused(d, g, k) BY <1>2, <2>1, <2>2, Zenon DEF Excused
  <2>4. HighestIsHad(d, k, n)
    <3>1. p - 1 \in 0 .. n - 1 BY <1>0, SMTT(30)
    <3> QED BY <1>1, <2>1, <3>1, SMTT(30) DEF HighestIsHad
  <2> QED BY <1>2, <2>3, <2>4, Zenon DEF LinkCause
<1> QED BY <1>3, <1>4, Zenon DEF HandleSrtAck

(* What holds of an uplink goes on to hold while the receiver gets more,   *)
(* more is sent, and the log loses only what has a cause.                  *)
LEMMA CauseKeeps ==
  ASSUME NEW c, NEW g, NEW k, NEW n \in Nat, LinkCause(c, g, k, n),
         NEW d, NEW h, NEW j, NEW m \in Nat, n <= m, k \subseteq j, d.highest = c.highest,
         h.wired = g.wired, h.carried \subseteq g.carried \cup Stream(m),
         g.blamed \subseteq h.blamed, g.wiped \subseteq h.wiped,
         c.log \ d.log \subseteq j \cup h.blamed \cup h.wiped
  PROVE  LinkCause(d, h, j, m)
<1>1. Excused(d, h, j) BY SMTT(30) DEF LinkCause, Excused
<1>2. HighestIsHad(d, j, m)
  <2> SUFFICES ASSUME c.highest # NoAckYet
               PROVE  \E p \in 0 .. m - 1 : c.highest = SeqAt(p) /\ \A q \in 0 .. p : SeqAt(q) \in j
    BY SMTT(30) DEF HighestIsHad
  <2>1. PICK p \in 0 .. n - 1 : c.highest = SeqAt(p) /\ \A q \in 0 .. p : SeqAt(q) \in k
    BY SMTT(30) DEF LinkCause, HighestIsHad
  <2>2. p \in 0 .. m - 1 BY SMTT(30)
  <2> QED BY <2>1, <2>2, SMTT(30)
<1>3. h.carried \subseteq Stream(m)
  <2>1. 0 .. n - 1 \subseteq 0 .. m - 1 BY SMTT(30)
  <2>2. Stream(n) \subseteq Stream(m) BY <2>1, SMTT(30) DEF Stream
  <2> QED BY <2>2, SMTT(30) DEF LinkCause
<1> QED BY <1>1, <1>2, <1>3, Zenon DEF LinkCause

LEMMA NewCause == \A k, n : LinkCause(NewLink, NewGhost, k, n)
<1>1. NewLink.highest = NoAckYet /\ NewGhost.wired = {} /\ NewGhost.carried = {}
  BY Zenon DEF NewLink, NewGhost
<1> QED BY <1>1, SMTT(30) DEF LinkCause, Excused, HighestIsHad

(* flush_connection registers what it sends, or starts over.               *)
LEMMA FlushCause ==
  ASSUME NEW l \in [Links -> LinkState], NEW r, NEW g \in [Links -> GhostState],
         NEW S \in SUBSET Links, NEW again, NEW k, NEW n,
         \A i \in Links : LinkCause(l[i], g[i], k, n), Flush(l, r, g, S, again)
  PROVE  \A i \in Links : LinkCause(link'[i], ghost'[i], k, n)
<1> SUFFICES ASSUME NEW i \in Links PROVE LinkCause(link'[i], ghost'[i], k, n) OBVIOUS
<1>1. PICK good \in Outcomes(l, S) :
        link' = Flushed(l, S, good) /\ ghost' = FlushGhost(g, l, S, good)
  BY Zenon DEF Flush
<1> DEFINE bad == Refused(l, S, good)  w == g[i].wired \cup Tracked(l[i])
<1>2. link'[i] = IF i \in bad THEN NewLink ELSE IF i \in S THEN TakeBatch(l[i]) ELSE l[i]
  BY <1>1 DEF Flushed, MarkForRecovery
<1>3. ghost'[i] = IF i \in bad THEN NewGhost
                  ELSE IF i \in S THEN [g[i] EXCEPT !.wired = w] ELSE g[i]
  BY <1>1, SMTT(30) DEF FlushGhost
<1>4. CASE i \in bad BY <1>2, <1>3, <1>4, NewCause, SMTT(30)
<1>5. CASE i \notin bad /\ i \notin S BY <1>2, <1>3, <1>5, SMTT(30)
<1>6. CASE i \notin bad /\ i \in S
  <2>1. link'[i] = TakeBatch(l[i]) /\ ghost'[i] = [g[i] EXCEPT !.wired = w]
    BY <1>2, <1>3, <1>6, Zenon
  <2>2. l[i] \in LinkState /\ g[i] \in GhostState /\ LinkCause(l[i], g[i], k, n) OBVIOUS
  <2>3. link'[i].log = l[i].log \cup Tracked(l[i]) /\ link'[i].highest = l[i].highest
    BY <2>1, <2>2, SMTT(30) DEF TakeBatch, LinkState
  <2>4. /\ ghost'[i].wired = g[i].wired \cup Tracked(l[i]) /\ ghost'[i].carried = g[i].carried
        /\ ghost'[i].blamed = g[i].blamed /\ ghost'[i].wiped = g[i].wiped
    BY <2>1, <2>2, SMTT(30) DEF GhostState
  <2> QED BY <2>2, <2>3, <2>4, Zenon DEF LinkCause, Excused, HighestIsHad
<1> QED BY <1>4, <1>5, <1>6, Zenon

(* handle_srt_packet adds the packet to what the uplink carries.           *)
LEMMA ForwardCause ==
  ASSUME IInv, Cause, NEW sel \in Links, NEW s \in Seqs, NEW again, NEW m \in Nat, sent <= m,
         s \in Stream(m), Forward(sel, s, again)
  PROVE  \A i \in Links : LinkCause(link'[i], ghost'[i], got, m)
<1> DEFINE r == Insert(ring, s, sel)
           g == [ghost EXCEPT ![sel].carried = @ \cup {s}]
<1>1. PICK due \in SUBSET HeldOut(sel) :
      \E kept \in [due -> SUBSET Seqs], full \in SUBSET (due \cup {sel}) :
        Flush(Queued(sel, s, due, kept), r, g, full, again)
  BY Zenon DEF Forward
<1>2. PICK kept \in [due -> SUBSET Seqs], full \in SUBSET (due \cup {sel}) :
        Flush(Queued(sel, s, due, kept), r, g, full, again)
  BY <1>1, SMTT(30)
<1> DEFINE l == Queued(sel, s, due, kept)
<1>3. due \in SUBSET Links /\ full \in SUBSET Links BY SMTT(30) DEF HeldOut
<1>4. link \in [Links -> LinkState] /\ ghost \in [Links -> GhostState] /\ sent \in Nat
  BY SMTT(30) DEF IInv, TypeOK
<1>5. /\ g \in [Links -> GhostState]
      /\ \A i \in Links : /\ g[i].carried \subseteq ghost[i].carried \cup {s}
                          /\ g[i].wired = ghost[i].wired
                          /\ g[i].blamed = ghost[i].blamed /\ g[i].wiped = ghost[i].wiped
  <2> DEFINE x == ghost[sel].carried \cup {s}  h == [ghost[sel] EXCEPT !.carried = x]
  <2>1. ghost[sel] \in GhostState /\ x \in SUBSET Seqs BY <1>4 DEF GhostState
  <2>2. h \in GhostState
    <3> HIDE DEF x
    <3> QED BY <2>1, Zenon DEF GhostState
  <2>3. /\ h.carried = x /\ h.wired = ghost[sel].wired
        /\ h.blamed = ghost[sel].blamed /\ h.wiped = ghost[sel].wiped
    BY <2>1 DEF GhostState
  <2>4. g = [ghost EXCEPT ![sel] = h] BY <1>4, SMTT(30)
  <2> HIDE DEF h, g
  <2> QED BY <1>4, <2>2, <2>3, <2>4, Zenon
<1>6. ASSUME NEW i \in Links
      PROVE  l[i] \in LinkState /\ LinkCause(l[i], g[i], got, m)
  <2>1. LinkCause(link[i], ghost[i], got, sent) /\ link[i] \in LinkState BY <1>4, Zenon DEF Cause
  <2>2. l[i] = IF i = sel THEN QueueData(link[i], s)
               ELSE IF i \in due THEN QueueProbe(link[i], s, kept[i]) ELSE link[i]
    BY SMTT(30) DEF Queued
  <2>3. i \in due => kept[i] \in SUBSET Seqs BY SMTT(30)
  <2> HIDE DEF l, g
  <2>4. l[i] \in LinkState /\ l[i].log = link[i].log
    BY <1>4, <2>1, <2>2, <2>3, QueueDataKeeps, QueueProbeKeeps, SMTT(30)
  <2>5. l[i].highest = link[i].highest
    BY <2>1, <2>2, SMTT(30) DEF QueueData, QueueProbe, LinkState
  <2>6. g[i].carried \subseteq ghost[i].carried \cup Stream(m) BY <1>5, Zenon
  <2>7. link[i].log \ l[i].log = {} /\ got \subseteq got BY <2>4, Zenon
  <2>8. LinkCause(l[i], g[i], got, m)
    BY <1>4, <1>5, <2>1, <2>5, <2>6, <2>7, CauseKeeps, Zenon
  <2> QED BY <2>4, <2>8, Zenon
<1>7. l \in [Links -> LinkState]
  <2>1. l = [i \in Links |-> l[i]] BY SMTT(30) DEF Queued
  <2> HIDE DEF l
  <2> QED BY <1>6, <2>1, Zenon
<1> HIDE DEF l, r, g
<1>8. Flush(l, r, g, full, again) BY <1>2, SMTT(30) DEF l
<1> QED BY <1>3, <1>5, <1>6, <1>7, <1>8, FlushCause, Zenon

LEMMA InitCause == Init => Cause
<1> SUFFICES ASSUME Init PROVE Cause OBVIOUS
<1> DEFINE up == ClearPreRegistration(NewLink)
<1>1. up.highest = NoAckYet BY NewTypes, SMTT(30) DEF ClearPreRegistration, LinkState
<1>2. NewGhost.wired = {} /\ NewGhost.carried = {} BY SMTT(30) DEF NewGhost
<1>3. LinkCause(up, NewGhost, got, sent)
  BY <1>1, <1>2, SMTT(30) DEF LinkCause, Excused, HighestIsHad
<1>4. \A i \in Links : link[i] \in {up, NewLink} /\ ghost[i] = NewGhost BY DEF Init
<1> HIDE DEF up
<1>5. \A i \in Links : LinkCause(link[i], ghost[i], got, sent) BY <1>3, <1>4, NewCause, SMTT(30)
<1> QED BY <1>5 DEF Init, Cause

(* A step that leaves an uplink's log and marks, and its history, as they  *)
(* were, while the receiver may get more and more may be sent.             *)
LEMMA SameCause ==
  ASSUME IInv, Cause, sent' \in Nat, sent <= sent', got \subseteq got',
         NEW i \in Links, link'[i].log = link[i].log, link'[i].highest = link[i].highest,
         ghost'[i].wired = ghost[i].wired, ghost'[i].carried = ghost[i].carried,
         ghost'[i].blamed = ghost[i].blamed, ghost'[i].wiped = ghost[i].wiped
  PROVE  LinkCause(link'[i], ghost'[i], got', sent')
<1>1. sent \in Nat /\ LinkCause(link[i], ghost[i], got, sent)
  <2>1. sent \in 0 .. MaxPackets BY Zenon DEF IInv, TypeOK
  <2>2. LinkCause(link[i], ghost[i], got, sent) BY Zenon DEF Cause
  <2> QED BY <2>1, <2>2, ConstantTypes
<1>2. link[i].log \ link'[i].log = {} BY Zenon
<1> QED BY <1>1, <1>2, CauseKeeps, Zenon

LEMMA StepCause == IInv /\ Cause /\ [Next]_vars => Cause'
<1> SUFFICES ASSUME IInv, Cause, [Next]_vars PROVE Cause' BY SMTT(30)
<1>1. /\ link \in [Links -> LinkState] /\ acks \in [Links -> SUBSET Seqs] /\ lost \in SUBSET Seqs
      /\ sent \in 0 .. MaxPackets /\ ghost \in [Links -> GhostState] /\ MaxPackets \in Nat
  BY ConstantTypes, SMTT(30) DEF IInv, TypeOK
<1>2. /\ \A i \in Links : LinkCause(link[i], ghost[i], got, sent)
      /\ \A i \in Links : acks[i] \subseteq got
      /\ lost \subseteq Stream(sent)
  BY Zenon DEF Cause
<1>3. sent \in Nat /\ sent + 1 \in Nat /\ sent <= sent + 1 /\ sent <= sent BY <1>1, SMTT(30)
<1>4. Stream(sent) \subseteq Stream(sent + 1) /\ SeqAt(sent) \in Stream(sent + 1)
  <2>1. 0 .. sent - 1 \subseteq 0 .. (sent + 1) - 1 /\ sent \in 0 .. (sent + 1) - 1
    BY <1>1, SMTT(30)
  <2> QED BY <2>1, SMTT(30) DEF Stream
<1>5. ASSUME NEW sel \in Links, ForwardNew(sel) PROVE Cause'
  <2>1. Forward(sel, SeqAt(sent), 0) /\ sent' = sent + 1 /\ UNCHANGED <<acks, got, lost>>
    BY <1>5 DEF ForwardNew
  <2>2. \A i \in Links : LinkCause(link'[i], ghost'[i], got, sent + 1)
    <3>1. SeqAt(sent) \in Seqs BY <1>1, SeqTypes, SMTT(30)
    <3> QED BY <1>3, <1>4, <2>1, <3>1, ForwardCause, Zenon
  <2> QED BY <1>2, <1>4, <2>1, <2>2, Zenon DEF Cause
<1>6. ASSUME NEW sel \in Links, NEW s \in lost, ForwardResend(sel, s) PROVE Cause'
  <2>1. Forward(sel, s, 1) /\ UNCHANGED <<acks, got, lost, sent>>
    BY <1>6, SMTT(30) DEF ForwardResend
  <2>2. s \in Stream(sent) /\ s \in Seqs BY <1>1, <1>2
  <2>3. \A i \in Links : LinkCause(link'[i], ghost'[i], got, sent)
    BY <1>3, <2>1, <2>2, ForwardCause, Zenon
  <2> QED BY <1>2, <2>1, <2>3, Zenon DEF Cause
<1>7. CASE ForwardNone
  <2>1. sent' = sent + 1 /\ UNCHANGED <<link, acks, got, lost, ghost>>
    BY <1>7, SMTT(30) DEF ForwardNone
  <2>2. \A i \in Links : LinkCause(link'[i], ghost'[i], got', sent')
    BY <1>3, <2>1, SameCause, Zenon
  <2> QED BY <1>2, <1>4, <2>1, <2>2, Zenon DEF Cause
<1>8. CASE FlushAll
  <2> DEFINE busy == {i \in Links : link[i].queue # <<>>}
  <2>1. Flush(link, ring, ghost, busy, 0) /\ UNCHANGED <<acks, got, lost, sent>>
    BY <1>8, SMTT(30) DEF FlushAll
  <2>2. busy \in SUBSET Links OBVIOUS
  <2> HIDE DEF busy
  <2>3. \A i \in Links : LinkCause(link'[i], ghost'[i], got, sent)
    BY <1>1, <1>2, <2>1, <2>2, FlushCause, Zenon
  <2> QED BY <1>2, <2>1, <2>3, Zenon DEF Cause
<1>9. ASSUME NEW p \in 1 .. sent, RecvSrtAck(p) PROVE Cause'
  <2>1. /\ link' = [i \in Links |-> HandleSrtAck(link[i], SrtAckLastAcked(SeqAt(p)))]
        /\ UNCHANGED <<acks, got, lost, sent, ghost>>
        /\ \A q \in 0 .. p - 1 : SeqAt(q) \in got
    BY <1>9 DEF RecvSrtAck, Acknowledged
  <2>2. ASSUME NEW i \in Links PROVE LinkCause(link'[i], ghost[i], got, sent)
    <3>1. link'[i] = HandleSrtAck(link[i], SrtAckLastAcked(SeqAt(p))) BY <2>1, SMTT(30)
    <3>2. link[i] \in LinkState /\ LinkInv(link[i], ghost[i]) BY <1>1, SMTT(30) DEF IInv
    <3> QED BY <1>1, <1>2, <2>1, <3>1, <3>2, SrtAckCause, Zenon
  <2> QED BY <1>2, <2>1, <2>2, Zenon DEF Cause
<1>10. ASSUME NEW i \in Links, NEW s \in acks[i], RecvSrtlaAck(i, s) PROVE Cause'
  <2>1. /\ link' = [j \in Links |-> IF j \in SrtlaAckTarget(i, s)
                                    THEN HandleSrtlaAck(link[j], s) ELSE link[j]]
        /\ acks' = [acks EXCEPT ![i] = @ \ {s}]
        /\ UNCHANGED <<got, lost, sent, ghost>>
    BY <1>10, Zenon DEF RecvSrtlaAck
  <2>2. s \in got BY <1>2, SMTT(30)
  <2>3. ASSUME NEW j \in Links PROVE LinkCause(link'[j], ghost[j], got, sent)
    <3>1. link[j] \in LinkState /\ LinkCause(link[j], ghost[j], got, sent) BY <1>1, <1>2, SMTT(30)
    <3>2. link'[j] \in {HandleSrtlaAck(link[j], s), link[j]} BY <2>1, SMTT(30)
    <3>3. link'[j].highest = link[j].highest /\ link[j].log \ link'[j].log \subseteq {s}
      <4> DEFINE d == HandleSrtlaAck(link[j], s)
                 x == IF s \in link[j].probes THEN link[j].log ELSE link[j].log \ {s}
      <4>1. d.highest = link[j].highest /\ d.log = x BY <3>1, SMTT(30) DEF HandleSrtlaAck, LinkState
      <4>2. link[j].log \ x \subseteq {s} BY SMTT(30)
      <4> HIDE DEF d, x
      <4> QED BY <3>2, <4>1, <4>2, Zenon DEF d
    <3>4. link[j].log \ link'[j].log \subseteq got \cup ghost[j].blamed \cup ghost[j].wiped
      BY <2>2, <3>3, SMTT(30)
    <3> QED BY <1>3, <3>1, <3>3, <3>4, CauseKeeps, Zenon
  <2>4. \A j \in Links : acks'[j] \subseteq got BY <1>1, <1>2, <2>1, SMTT(30)
  <2> QED BY <1>2, <2>1, <2>3, <2>4, Zenon DEF Cause
<1>11. ASSUME NEW s \in lost, RecvNak(s) PROVE Cause'
  <2>1. /\ link' = [i \in Links |-> IF i \in NakTarget(s)
                                    THEN HandleNak(link[i], s) ELSE link[i]]
        /\ ghost' = [i \in Links |-> IF i \in NakTarget(s)
                        THEN [ghost[i] EXCEPT !.blamed = @ \cup {s}] ELSE ghost[i]]
        /\ UNCHANGED <<acks, got, lost, sent>>
    BY <1>11, SMTT(30) DEF RecvNak
  <2>2. ASSUME NEW i \in Links PROVE LinkCause(link'[i], ghost'[i], got, sent)
    <3>1. /\ link[i] \in LinkState /\ ghost[i] \in GhostState
          /\ LinkCause(link[i], ghost[i], got, sent)
      BY <1>1, <1>2, SMTT(30)
    <3>2. CASE i \notin NakTarget(s) BY <2>1, <3>1, <3>2, SMTT(30)
    <3>3. CASE i \in NakTarget(s)
      <4>1. link'[i] = HandleNak(link[i], s) BY <2>1, <3>3, SMTT(30)
      <4>2. ghost'[i] = [ghost[i] EXCEPT !.blamed = @ \cup {s}] BY <2>1, <3>3, SMTT(30)
      <4>3. link'[i].highest = link[i].highest /\ link[i].log \ link'[i].log \subseteq {s}
        BY <3>1, <4>1, SMTT(30) DEF HandleNak, LinkState
      <4>4. /\ ghost'[i].blamed = ghost[i].blamed \cup {s} /\ ghost'[i].wired = ghost[i].wired
            /\ ghost'[i].carried = ghost[i].carried /\ ghost'[i].wiped = ghost[i].wiped
        BY <3>1, <4>2, SMTT(30) DEF GhostState
      <4>5. /\ link[i].log \ link'[i].log \subseteq got \cup ghost'[i].blamed \cup ghost'[i].wiped
            /\ ghost[i].blamed \subseteq ghost'[i].blamed
            /\ ghost'[i].carried \subseteq ghost[i].carried \cup Stream(sent)
        BY <4>3, <4>4, Zenon
      <4> QED BY <1>3, <3>1, <4>3, <4>4, <4>5, CauseKeeps, Zenon
    <3> QED BY <3>2, <3>3, Zenon
  <2> QED BY <1>2, <2>1, <2>2, SMTT(30) DEF Cause
<1>12. ASSUME NEW i \in Links, Reg3(i) PROVE Cause'
  <2>1. /\ link' = [link EXCEPT ![i] = ClearPreRegistration(@)]
        /\ ghost' = [ghost EXCEPT ![i].wiped = @ \cup link[i].log]
        /\ UNCHANGED <<acks, got, lost, sent>>
    BY <1>12 DEF Reg3
  <2>2. ASSUME NEW j \in Links PROVE LinkCause(link'[j], ghost'[j], got, sent)
    <3>1. CASE j # i BY <1>1, <1>2, <2>1, <3>1
    <3>2. CASE j = i
      <4>1. /\ link[i] \in LinkState /\ ghost[i] \in GhostState
            /\ LinkCause(link[i], ghost[i], got, sent)
        BY <1>1, <1>2, SMTT(30)
      <4>2. link'[i] = ClearPreRegistration(link[i]) BY <1>1, <2>1, SMTT(30)
      <4>3. ghost'[i] = [ghost[i] EXCEPT !.wiped = @ \cup link[i].log] BY <1>1, <2>1, SMTT(30)
      <4>4. link'[i].highest = NoAckYet BY <4>1, <4>2, SMTT(30) DEF ClearPreRegistration, LinkState
      <4>5. /\ ghost'[i].wiped = ghost[i].wiped \cup link[i].log /\ ghost'[i].wired = ghost[i].wired
            /\ ghost'[i].carried = ghost[i].carried /\ ghost'[i].blamed = ghost[i].blamed
        BY <4>1, <4>3, SMTT(30) DEF GhostState
      <4> QED BY <3>2, <4>1, <4>4, <4>5, Zenon DEF LinkCause, Excused, HighestIsHad
    <3> QED BY <3>1, <3>2, Zenon
  <2> QED BY <1>2, <2>1, <2>2, Zenon DEF Cause
<1>13. ASSUME NEW i \in Links, RegErr(i) \/ Hold(i) \/ Release(i) PROVE Cause'
  <2>1. UNCHANGED <<acks, got, lost, sent, ghost>> BY <1>13, SMTT(30) DEF RegErr, Hold, Release
  <2>2. \A j \in Links : link'[j].log = link[j].log /\ link'[j].highest = link[j].highest
    <3>1. CASE RegErr(i) BY <1>1, <3>1, SMTT(30) DEF RegErr, LinkState
    <3>2. CASE Hold(i) BY <1>1, <3>2, SMTT(30) DEF Hold, LinkState
    <3>3. CASE Release(i) BY <1>1, <3>3, SMTT(30) DEF Release, LinkState
    <3> QED BY <1>13, <3>1, <3>2, <3>3, Zenon
  <2>3. \A j \in Links : LinkCause(link'[j], ghost'[j], got', sent')
    BY <1>3, <2>1, <2>2, SameCause, Zenon
  <2> QED BY <1>2, <2>1, <2>3, Zenon DEF Cause
<1>14. ASSUME NEW i \in Links, Recover(i) PROVE Cause'
  <2>1. /\ link' = [link EXCEPT ![i] = NewLink] /\ ghost' = [ghost EXCEPT ![i] = NewGhost]
        /\ UNCHANGED <<acks, got, lost, sent>>
    BY <1>14, SMTT(30) DEF Recover, MarkForRecovery
  <2>2. \A j \in Links : LinkCause(link'[j], ghost'[j], got, sent)
    BY <1>1, <1>2, <2>1, NewCause, SMTT(30)
  <2> QED BY <1>2, <2>1, <2>2, Zenon DEF Cause
<1>15. CASE (\E k \in Slots : Expire(k)) \/ UNCHANGED vars
  <2>1. UNCHANGED <<link, acks, got, lost, sent, ghost>> BY <1>15 DEF Expire, vars
  <2> QED BY <1>2, <2>1, Zenon DEF Cause
<1>16. ASSUME NEW i \in Links, NEW s \in net[i], Arrive(i, s) PROVE Cause'
  <2>1. /\ got' = got \cup {s} /\ acks' = [acks EXCEPT ![i] = @ \cup {s}]
        /\ ghost' = [ghost EXCEPT ![i].reached = @ \cup ({s} \cap link[i].probes)]
        /\ UNCHANGED <<link, lost, sent>>
    BY <1>16 DEF Arrive
  <2>2. \A j \in Links : /\ ghost'[j].wired = ghost[j].wired /\ ghost'[j].carried = ghost[j].carried
                        /\ ghost'[j].blamed = ghost[j].blamed /\ ghost'[j].wiped = ghost[j].wiped
    <3> DEFINE x == ghost[i].reached \cup ({s} \cap link[i].probes)
               h == [ghost[i] EXCEPT !.reached = x]
    <3>1. ghost' = [ghost EXCEPT ![i] = h] BY <1>1, <2>1
    <3>2. /\ h.wired = ghost[i].wired /\ h.carried = ghost[i].carried
          /\ h.blamed = ghost[i].blamed /\ h.wiped = ghost[i].wiped
      BY <1>1, SMTT(30) DEF GhostState
    <3> HIDE DEF h
    <3> QED BY <1>1, <3>1, <3>2, Zenon
  <2>3. \A j \in Links : LinkCause(link'[j], ghost'[j], got', sent')
    BY <1>3, <2>1, <2>2, SameCause, Zenon
  <2>4. \A j \in Links : acks'[j] \subseteq got' BY <1>1, <1>2, <2>1
  <2> QED BY <1>2, <2>1, <2>3, <2>4, Zenon DEF Cause
<1>17. ASSUME NEW p \in 0 .. sent - 1, NEW q \in 0 .. sent - 1, ReportLoss(p, q) PROVE Cause'
  <2>1. lost' = lost \cup {SeqAt(p)} /\ UNCHANGED <<link, acks, got, sent, ghost>>
    BY <1>17, SMTT(30) DEF ReportLoss
  <2>2. SeqAt(p) \in Stream(sent) BY DEF Stream
  <2> QED BY <1>2, <2>1, <2>2, Zenon DEF Cause
<1> QED
  BY <1>5, <1>6, <1>7, <1>8, <1>9, <1>10, <1>11, <1>12, <1>13, <1>14, <1>15, <1>16, <1>17,
     ZenonT(40) DEF Next

(* The walk and the sweep of handle_srt_ack, its stale ACKs and the wrap   *)
(* of the sequence space included, drop no packet that is still owed: one  *)
(* leaves the log only because the receiver has it, a NAK was charged for  *)
(* it, or a REG3 wiped the log.                                            *)
THEOREM PacketsLeaveForCause == Spec => []RemovedForCause
<1>1. Cause => RemovedForCause BY DEF Cause, LinkCause, Excused, RemovedForCause
<1>2. Init => IInv /\ Cause BY InitIInv, InitCause, SMTT(30)
<1>3. (IInv /\ Cause) /\ [Next]_vars => (IInv /\ Cause)' BY StepIInv, StepCause
<1> QED BY <1>1, <1>2, <1>3, PTL DEF Spec
=============================================================================
