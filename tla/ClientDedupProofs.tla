-------------------------- MODULE ClientDedupProofs --------------------------
(***************************************************************************)
(* The relay of ACKs and NAKs to the client withholds a repeat only on     *)
(* account of a late copy, and its two rings take the decisions of the log *)
(* RelayLog, for rings, windows, packets, uplinks and repeats of any       *)
(* number, and copies that lag by any time.                                *)
(***************************************************************************)
EXTENDS ClientDedup, TLAPS

Slots(k) == 0 .. RingSize[k] - 1
Entries(k) == [pkt : Packets \union {"none"}, age : 0 .. Window[k]]
Filled(k, s) == ring[k].entries[s].pkt # "none"

\* The rings, the network and the history are what they are taken for.
RingsTyped ==
  /\ ring = [k \in Kinds |-> ring[k]]
  /\ \A k \in Kinds : ring[k] \in [entries : [Slots(k) -> Entries(k)], next : Slots(k)]

NetTyped ==
  /\ copies \subseteq [pkt : Packets, round : Rounds, link : Links, age : 0 .. Skew]
  /\ round \in [Packets -> 0 .. MaxRounds]
  /\ gen \in [Packets -> 0 .. Period]

RelayTyped ==
  /\ client \in BOOLEAN /\ queue \in Seq(Acks) /\ offered \subseteq Packets
  /\ heard \in [Packets -> SUBSET Rounds]
  /\ told \in [Packets -> SUBSET [round : Rounds, lag : 0 .. Skew]]

\* A ring fills its slots in order, up to the one written next or all of them.
FilledFirst ==
  \A k \in Kinds : \/ \A s \in Slots(k) : Filled(k, s)
                   \/ \A s \in Slots(k) : Filled(k, s) <=> s < ring[k].next

\* A copy of the round sent last has been on its way since then; one of an earlier
\* round for a period more.
CopiesAged ==
  \A c \in copies :
    /\ c.round <= round[c.pkt]
    /\ c.round = round[c.pkt] => gen[c.pkt] <= c.age
    /\ c.round < round[c.pkt] => Period <= c.age

\* A forward whose record outlives the sending of the next round, and what allows an
\* entry of age a to suppress copies of its packet: such a forward, or one of the
\* round r sent last, which was no longer ago than entry and forwarded copy are old.
Late(f) == f.lag + NakWindow > Period
Covers(forwards, r, ago, a) ==
  \E f \in forwards : Late(f) \/ (f.round = r /\ ago <= f.lag + a)

SlotsTold ==
  \A k \in Kinds : \A s \in Slots(k) :
    LET e == ring[k].entries[s] IN
    Filled(k, s) =>
      /\ KindOf[e.pkt] = k
      /\ e.age < Window[k] => Covers(told[e.pkt], round[e.pkt], gen[e.pkt], e.age)

IInv ==
  /\ RingsTyped /\ NetTyped /\ RelayTyped
  /\ FilledFirst /\ CopiesAged /\ SlotsTold /\ NothingWithheld

-----------------------------------------------------------------------------
(* Operators *)

(* What the constants say of a ring.                                       *)
LEMMA RingConstants ==
  /\ \A k \in Kinds : RingSize[k] \in Nat \ {0} /\ Window[k] \in Nat \ {0}
  /\ \A p \in Packets : KindOf[p] \in Kinds
  /\ \A k \in Kinds : k # "ack" => Window[k] = NakWindow
  /\ \A p \in Packets : p \notin Acks => Window[KindOf[p]] = NakWindow
  /\ "none" \notin Packets
BY DedupAssumption, Zenon DEF RingSize, Window, KindOf, Kinds, Packets

(* The slot written next wraps at the end of the ring.                     *)
LEMMA AdvanceSlot ==
  ASSUME NEW n \in Nat \ {0}, NEW i \in 0 .. n - 1
  PROVE  /\ Advance(i, n) = IF i = n - 1 THEN 0 ELSE i + 1
         /\ Advance(i, n) \in 0 .. n - 1
<1>1. i + 1 < n => (i + 1) % n = i + 1 OBVIOUS
<1>2. i + 1 = n => (i + 1) % n = 0 OBVIOUS
<1> QED BY <1>1, <1>2 DEF Advance

(* The i-th slot back from the one written next.                           *)
LEMMA SlotBack ==
  ASSUME NEW n \in Nat \ {0}, NEW next \in 0 .. n - 1, NEW i \in 1 .. n
  PROVE  /\ (next + n - i) % n = IF i <= next THEN next - i ELSE next + n - i
         /\ (next + n - i) % n \in 0 .. n - 1
<1> DEFINE x == next + n - i
<1>1. x \in Nat /\ x < n + n OBVIOUS
<1> HIDE DEF x
<1>2. x < n => x % n = x BY <1>1
<1>3. n <= x => x % n = x - n BY <1>1
<1>4. x % n = IF x < n THEN x ELSE x - n BY <1>1, <1>2, <1>3
<1>5. x < n <=> i > next BY DEF x
<1>6. x = next + n - i BY DEF x
<1> QED BY <1>4, <1>5, <1>6

\* At most n entries: x, and those of the log q, of length m, that have room.
Prepended(x, q, m, n) ==
  [i \in 1 .. (IF m < n THEN m + 1 ELSE n) |-> IF i = 1 THEN x ELSE q[i - 1]]

(* Remembering one more forward, and dropping the oldest when it is too    *)
(* much.                                                                   *)
LEMMA LatestOf ==
  ASSUME NEW S, NEW q \in Seq(S), NEW x \in S, NEW n \in Nat \ {0}, Len(q) <= n
  PROVE  Log!Latest(<<x>> \o q, n) = Prepended(x, q, Len(q), n)
<1> DEFINE w == <<x>> \o q
           m == IF Len(w) < n THEN Len(w) ELSE n
<1>1. /\ w \in Seq(S) /\ Len(w) = Len(q) + 1
      /\ \A i \in 1 .. Len(w) : w[i] = IF i = 1 THEN x ELSE q[i - 1]
  <2>1. <<x>> \in Seq(S) /\ Len(<<x>>) = 1 /\ <<x>>[1] = x OBVIOUS
  <2> QED BY <2>1
<1>2. Len(q) \in Nat OBVIOUS
<1>3. m = IF Len(q) < n THEN Len(q) + 1 ELSE n BY <1>1, <1>2
<1>4. m \in 1 .. Len(w) BY <1>1, <1>2, <1>3
<1>5. SubSeq(w, 1, m) = [i \in 1 .. m |-> w[i]]
  BY <1>1, <1>4
<1>6. Log!Latest(w, n) = SubSeq(w, 1, m) BY DEF Log!Latest
<1> HIDE DEF w, m
<1>7. [i \in 1 .. m |-> w[i]] = [i \in 1 .. m |-> IF i = 1 THEN x ELSE q[i - 1]]
  BY <1>1, <1>4, SMTT(30)
<1> QED BY <1>3, <1>5, <1>6, <1>7, Zenon DEF w, Prepended

-----------------------------------------------------------------------------
(* The rings *)

(* What Ring::should_forward writes: the packet in the slot next in turn.  *)
LEMMA RecordWrites ==
  ASSUME RingsTyped, NEW p \in Packets, Record(p), NEW k, k = KindOf[p]
  PROVE  /\ ring' = [j \in Kinds |-> ring'[j]]
         /\ ring'[k] \in [entries : [Slots(k) -> Entries(k)], next : Slots(k)]
         /\ \A j \in Kinds \ {k} : ring'[j] = ring[j]
         /\ ring'[k].next = Advance(ring[k].next, RingSize[k])
         /\ \A s \in Slots(k) :
              ring'[k].entries[s] = IF s = ring[k].next THEN [pkt |-> p, age |-> 0]
                                    ELSE ring[k].entries[s]
<1>1. k \in Kinds /\ RingSize[k] \in Nat \ {0} /\ Window[k] \in Nat \ {0} BY RingConstants
<1>2. ring[k] \in [entries : [Slots(k) -> Entries(k)], next : Slots(k)]
  BY <1>1 DEF RingsTyped
<1>3. ring' = [ring EXCEPT ![k] =
                 [entries |-> [@.entries EXCEPT ![@.next] = [pkt |-> p, age |-> 0]],
                  next |-> Advance(@.next, RingSize[k])]]
  BY DEF Record, RingOf
<1>4. DOMAIN ring = Kinds BY DEF RingsTyped
<1>5. ring'[k] = [entries |-> [ring[k].entries EXCEPT ![ring[k].next] = [pkt |-> p, age |-> 0]],
                  next |-> Advance(ring[k].next, RingSize[k])]
  BY <1>1, <1>3, <1>4
<1>6. ring' = [j \in Kinds |-> ring'[j]] /\ \A j \in Kinds \ {k} : ring'[j] = ring[j]
  BY <1>3, <1>4, Zenon
<1>7. Advance(ring[k].next, RingSize[k]) \in Slots(k)
  BY <1>1, <1>2, AdvanceSlot, SMTT(30) DEF Slots
<1>8. [pkt |-> p, age |-> 0] \in Entries(k) BY <1>1 DEF Entries
<1>9. ring'[k] \in [entries : [Slots(k) -> Entries(k)], next : Slots(k)]
  BY <1>2, <1>5, <1>7, <1>8, SMTT(30)
<1>10. \A s \in Slots(k) :
         ring'[k].entries[s] = IF s = ring[k].next THEN [pkt |-> p, age |-> 0]
                               ELSE ring[k].entries[s]
  BY <1>2, <1>5, SMTT(30)
<1> QED BY <1>5, <1>6, <1>9, <1>10

LEMMA RecordKeeps ==
  ASSUME RingsTyped, FilledFirst, NEW p \in Packets, Record(p)
  PROVE  RingsTyped' /\ FilledFirst'
<1> DEFINE k == KindOf[p]
<1>1. /\ ring' = [j \in Kinds |-> ring'[j]]
      /\ ring'[k] \in [entries : [Slots(k) -> Entries(k)], next : Slots(k)]
      /\ \A j \in Kinds \ {k} : ring'[j] = ring[j]
      /\ ring'[k].next = Advance(ring[k].next, RingSize[k])
      /\ \A s \in Slots(k) :
           ring'[k].entries[s] = IF s = ring[k].next THEN [pkt |-> p, age |-> 0]
                                 ELSE ring[k].entries[s]
  BY RecordWrites, SMTT(30)
<1>2. k \in Kinds /\ RingSize[k] \in Nat \ {0} /\ p # "none" BY RingConstants
<1> HIDE DEF k
<1>3. RingsTyped' BY <1>1, Zenon DEF RingsTyped, Slots, Entries
<1>4. ASSUME NEW j \in Kinds \ {k}
      PROVE  \/ \A s \in Slots(j) : Filled(j, s)'
             \/ \A s \in Slots(j) : Filled(j, s)' <=> s < ring'[j].next
  BY <1>1 DEF FilledFirst, Filled
<1>5. \/ \A s \in Slots(k) : Filled(k, s)'
      \/ \A s \in Slots(k) : Filled(k, s)' <=> s < ring'[k].next
  <2> DEFINE n == RingSize[k]
             x == ring[k].next
  <2>1. x \in 0 .. n - 1 /\ n \in Nat \ {0} BY <1>2 DEF RingsTyped, Slots
  <2>2. ring'[k].next = IF x = n - 1 THEN 0 ELSE x + 1 BY <1>1, <2>1, AdvanceSlot
  <2>3. \A s \in Slots(k) : Filled(k, s)' <=> s = x \/ Filled(k, s)
    BY <1>1, <1>2 DEF Filled
  <2>4. CASE \A s \in Slots(k) : Filled(k, s) BY <2>3, <2>4
  <2>5. CASE \A s \in Slots(k) : Filled(k, s) <=> s < x
    <3>1. \A s \in Slots(k) : Filled(k, s)' <=> s <= x BY <2>1, <2>3, <2>5 DEF Slots
    <3> HIDE DEF x
    <3> QED BY <2>1, <2>2, <3>1 DEF Slots
  <2> QED BY <1>2, <2>4, <2>5 DEF FilledFirst
<1> QED BY <1>2, <1>3, <1>4, <1>5 DEF FilledFirst, Filled, Slots

(* What the passing of time does to a ring: the age of its slots.          *)
LEMMA TickAges ==
  ASSUME RingsTyped, FilledFirst, Tick
  PROVE  /\ RingsTyped' /\ FilledFirst'
         /\ \A k \in Kinds : ring'[k].next = ring[k].next
         /\ \A k \in Kinds : \A s \in Slots(k) :
              LET e == ring[k].entries[s] IN
              ring'[k].entries[s] =
                [pkt |-> e.pkt,
                 age |-> IF Filled(k, s) /\ e.age < Window[k] THEN e.age + 1 ELSE e.age]
<1>1. ASSUME NEW k \in Kinds, NEW e \in Entries(k)
      PROVE  /\ Older(e, Window[k]) =
                  [pkt |-> e.pkt,
                   age |-> IF e.pkt # "none" /\ e.age < Window[k] THEN e.age + 1 ELSE e.age]
             /\ Older(e, Window[k]) \in Entries(k)
  <2>1. e.age \in 0 .. Window[k] /\ e.pkt \in Packets \union {"none"} /\ Window[k] \in Nat
    BY RingConstants DEF Entries
  <2>2. CASE e.pkt # "none" /\ e.age < Window[k]
    <3>1. Older(e, Window[k]) = [pkt |-> e.pkt, age |-> e.age + 1]
      BY <2>2 DEF Entries, Older
    <3> QED BY <2>1, <2>2, <3>1 DEF Entries
  <2>3. CASE ~(e.pkt # "none" /\ e.age < Window[k])
    <3>1. Older(e, Window[k]) = e BY <2>3 DEF Older
    <3> QED BY <2>1, <2>3, <3>1 DEF Entries
  <2> QED BY <2>2, <2>3
<1>2. ring' = [k \in Kinds |-> ring'[k]] BY DEF Tick
<1>3. ASSUME NEW k \in Kinds
      PROVE  /\ ring'[k] \in [entries : [Slots(k) -> Entries(k)], next : Slots(k)]
             /\ ring'[k].next = ring[k].next
             /\ \A s \in Slots(k) :
                  /\ ring[k].entries[s] \in Entries(k)
                  /\ ring'[k].entries[s] = Older(ring[k].entries[s], Window[k])
  <2> DEFINE es == [s \in Slots(k) |-> Older(ring[k].entries[s], Window[k])]
  <2>1. ring[k] \in [entries : [Slots(k) -> Entries(k)], next : Slots(k)] BY DEF RingsTyped
  <2>2. DOMAIN ring[k].entries = Slots(k) BY <2>1
  <2>3. ring'[k] = [entries |-> es, next |-> ring[k].next] BY <2>2 DEF Tick
  <2>4. \A s \in Slots(k) :
          /\ ring[k].entries[s] \in Entries(k)
          /\ es[s] = Older(ring[k].entries[s], Window[k]) /\ es[s] \in Entries(k)
    BY <1>1, <2>1, Zenon
  <2>5. es = [s \in Slots(k) |-> es[s]] OBVIOUS
  <2> HIDE DEF es
  <2>6. es \in [Slots(k) -> Entries(k)] BY <2>4, <2>5
  <2> QED BY <2>1, <2>3, <2>4, <2>6
<1>4. ASSUME NEW k \in Kinds, NEW s \in Slots(k)
      PROVE  /\ ring'[k].entries[s] =
                  [pkt |-> ring[k].entries[s].pkt,
                   age |-> IF Filled(k, s) /\ ring[k].entries[s].age < Window[k]
                           THEN ring[k].entries[s].age + 1 ELSE ring[k].entries[s].age]
             /\ Filled(k, s)' <=> Filled(k, s)
  <2> DEFINE e == ring[k].entries[s]
  <2>1. e \in Entries(k) /\ ring'[k].entries[s] = Older(e, Window[k]) BY <1>3
  <2> HIDE DEF e
  <2>2. ring'[k].entries[s] =
          [pkt |-> e.pkt, age |-> IF e.pkt # "none" /\ e.age < Window[k] THEN e.age + 1 ELSE e.age]
    BY <1>1, <2>1
  <2> QED BY <2>2 DEF Filled, e
<1>5. RingsTyped' BY <1>2, <1>3 DEF RingsTyped, Slots, Entries
<1>6. FilledFirst' BY <1>3, <1>4, Zenon DEF FilledFirst, Slots
<1> QED BY <1>3, <1>4, <1>5, <1>6, Zenon
-----------------------------------------------------------------------------
(* The steps *)

(* What is known of a copy on its way.                                     *)
LEMMA CopyFacts ==
  ASSUME IInv, NEW c \in copies
  PROVE  /\ c.pkt \in Packets /\ c.round \in Rounds /\ c.age \in 0 .. Skew
         /\ c.round <= round[c.pkt]
         /\ c.round = round[c.pkt] => gen[c.pkt] <= c.age
         /\ c.round < round[c.pkt] => Period <= c.age
<1>1. c \in [pkt : Packets, round : Rounds, link : Links, age : 0 .. Skew]
  BY DEF IInv, NetTyped
<1>2. c.pkt \in Packets /\ c.round \in Rounds /\ c.age \in 0 .. Skew BY <1>1
<1> QED BY <1>2, Zenon DEF IInv, CopiesAged

(* The entry of a slot that is filled.                                     *)
LEMMA SlotFacts ==
  ASSUME IInv, NEW k \in Kinds, NEW s \in Slots(k), Filled(k, s)
  PROVE  LET e == ring[k].entries[s] IN
         /\ e \in Entries(k) /\ e.pkt \in Packets /\ e.age \in 0 .. Window[k]
         /\ KindOf[e.pkt] = k
         /\ e.age < Window[k] => Covers(told[e.pkt], round[e.pkt], gen[e.pkt], e.age)
<1> DEFINE e == ring[k].entries[s]
<1>1. e \in Entries(k)
  <2>1. ring[k] \in [entries : [Slots(k) -> Entries(k)], next : Slots(k)]
    BY Zenon DEF IInv, RingsTyped
  <2> QED BY <2>1
<1>2. e.pkt # "none" BY DEF Filled
<1>3. /\ KindOf[e.pkt] = k
      /\ e.age < Window[k] => Covers(told[e.pkt], round[e.pkt], gen[e.pkt], e.age)
  BY Zenon DEF IInv, SlotsTold
<1> HIDE DEF e
<1>4. e.pkt \in Packets /\ e.age \in 0 .. Window[k] BY <1>1, <1>2 DEF Entries
<1> QED BY <1>1, <1>3, <1>4, Zenon DEF e

(* try_send_to or the channel: a forwarded ACK is in one of them.          *)
LEMMA OfferKeeps ==
  ASSUME IInv, NEW p \in Packets, Offer(p)
  PROVE  /\ queue' \in Seq(Acks) /\ offered' \subseteq Packets
         /\ p \in Acks => p \in offered' \/ \E i \in DOMAIN queue' : queue'[i] = p
         /\ \A q \in Acks : (q \in offered \/ \E i \in DOMAIN queue : queue[i] = q) =>
                            (q \in offered' \/ \E i \in DOMAIN queue' : queue'[i] = q)
<1>1. queue \in Seq(Acks) /\ offered \subseteq Packets BY DEF IInv, RelayTyped
<1>2. CASE offered' = offered \union {p} /\ queue' = queue BY <1>1, <1>2
<1>3. CASE p \in Acks /\ queue' = Append(queue, p) /\ offered' = offered
  <2>1. /\ queue' \in Seq(Acks) /\ DOMAIN queue' = 1 .. Len(queue) + 1
        /\ DOMAIN queue = 1 .. Len(queue) /\ Len(queue) \in Nat
        /\ queue'[Len(queue) + 1] = p
        /\ \A i \in 1 .. Len(queue) : queue'[i] = queue[i]
    BY <1>1, <1>3
  <2>2. Len(queue) + 1 \in DOMAIN queue' BY <2>1
  <2>3. \A i \in DOMAIN queue : i \in DOMAIN queue' /\ queue'[i] = queue[i] BY <2>1
  <2> QED BY <1>1, <1>3, <2>1, <2>2, <2>3
<1> QED BY <1>2, <1>3 DEF Offer

(* A copy is forwarded and recorded.  If it is of the round sent last, its *)
(* record is of that round; if it is of an earlier one, it is late.        *)
LEMMA ForwardStep ==
  ASSUME IInv, NEW c \in copies, Forward(c), copies' = copies \ {c},
         heard' = [heard EXCEPT ![c.pkt] = @ \union {c.round}],
         UNCHANGED <<client, round, gen>>
  PROVE  IInv'
<1> DEFINE p == c.pkt
           r == c.round
           k == KindOf[p]
           f == [round |-> r, lag |-> c.age]
<1>1. p \in Packets /\ r \in Rounds /\ k \in Kinds /\ c.age \in 0 .. Skew
  BY CopyFacts, RingConstants, Zenon
<1>2. /\ round' = round /\ gen' = gen /\ client' = client
      /\ told' = [told EXCEPT ![p] = told[p] \union {f}]
      /\ heard' = [heard EXCEPT ![p] = heard[p] \union {r}]
  BY DEF Forward
<1>3. Record(p) /\ Offer(p) BY DEF Forward
<1>4. Late(f) \/ (f.round = round[p] /\ gen[p] <= f.lag + 0)
  <2>1. /\ r <= round[p] /\ (r = round[p] => gen[p] <= c.age) /\ (r < round[p] => Period <= c.age)
    BY CopyFacts, Zenon
  <2>2. f.round = r /\ f.lag = c.age OBVIOUS
  <2>3. round[p] \in Nat /\ r \in Nat /\ c.age \in Nat
    BY <1>1 DEF IInv, NetTyped, Rounds
  <2>4. NakWindow \in Nat \ {0} /\ Period \in Nat BY DedupAssumption
  <2> HIDE DEF p, r, f
  <2> QED BY <2>1, <2>2, <2>3, <2>4 DEF Late
<1>5. f \in [round : Rounds, lag : 0 .. Skew] BY <1>1
<1> HIDE DEF p, r, k, f
<1>6. RingsTyped /\ NetTyped /\ RelayTyped /\ FilledFirst BY DEF IInv
<1>7. (RingsTyped /\ FilledFirst)' BY <1>1, <1>3, <1>6, RecordKeeps
<1>8. /\ told' \in [Packets -> SUBSET [round : Rounds, lag : 0 .. Skew]]
      /\ told'[p] = told[p] \union {f} /\ \A q \in Packets \ {p} : told'[q] = told[q]
  <2> DEFINE F == [round : Rounds, lag : 0 .. Skew]
  <2>1. told \in [Packets -> SUBSET F] BY <1>6, Zenon DEF RelayTyped
  <2>2. f \in F BY <1>5
  <2> HIDE DEF F
  <2>3. told[p] \union {f} \in SUBSET F BY <1>1, <2>1, <2>2
  <2>4. told' \in [Packets -> SUBSET F] BY <1>2, <2>1, <2>3, Zenon
  <2>5. told'[p] = told[p] \union {f} /\ \A q \in Packets \ {p} : told'[q] = told[q]
    BY <1>1, <1>2, <2>1, Zenon
  <2> QED BY <2>4, <2>5 DEF F
<1>9. heard' \in [Packets -> SUBSET Rounds]
  <2>1. heard \in [Packets -> SUBSET Rounds] BY <1>6 DEF RelayTyped
  <2>2. heard[p] \union {r} \in SUBSET Rounds BY <1>1, <2>1
  <2> QED BY <1>2, <2>1, <2>2, Zenon
<1>10. NetTyped' BY <1>2, <1>6, Zenon DEF NetTyped
<1>11. RelayTyped' BY <1>1, <1>2, <1>3, <1>6, <1>8, <1>9, OfferKeeps, Zenon DEF RelayTyped
<1>12. CopiesAged' BY <1>2, Zenon DEF IInv, CopiesAged
<1>13. \A q \in Packets : told[q] \subseteq told'[q] BY <1>8, Zenon
<1>14. ASSUME NEW q \in Packets, NEW a, Covers(told[q], round[q], gen[q], a)
       PROVE  Covers(told'[q], round'[q], gen'[q], a)
  BY <1>2, <1>13, <1>14, Zenon DEF Covers
<1>15. Covers(told'[p], round'[p], gen'[p], 0) BY <1>2, <1>4, <1>8, Zenon DEF Covers
<1>16. SlotsTold'
  <2>1. /\ \A j \in Kinds \ {k} : ring'[j] = ring[j]
        /\ \A s \in Slots(k) :
             ring'[k].entries[s] = IF s = ring[k].next THEN [pkt |-> p, age |-> 0]
                                   ELSE ring[k].entries[s]
    BY <1>1, <1>3, <1>6, RecordWrites, SMTT(30) DEF k
  <2> SUFFICES ASSUME NEW j \in Kinds, NEW s \in Slots(j), Filled(j, s)'
               PROVE  LET e == ring'[j].entries[s] IN
                      /\ KindOf[e.pkt] = j
                      /\ e.age < Window[j] =>
                           Covers(told'[e.pkt], round'[e.pkt], gen'[e.pkt], e.age)
    BY Zenon DEF SlotsTold, Slots
  <2>2. CASE j = k /\ s = ring[k].next
    <3>1. ring'[j].entries[s] = [pkt |-> p, age |-> 0] BY <2>1, <2>2, Zenon
    <3>2. ring'[j].entries[s].pkt = p /\ ring'[j].entries[s].age = 0 BY <3>1
    <3> QED BY <1>15, <2>2, <3>2, Zenon DEF k
  <2>3. CASE ~(j = k /\ s = ring[k].next)
    <3> DEFINE e == ring[j].entries[s]
    <3>1. ring'[j].entries[s] = e BY <2>1, <2>3, Zenon
    <3>2. Filled(j, s) BY <3>1, Zenon DEF Filled
    <3>3. /\ e.pkt \in Packets /\ KindOf[e.pkt] = j
          /\ e.age < Window[j] => Covers(told[e.pkt], round[e.pkt], gen[e.pkt], e.age)
      BY <3>2, SlotFacts, Zenon
    <3> QED BY <1>14, <3>1, <3>3, Zenon
  <2> QED BY <2>2, <2>3, Zenon
<1>17. NothingWithheld'
  <2>1. ASSUME NEW q \in Packets, NEW x \in heard'[q]
        PROVE  \E g \in told'[q] : g.round >= x \/ g.lag + NakWindow > Period
    <3>1. heard \in [Packets -> SUBSET Rounds] BY <1>6 DEF RelayTyped
    <3>2. CASE q = p /\ x = r
      <4>1. f \in told'[q] BY <1>8, <3>2, Zenon
      <4>2. f.round = r /\ r \in Nat BY <1>1 DEF f, Rounds
      <4>3. f.round >= x BY <3>2, <4>2
      <4> QED BY <4>1, <4>3, Zenon
    <3>3. CASE x \in heard[q]
      BY <1>13, <3>3, Zenon DEF IInv, NothingWithheld
    <3>4. (q = p /\ x = r) \/ x \in heard[q] BY <1>1, <1>2, <3>1
    <3> QED BY <3>2, <3>3, <3>4
  <2>2. ASSUME NEW q \in Acks, told'[q] # {}
        PROVE  q \in offered' \/ \E i \in DOMAIN queue' : queue'[i] = q
    <3>1. q \in Packets BY DEF Packets
    <3>2. CASE q = p BY <1>1, <1>3, <3>2, OfferKeeps
    <3>3. CASE q # p
      <4>1. told[q] # {} BY <1>8, <2>2, <3>1, <3>3, Zenon
      <4>2. q \in offered \/ \E i \in DOMAIN queue : queue[i] = q
        BY <4>1, Zenon DEF IInv, NothingWithheld
      <4> QED BY <1>1, <1>3, <4>2, OfferKeeps, Zenon
    <3> QED BY <3>2, <3>3
  <2> QED BY <2>1, <2>2, Zenon DEF NothingWithheld
<1> QED BY <1>7, <1>10, <1>11, <1>12, <1>16, <1>17 DEF IInv

(* A step that leaves the rings, the forwards and the timers alone.        *)
LEMMA RestKeeps ==
  ASSUME IInv, ring' = ring, told' = told, round' = round, gen' = gen
  PROVE  (RingsTyped /\ FilledFirst /\ SlotsTold)'
<1>1. RingsTyped' BY Zenon DEF IInv, RingsTyped, Slots, Entries
<1>2. FilledFirst' BY Zenon DEF IInv, FilledFirst, Filled, Slots
<1>3. SlotsTold' BY Zenon DEF IInv, SlotsTold, Filled, Slots
<1> QED BY <1>1, <1>2, <1>3

(* A copy is suppressed on account of a slot that was written for the      *)
(* round sent last, or for a late copy.                                    *)
LEMMA SuppressStep ==
  ASSUME IInv, NEW c \in copies, Suppress(c.pkt), copies' = copies \ {c},
         heard' = [heard EXCEPT ![c.pkt] = @ \union {c.round}],
         UNCHANGED <<client, round, gen>>
  PROVE  IInv'
<1> DEFINE p == c.pkt
           r == c.round
           k == KindOf[p]
<1>1. p \in Packets /\ r \in Rounds /\ r <= round[p] /\ k \in Kinds
  BY CopyFacts, RingConstants, Zenon
<1>2. PICK s \in DOMAIN ring[k].entries :
        ring[k].entries[s].pkt = p /\ ring[k].entries[s].age < Window[k]
  BY ZenonT(40) DEF Suppress, SeenRecently, RingOf
<1>3. /\ ring' = ring /\ queue' = queue /\ told' = told /\ offered' = offered
      /\ round' = round /\ gen' = gen /\ client' = client
      /\ heard' = [heard EXCEPT ![p] = heard[p] \union {r}]
  BY DEF Suppress
<1> HIDE DEF p, r, k
<1>4. \E f \in told[p] : f.round >= r \/ f.lag + NakWindow > Period
  <2>1. s \in Slots(k)
    <3>1. ring[k] \in [entries : [Slots(k) -> Entries(k)], next : Slots(k)]
      BY <1>1, Zenon DEF IInv, RingsTyped
    <3>2. DOMAIN ring[k].entries = Slots(k) BY <3>1
    <3> QED BY <1>2, <3>2, Zenon
  <2>2. Filled(k, s) BY <1>1, <1>2, RingConstants, Zenon DEF Filled
  <2>3. Covers(told[p], round[p], gen[p], ring[k].entries[s].age)
    BY <1>1, <1>2, <2>1, <2>2, SlotFacts, Zenon
  <2>4. PICK f \in told[p] :
          Late(f) \/ (f.round = round[p] /\ gen[p] <= f.lag + ring[k].entries[s].age)
    BY <2>3, Zenon DEF Covers
  <2>5. CASE Late(f) BY <2>4, <2>5, Zenon DEF Late
  <2>6. CASE f.round = round[p]
    <3>1. round[p] \in Nat /\ r \in Nat BY <1>1 DEF IInv, NetTyped, Rounds
    <3>2. round[p] >= r BY <1>1, <3>1
    <3> QED BY <2>4, <2>6, <3>2, Zenon
  <2> QED BY <2>4, <2>5, <2>6, Zenon
<1>5. (RingsTyped /\ FilledFirst /\ SlotsTold)' BY <1>3, RestKeeps, Zenon
<1>6. (NetTyped /\ CopiesAged)' BY <1>3, Zenon DEF IInv, NetTyped, CopiesAged
<1>7. heard \in [Packets -> SUBSET Rounds] BY DEF IInv, RelayTyped
<1>8. RelayTyped'
  <2>1. heard[p] \union {r} \in SUBSET Rounds BY <1>1, <1>7
  <2>2. heard' \in [Packets -> SUBSET Rounds] BY <1>3, <1>7, <2>1, Zenon
  <2> QED BY <1>3, <2>2, Zenon DEF IInv, RelayTyped
<1>9. ASSUME NEW q \in Packets, NEW x \in heard'[q]
      PROVE  \E f \in told'[q] : f.round >= x \/ f.lag + NakWindow > Period
  <2>1. (q = p /\ x = r) \/ x \in heard[q] BY <1>1, <1>3, <1>7
  <2> QED BY <1>3, <1>4, <2>1, Zenon DEF IInv, NothingWithheld
<1>10. NothingWithheld' BY <1>3, <1>9, Zenon DEF IInv, NothingWithheld
<1> QED BY <1>5, <1>6, <1>8, <1>10 DEF IInv

(* A copy that is lost, or that arrives without a client, changes nothing  *)
(* else.                                                                   *)
LEMMA DropStep ==
  ASSUME IInv, copies' \subseteq copies,
         UNCHANGED <<ring, client, queue, round, gen, heard, told, offered>>
  PROVE  IInv'
<1>1. /\ ring' = ring /\ client' = client /\ queue' = queue /\ round' = round /\ gen' = gen
      /\ heard' = heard /\ told' = told /\ offered' = offered
  OBVIOUS
<1>2. (RingsTyped /\ FilledFirst /\ SlotsTold)' BY <1>1, RestKeeps, Zenon
<1>3. (NetTyped /\ CopiesAged)' BY <1>1, Zenon DEF IInv, NetTyped, CopiesAged
<1>4. (RelayTyped /\ NothingWithheld)' BY <1>1, Zenon DEF IInv, RelayTyped, NothingWithheld
<1> QED BY <1>2, <1>3, <1>4, Zenon DEF IInv

LEMMA ClientStep ==
  ASSUME IInv, ClientAppears
  PROVE  IInv'
<1>1. /\ client' = TRUE /\ ring' = ring /\ queue' = queue /\ copies' = copies /\ round' = round
      /\ gen' = gen /\ heard' = heard /\ told' = told /\ offered' = offered
  BY DEF ClientAppears, net, ghosts
<1>2. (RingsTyped /\ FilledFirst /\ SlotsTold)' BY <1>1, RestKeeps, Zenon
<1>3. (NetTyped /\ CopiesAged)' BY <1>1, Zenon DEF IInv, NetTyped, CopiesAged
<1>4. (RelayTyped /\ NothingWithheld)' BY <1>1, Zenon DEF IInv, RelayTyped, NothingWithheld
<1> QED BY <1>2, <1>3, <1>4, Zenon DEF IInv

(* The instant-forward task moves an ACK from the channel to the socket.   *)
LEMMA InstantStep ==
  ASSUME IInv, InstantForward
  PROVE  IInv'
<1>1. /\ queue # <<>> /\ queue' = Tail(queue) /\ offered' = offered \union {Head(queue)}
      /\ client' = client /\ ring' = ring /\ copies' = copies /\ round' = round
      /\ gen' = gen /\ heard' = heard /\ told' = told
  BY DEF InstantForward, net
<1>2. queue \in Seq(Acks) BY DEF IInv, RelayTyped
<1>3. /\ Head(queue) \in Acks /\ Tail(queue) \in Seq(Acks)
      /\ Head(queue) = queue[1] /\ DOMAIN queue = 1 .. Len(queue) /\ Len(queue) \in Nat
      /\ DOMAIN queue' = 1 .. Len(queue) - 1
      /\ \A i \in 1 .. Len(queue) - 1 : queue'[i] = queue[i + 1]
  BY <1>1, <1>2
<1>4. (RingsTyped /\ FilledFirst /\ SlotsTold)' BY <1>1, RestKeeps, Zenon
<1>5. (NetTyped /\ CopiesAged)' BY <1>1, Zenon DEF IInv, NetTyped, CopiesAged
<1>6. RelayTyped'
  <2>1. offered' \subseteq Packets BY <1>1, <1>3 DEF IInv, RelayTyped, Packets
  <2> QED BY <1>1, <1>3, <2>1, Zenon DEF IInv, RelayTyped
<1>7. ASSUME NEW q \in Acks, told[q] # {}
      PROVE  q \in offered' \/ \E i \in DOMAIN queue' : queue'[i] = q
  <2>1. CASE q \in offered BY <1>1, <2>1
  <2>2. ASSUME NEW i \in DOMAIN queue, queue[i] = q
        PROVE  q \in offered' \/ \E n \in DOMAIN queue' : queue'[n] = q
    <3>1. CASE i = 1 BY <1>1, <1>3, <2>2, <3>1
    <3>2. CASE i # 1
      <4>1. i - 1 \in DOMAIN queue' /\ i - 1 + 1 = i BY <1>3, <3>2
      <4>2. queue'[i - 1] = q BY <1>3, <2>2, <4>1
      <4> QED BY <4>1, <4>2
    <3> QED BY <3>1, <3>2
  <2> QED BY <1>7, <2>1, <2>2, Zenon DEF IInv, NothingWithheld
<1>8. NothingWithheld' BY <1>1, <1>7, Zenon DEF IInv, NothingWithheld
<1> QED BY <1>4, <1>5, <1>6, <1>8, Zenon DEF IInv

(* The receiver sends, or sends again a period later: a slot that still    *)
(* suppresses copies was then written by a late forward.                   *)
LEMMA PeerStep ==
  ASSUME IInv, NEW p \in Packets, PeerSends(p)
  PROVE  IInv'
<1>1. /\ round[p] < (IF p \in Acks THEN 1 ELSE MaxRounds)
      /\ round[p] > 0 => gen[p] = Period
      /\ round' = [round EXCEPT ![p] = round[p] + 1] /\ gen' = [gen EXCEPT ![p] = 0]
      /\ copies' = copies \union [pkt : {p}, round : {round'[p]}, link : Links, age : {0}]
      /\ ring' = ring /\ client' = client /\ queue' = queue
      /\ heard' = heard /\ told' = told /\ offered' = offered
  BY DEF PeerSends, relay, ghosts
<1>2. Skew \in Nat /\ Period \in Nat /\ MaxRounds \in Nat \ {0} /\ NakWindow \in Nat \ {0}
  BY DedupAssumption
<1>3. round \in [Packets -> 0 .. MaxRounds] /\ gen \in [Packets -> 0 .. Period]
  BY DEF IInv, NetTyped
<1>4. round[p] \in Nat /\ round[p] + 1 \in Rounds /\ (round[p] > 0 => p \notin Acks)
  BY <1>1, <1>2, <1>3 DEF Rounds
<1>5. /\ round' \in [Packets -> 0 .. MaxRounds] /\ gen' \in [Packets -> 0 .. Period]
      /\ round'[p] = round[p] + 1 /\ gen'[p] = 0
      /\ \A q \in Packets \ {p} : round'[q] = round[q] /\ gen'[q] = gen[q]
  <2>1. round[p] + 1 \in 0 .. MaxRounds /\ 0 \in 0 .. Period BY <1>2, <1>4 DEF Rounds
  <2> QED BY <1>1, <1>3, <2>1
<1>6. NetTyped'
  <2>1. 0 \in 0 .. Skew /\ round'[p] \in Rounds BY <1>2, <1>4, <1>5
  <2> QED BY <1>1, <1>5, <2>1 DEF IInv, NetTyped
<1>7. CopiesAged'
  <2> SUFFICES ASSUME NEW c \in copies'
               PROVE  /\ c.round <= round'[c.pkt]
                      /\ c.round = round'[c.pkt] => gen'[c.pkt] <= c.age
                      /\ c.round < round'[c.pkt] => Period <= c.age
    BY Zenon DEF CopiesAged
  <2>1. CASE c \in copies
    <3>1. /\ c.pkt \in Packets /\ c.round \in Rounds /\ c.age \in 0 .. Skew
          /\ c.round <= round[c.pkt]
          /\ c.round = round[c.pkt] => gen[c.pkt] <= c.age
          /\ c.round < round[c.pkt] => Period <= c.age
      BY <2>1, CopyFacts, Zenon
    <3>2. CASE c.pkt # p BY <1>5, <3>1, <3>2, Zenon
    <3>3. CASE c.pkt = p
      <4>1. c.round \in Nat /\ c.round > 0 /\ c.age \in Nat BY <3>1 DEF Rounds
      <4>2. gen[p] = Period BY <1>1, <1>4, <3>1, <3>3, <4>1
      <4>3. Period <= c.age BY <1>2, <1>4, <3>1, <3>3, <4>1, <4>2
      <4> QED BY <1>4, <1>5, <3>1, <3>3, <4>1, <4>3
    <3> QED BY <3>2, <3>3
  <2>2. CASE c \in [pkt : {p}, round : {round'[p]}, link : Links, age : {0}]
    <3>1. c.pkt = p /\ c.round = round'[p] /\ c.age = 0 BY <2>2
    <3> QED BY <1>4, <1>5, <3>1
  <2> QED BY <1>1, <2>1, <2>2, Zenon
<1>8. SlotsTold'
  <2> SUFFICES ASSUME NEW k \in Kinds, NEW s \in Slots(k), Filled(k, s)
               PROVE  LET e == ring[k].entries[s] IN
                      /\ KindOf[e.pkt] = k
                      /\ e.age < Window[k] =>
                           Covers(told'[e.pkt], round'[e.pkt], gen'[e.pkt], e.age)
    BY <1>1, ZenonT(40) DEF SlotsTold, Slots, Filled
  <2> DEFINE e == ring[k].entries[s]
  <2>1. /\ e.pkt \in Packets /\ e.age \in 0 .. Window[k] /\ KindOf[e.pkt] = k
        /\ e.age < Window[k] => Covers(told[e.pkt], round[e.pkt], gen[e.pkt], e.age)
    BY SlotFacts, Zenon
  <2> HIDE DEF e
  <2>2. SUFFICES ASSUME e.age < Window[k]
                 PROVE  Covers(told'[e.pkt], round'[e.pkt], gen'[e.pkt], e.age)
    BY <2>1, Zenon DEF e
  <2>3. PICK f \in told[e.pkt] :
          Late(f) \/ (f.round = round[e.pkt] /\ gen[e.pkt] <= f.lag + e.age)
    BY <2>1, <2>2, Zenon DEF Covers
  <2>4. CASE e.pkt # p BY <1>1, <1>5, <2>1, <2>3, <2>4, Zenon DEF Covers
  <2>5. CASE e.pkt = p
    <3>1. f.round \in Rounds /\ f.lag \in 0 .. Skew
      <4>1. told[e.pkt] \subseteq [round : Rounds, lag : 0 .. Skew]
        BY <2>1, Zenon DEF IInv, RelayTyped
      <4> QED BY <2>3, <4>1
    <3>2. Late(f)
      <4>1. SUFFICES ASSUME f.round = round[p], gen[p] <= f.lag + e.age PROVE Late(f)
        BY <2>3, <2>5, Zenon
      <4>2. round[p] > 0 BY <1>4, <3>1, <4>1 DEF Rounds
      <4>3. gen[p] = Period /\ p \notin Acks BY <1>1, <1>4, <4>2, Zenon
      <4>4. Window[k] = NakWindow BY <2>1, <2>5, <4>3, RingConstants, Zenon
      <4>5. e.age < NakWindow /\ e.age \in 0 .. NakWindow BY <2>1, <2>2, <4>4, Zenon
      <4> QED BY <1>2, <3>1, <4>1, <4>3, <4>5 DEF Late
    <3> QED BY <1>1, <2>3, <3>2, Zenon DEF Covers
  <2> QED BY <2>4, <2>5, Zenon
<1>9. (RingsTyped /\ FilledFirst)'
  BY <1>1, ZenonT(40) DEF IInv, RingsTyped, FilledFirst, Filled, Slots, Entries
<1>10. (RelayTyped /\ NothingWithheld)' BY <1>1, Zenon DEF IInv, RelayTyped, NothingWithheld
<1> QED BY <1>6, <1>7, <1>8, <1>9, <1>10, Zenon DEF IInv

(* Time passes: slots, copies and the receiver's timers age together.      *)
LEMMA TickStep ==
  ASSUME IInv, Tick
  PROVE  IInv'
<1>1. /\ \A c \in copies : c.age < Skew
      /\ copies' = {[c EXCEPT !.age = @ + 1] : c \in copies}
      /\ gen' = [p \in Packets |->
                   IF round[p] > 0 /\ gen[p] < Period THEN gen[p] + 1 ELSE gen[p]]
      /\ client' = client /\ queue' = queue /\ round' = round
      /\ heard' = heard /\ told' = told /\ offered' = offered
  BY DEF Tick
<1>2. Skew \in Nat /\ Period \in Nat /\ NakWindow \in Nat \ {0} BY DedupAssumption
<1>3. round \in [Packets -> 0 .. MaxRounds] /\ gen \in [Packets -> 0 .. Period]
  BY DEF IInv, NetTyped
<1>4. /\ (RingsTyped /\ FilledFirst)'
      /\ \A k \in Kinds : \A s \in Slots(k) :
           LET e == ring[k].entries[s] IN
           ring'[k].entries[s] =
             [pkt |-> e.pkt,
              age |-> IF Filled(k, s) /\ e.age < Window[k] THEN e.age + 1 ELSE e.age]
  BY TickAges, Zenon DEF IInv
<1>5. ASSUME NEW p \in Packets
      PROVE  /\ gen[p] \in 0 .. Period /\ gen'[p] \in 0 .. Period
             /\ gen[p] <= gen'[p] /\ gen'[p] <= gen[p] + 1
  <2>1. gen'[p] = (IF round[p] > 0 /\ gen[p] < Period THEN gen[p] + 1 ELSE gen[p]) BY <1>1
  <2>2. gen[p] \in 0 .. Period BY <1>3
  <2> QED BY <1>2, <2>1, <2>2
<1>6. gen' \in [Packets -> 0 .. Period]
  <2>1. gen' = [p \in Packets |-> gen'[p]] BY <1>1
  <2> QED BY <1>5, <2>1
<1>7. ASSUME NEW d \in copies'
      PROVE  /\ d \in [pkt : Packets, round : Rounds, link : Links, age : 0 .. Skew]
             /\ d.round <= round'[d.pkt]
             /\ d.round = round'[d.pkt] => gen'[d.pkt] <= d.age
             /\ d.round < round'[d.pkt] => Period <= d.age
  <2>1. PICK c \in copies : d = [c EXCEPT !.age = @ + 1] BY <1>1
  <2>2. c \in [pkt : Packets, round : Rounds, link : Links, age : 0 .. Skew]
    BY DEF IInv, NetTyped
  <2>3. /\ c.pkt \in Packets /\ c.age \in 0 .. Skew /\ c.age < Skew
        /\ c.round <= round[c.pkt]
        /\ c.round = round[c.pkt] => gen[c.pkt] <= c.age
        /\ c.round < round[c.pkt] => Period <= c.age
    BY <1>1, CopyFacts, Zenon
  <2>4. d.pkt = c.pkt /\ d.round = c.round /\ d.age = c.age + 1 BY <2>1, <2>2
  <2>5. c.age + 1 \in 0 .. Skew BY <1>2, <2>3
  <2>6. d \in [pkt : Packets, round : Rounds, link : Links, age : 0 .. Skew]
    BY <2>1, <2>2, <2>5
  <2>7. c.round = round[c.pkt] => gen'[c.pkt] <= c.age + 1
    <3>1. gen[c.pkt] \in Nat /\ gen'[c.pkt] \in Nat /\ gen'[c.pkt] <= gen[c.pkt] + 1
      BY <1>5, <2>3
    <3> QED BY <2>3, <3>1
  <2>8. c.round < round[c.pkt] => Period <= c.age + 1 BY <1>2, <2>3
  <2> QED BY <1>1, <2>3, <2>4, <2>6, <2>7, <2>8, Zenon
<1>8. NetTyped' BY <1>1, <1>3, <1>6, <1>7, Zenon DEF NetTyped
<1>9. CopiesAged' BY <1>7, Zenon DEF CopiesAged
<1>10. SlotsTold'
  <2> SUFFICES ASSUME NEW k \in Kinds, NEW s \in Slots(k), Filled(k, s)'
               PROVE  LET f == ring'[k].entries[s] IN
                      /\ KindOf[f.pkt] = k
                      /\ f.age < Window[k] =>
                           Covers(told'[f.pkt], round'[f.pkt], gen'[f.pkt], f.age)
    BY Zenon DEF SlotsTold, Slots
  <2> DEFINE e == ring[k].entries[s]
             f == ring'[k].entries[s]
  <2>1. f = [pkt |-> e.pkt,
             age |-> IF Filled(k, s) /\ e.age < Window[k] THEN e.age + 1 ELSE e.age]
    BY <1>4, Zenon
  <2>2. f.pkt = e.pkt /\ f.age = IF Filled(k, s) /\ e.age < Window[k] THEN e.age + 1 ELSE e.age
    <3> HIDE DEF e, f
    <3> QED BY <2>1
  <2>3. Filled(k, s) BY <2>2, Zenon DEF Filled
  <2>4. /\ e.pkt \in Packets /\ e.age \in 0 .. Window[k] /\ KindOf[e.pkt] = k
        /\ e.age < Window[k] => Covers(told[e.pkt], round[e.pkt], gen[e.pkt], e.age)
    BY <2>3, SlotFacts, Zenon
  <2>5. f.age = IF e.age < Window[k] THEN e.age + 1 ELSE e.age BY <2>2, <2>3, Zenon
  <2> HIDE DEF e, f
  <2>6. SUFFICES ASSUME f.age < Window[k]
                 PROVE  Covers(told'[e.pkt], round'[e.pkt], gen'[e.pkt], f.age)
    BY <2>2, <2>4, Zenon DEF f
  <2>7. e.age < Window[k] /\ f.age = e.age + 1
    <3>1. Window[k] \in Nat BY RingConstants
    <3> QED BY <2>4, <2>5, <2>6, <3>1
  <2>8. PICK g \in told[e.pkt] :
          Late(g) \/ (g.round = round[e.pkt] /\ gen[e.pkt] <= g.lag + e.age)
    BY <2>4, <2>7, Zenon DEF Covers
  <2>9. gen[e.pkt] <= g.lag + e.age => gen'[e.pkt] <= g.lag + f.age
    <3>1. g.lag \in Nat
      <4>1. told[e.pkt] \subseteq [round : Rounds, lag : 0 .. Skew]
        BY <2>4, Zenon DEF IInv, RelayTyped
      <4> QED BY <1>2, <2>8, <4>1
    <3>2. gen[e.pkt] \in Nat /\ gen'[e.pkt] \in Nat /\ gen'[e.pkt] <= gen[e.pkt] + 1
      BY <1>5, <2>4
    <3>3. e.age \in Nat BY <2>4
    <3> QED BY <2>7, <3>1, <3>2, <3>3
  <2> QED BY <1>1, <2>8, <2>9, Zenon DEF Covers
<1>11. (RelayTyped /\ NothingWithheld)' BY <1>1, Zenon DEF IInv, RelayTyped, NothingWithheld
<1> QED BY <1>4, <1>8, <1>9, <1>10, <1>11, Zenon DEF IInv

(* An empty relay satisfies the invariant.                                 *)
LEMMA InitHolds == Init => IInv
<1> SUFFICES ASSUME Init PROVE IInv OBVIOUS
<1>1. ring = [k \in Kinds |-> [entries |-> [s \in Slots(k) |-> Empty], next |-> 0]]
  BY SMTT(30) DEF Init, Slots
<1>2. ASSUME NEW k \in Kinds
      PROVE  /\ ring[k] \in [entries : [Slots(k) -> Entries(k)], next : Slots(k)]
             /\ ring[k].next = 0
             /\ \A s \in Slots(k) : ~Filled(k, s)
  <2>1. RingSize[k] \in Nat \ {0} /\ Window[k] \in Nat BY RingConstants
  <2>2. 0 \in Slots(k) /\ Empty \in Entries(k) BY <2>1 DEF Slots, Entries, Empty
  <2>3. ring[k] = [entries |-> [s \in Slots(k) |-> Empty], next |-> 0] BY <1>1
  <2>4. \A s \in Slots(k) : ring[k].entries[s] = Empty BY <2>3
  <2>5. \A s \in Slots(k) : ~Filled(k, s) BY <2>4, SMTT(30) DEF Filled, Empty
  <2> QED BY <2>2, <2>3, <2>5
<1>3. RingsTyped BY <1>1, <1>2 DEF RingsTyped
<1>4. FilledFirst
  <2>1. ASSUME NEW k \in Kinds PROVE \A s \in Slots(k) : Filled(k, s) <=> s < ring[k].next
    BY <1>2, SMTT(30) DEF Slots
  <2> QED BY <2>1 DEF FilledFirst
<1>5. SlotsTold BY <1>2, Zenon DEF SlotsTold
<1>6. MaxRounds \in Nat \ {0} /\ Period \in Nat BY DedupAssumption, SMTT(30)
<1>7. NetTyped /\ CopiesAged BY <1>6 DEF Init, NetTyped, CopiesAged
<1>8. \A p \in Packets : heard[p] = {} /\ told[p] = {} BY DEF Init
<1>9. RelayTyped
  <2>1. told \in [Packets -> SUBSET [round : Rounds, lag : 0 .. Skew]] BY Zenon DEF Init
  <2>2. heard \in [Packets -> SUBSET Rounds] BY Zenon DEF Init
  <2>3. queue \in Seq(Acks) /\ offered \subseteq Packets BY SMTT(30) DEF Init
  <2>4. client \in BOOLEAN BY Zenon DEF Init
  <2> QED BY <2>1, <2>2, <2>3, <2>4 DEF RelayTyped
<1>10. NothingWithheld BY <1>8, Zenon DEF NothingWithheld, Packets
<1> QED BY <1>3, <1>4, <1>5, <1>7, <1>9, <1>10 DEF IInv

LEMMA StepKeeps == IInv /\ [Next]_vars => IInv'
<1> SUFFICES ASSUME IInv, [Next]_vars PROVE IInv' OBVIOUS
<1>1. ASSUME NEW p \in Packets, PeerSends(p) PROVE IInv' BY <1>1, PeerStep
<1>2. ASSUME NEW c \in copies, ProcessUplinkPacket(c) PROVE IInv'
  <2>1. copies' = copies \ {c} /\ UNCHANGED <<client, round, gen>>
    BY <1>2 DEF ProcessUplinkPacket
  <2>2. CASE Forward(c) /\ heard' = [heard EXCEPT ![c.pkt] = @ \union {c.round}]
    BY <2>1, <2>2, ForwardStep, Zenon
  <2>3. CASE Suppress(c.pkt) /\ heard' = [heard EXCEPT ![c.pkt] = @ \union {c.round}]
    BY <2>1, <2>3, SuppressStep, Zenon
  <2>4. CASE UNCHANGED <<ring, queue, ghosts>> BY <2>1, <2>4, DropStep, SMTT(30) DEF ghosts
  <2> QED BY <1>2, <2>2, <2>3, <2>4 DEF ProcessUplinkPacket
<1>3. ASSUME NEW c \in copies, Lose(c) PROVE IInv'
  BY <1>3, DropStep DEF Lose, relay, ghosts
<1>4. CASE ClientAppears BY <1>4, ClientStep
<1>5. CASE InstantForward BY <1>5, InstantStep
<1>6. CASE Tick BY <1>6, TickStep
<1>7. CASE UNCHANGED vars BY <1>7, DropStep DEF vars, relay, net, ghosts
<1> QED BY <1>1, <1>2, <1>3, <1>4, <1>5, <1>6, <1>7 DEF Next

(* The inductive invariant.                                                *)
LEMMA Invariant == Spec => []IInv
<1> QED BY InitHolds, StepKeeps, PTL DEF Spec

(* Type correctness: a ring never writes outside its slots.                *)
THEOREM RelayIsTyped == Spec => []TypeOK
<1>1. IInv => TypeOK
  BY SMTT(30) DEF IInv, RingsTyped, NetTyped, RelayTyped, TypeOK, Slots, Entries
<1> QED BY <1>1, Invariant, PTL

(* ClientDedup::should_forward_ack and should_forward_nak withhold a       *)
(* repeat only on account of a late copy: of every round of which a copy   *)
(* is decided on, that round or a later one was forwarded, or a copy that  *)
(* lagged by more than Period - NakWindow was; and a forwarded ACK reaches *)
(* the socket or waits in the channel.  No bound is assumed on the skew of *)
(* the copies, and none on the rings.                                      *)
THEOREM OnlyLateCopiesWithhold == Spec => []NothingWithheld
<1>1. IInv => NothingWithheld BY DEF IInv
<1> QED BY <1>1, Invariant, PTL

(* So where no copy lags that far, every repeat reaches the client, as the *)
(* comment on NAK_DEDUP_WINDOW_MS has it.                                  *)
THEOREM RepeatsReachInTime ==
  ASSUME Skew + NakWindow <= Period
  PROVE  Spec => []RepeatsReach
<1>1. IInv => RepeatsReach
  <2> SUFFICES ASSUME IInv, NEW p \in Packets, NEW r \in heard[p]
               PROVE  \E f \in told[p] : f.round >= r
    BY Zenon DEF RepeatsReach
  <2>1. PICK f \in told[p] : f.round >= r \/ f.lag + NakWindow > Period
    BY Zenon DEF IInv, NothingWithheld
  <2>2. f.lag \in 0 .. Skew
    <3>1. told[p] \subseteq [round : Rounds, lag : 0 .. Skew] BY Zenon DEF IInv, RelayTyped
    <3> QED BY <2>1, <3>1
  <2>3. ~(f.lag + NakWindow > Period) BY <2>2, DedupAssumption
  <2> QED BY <2>1, <2>3, Zenon
<1> QED BY <1>1, Invariant, PTL
-----------------------------------------------------------------------------
(* The rings implement the log *)

\* A ring es with next slot x, of n slots: how it is filled, how far, the i-th slot
\* back, and the log it stands for.
IsFilled(es, x, n) ==
  \/ \A s \in 0 .. n - 1 : es[s].pkt # "none"
  \/ \A s \in 0 .. n - 1 : es[s].pkt # "none" <=> s < x

HowMany(es, x, n) == IF \A s \in 0 .. n - 1 : es[s].pkt # "none" THEN n ELSE x

Back(x, n, i) == (x + n - i) % n

RingSeq(es, x, n) ==
  [i \in 1 .. (IF es[x].pkt = "none" THEN x ELSE n) |-> es[(x + n - i) % n]]

(* The log of a ring has an entry for each filled slot.                    *)
LEMMA RingSeqIs ==
  ASSUME NEW n \in Nat \ {0}, NEW x \in 0 .. n - 1, NEW es, IsFilled(es, x, n)
  PROVE  /\ RingSeq(es, x, n) = [i \in 1 .. HowMany(es, x, n) |-> es[Back(x, n, i)]]
         /\ HowMany(es, x, n) \in 0 .. n
         /\ \A i \in 1 .. HowMany(es, x, n) :
              Back(x, n, i) \in 0 .. n - 1 /\ es[Back(x, n, i)].pkt # "none"
<1> DEFINE F == {s \in 0 .. n - 1 : es[s].pkt # "none"}
           m == HowMany(es, x, n)
<1>1. F = 0 .. m - 1 /\ m \in 0 .. n
  <2>1. CASE \A s \in 0 .. n - 1 : es[s].pkt # "none"
    <3>1. m = n BY <2>1 DEF HowMany
    <3>2. F = 0 .. n - 1 BY <2>1
    <3> QED BY <3>1, <3>2
  <2>2. CASE ~(\A s \in 0 .. n - 1 : es[s].pkt # "none")
    <3>1. m = x BY <2>2 DEF HowMany
    <3>2. \A s \in 0 .. n - 1 : es[s].pkt # "none" <=> s < x BY <2>2 DEF IsFilled
    <3>3. F = 0 .. x - 1 BY <3>2
    <3> QED BY <3>1, <3>3
  <2> QED BY <2>1, <2>2
<1>2. (IF es[x].pkt = "none" THEN x ELSE n) = m
  <2>1. x \in F <=> es[x].pkt # "none" OBVIOUS
  <2>2. m = n \/ m = x BY SMTT(30) DEF HowMany
  <2> HIDE DEF F, m
  <2> QED BY <1>1, <2>1, <2>2
<1>3. RingSeq(es, x, n) = [i \in 1 .. m |-> es[Back(x, n, i)]]
  <2> HIDE DEF m
  <2> QED BY <1>2, SMTT(30) DEF RingSeq, Back
<1>4. ASSUME NEW i \in 1 .. m
      PROVE  Back(x, n, i) \in 0 .. n - 1 /\ es[Back(x, n, i)].pkt # "none"
  <2> HIDE DEF m
  <2>1. i \in 1 .. n BY <1>1
  <2>2. /\ Back(x, n, i) = IF i <= x THEN x - i ELSE x + n - i
        /\ Back(x, n, i) \in 0 .. n - 1
    BY <2>1, SlotBack, Zenon DEF Back
  <2>3. Back(x, n, i) \in 0 .. m - 1
    <3>1. m = n \/ m = x BY DEF m, HowMany
    <3> QED BY <1>1, <2>1, <2>2, <3>1
  <2> QED BY <1>1, <2>2, <2>3, SMTT(30)
<1> HIDE DEF F
<1> QED BY <1>1, <1>3, <1>4, SMTT(30)

(* A slot that is filled is in the log.                                    *)
LEMMA SlotInLog ==
  ASSUME NEW n \in Nat \ {0}, NEW x \in 0 .. n - 1, NEW es, IsFilled(es, x, n),
         NEW s \in 0 .. n - 1, es[s].pkt # "none"
  PROVE  \E i \in 1 .. HowMany(es, x, n) : Back(x, n, i) = s
<1> DEFINE i == IF s < x THEN x - s ELSE x + n - s
<1>1. i \in 1 .. n /\ (s < x => i <= x) /\ (s >= x => i > x) BY SMTT(30)
<1>2. Back(x, n, i) = IF i <= x THEN x - i ELSE x + n - i
  <2> HIDE DEF i
  <2> QED BY <1>1, SlotBack, SMTT(30) DEF Back
<1>3. Back(x, n, i) = s BY <1>1, <1>2, SMTT(30)
<1>4. i \in 1 .. HowMany(es, x, n)
  <2>1. CASE \A t \in 0 .. n - 1 : es[t].pkt # "none" BY <1>1, <2>1, SMTT(30) DEF HowMany
  <2>2. CASE ~(\A t \in 0 .. n - 1 : es[t].pkt # "none")
    <3>1. s < x BY <2>2, SMTT(30) DEF IsFilled
    <3> QED BY <1>1, <2>2, <3>1, SMTT(30) DEF HowMany
  <2> QED BY <2>1, <2>2, SMTT(30)
<1> HIDE DEF i
<1> QED BY <1>3, <1>4, SMTT(30)

(* Writing the next slot puts the entry at the head of the log, and drops  *)
(* the oldest one of a full ring.                                          *)
LEMMA WriteIsPrepend ==
  ASSUME NEW n \in Nat \ {0}, NEW x \in 0 .. n - 1, NEW es, IsFilled(es, x, n),
         NEW e, e.pkt # "none",
         NEW fs, NEW y, y = Advance(x, n), IsFilled(fs, y, n),
         \A s \in 0 .. n - 1 : fs[s] = IF s = x THEN e ELSE es[s]
  PROVE  LET m == HowMany(es, x, n) IN
         RingSeq(fs, y, n) = Prepended(e, RingSeq(es, x, n), m, n)
<1> DEFINE m == HowMany(es, x, n)
           l == IF m < n THEN m + 1 ELSE n
<1>1. /\ RingSeq(es, x, n) = [i \in 1 .. m |-> es[Back(x, n, i)]] /\ m \in 0 .. n
      /\ \A i \in 1 .. m : Back(x, n, i) \in 0 .. n - 1
  BY RingSeqIs, SMTT(30)
<1>2. y \in 0 .. n - 1 /\ y = IF x = n - 1 THEN 0 ELSE x + 1 BY AdvanceSlot, SMTT(30)
<1>3. HowMany(fs, y, n) = l
  <2>1. CASE \A s \in 0 .. n - 1 : es[s].pkt # "none"
    <3>1. \A s \in 0 .. n - 1 : fs[s].pkt # "none" BY <2>1, SMTT(30)
    <3>2. m = n BY <2>1, SMTT(30) DEF HowMany
    <3>3. HowMany(fs, y, n) = n BY <3>1, SMTT(30) DEF HowMany
    <3> QED BY <3>2, <3>3, SMTT(30)
  <2>2. CASE ~(\A s \in 0 .. n - 1 : es[s].pkt # "none")
    <3>1. m = x BY <2>2, SMTT(30) DEF HowMany
    <3>2. \A s \in 0 .. n - 1 : es[s].pkt # "none" <=> s < x BY <2>2, SMTT(30) DEF IsFilled
    <3>3. \A s \in 0 .. n - 1 : fs[s].pkt # "none" <=> s <= x BY <3>2, SMTT(30)
    <3>4. CASE x = n - 1
      <4>1. HowMany(fs, y, n) = n BY <3>3, <3>4, SMTT(30) DEF HowMany
      <4> QED BY <3>1, <3>4, <4>1, SMTT(30)
    <3>5. CASE x # n - 1
      <4>1. n - 1 \in 0 .. n - 1 /\ ~(n - 1 <= x) BY <3>5, SMTT(30)
      <4>2. HowMany(fs, y, n) = y BY <3>3, <4>1, SMTT(30) DEF HowMany
      <4> QED BY <1>2, <3>1, <3>5, <4>2, SMTT(30)
    <3> QED BY <3>4, <3>5, SMTT(30)
  <2> QED BY <2>1, <2>2, SMTT(30)
<1>4. RingSeq(fs, y, n) = [i \in 1 .. l |-> fs[Back(y, n, i)]]
  <2> HIDE DEF l
  <2>1. RingSeq(fs, y, n) = [i \in 1 .. HowMany(fs, y, n) |-> fs[Back(y, n, i)]]
    BY <1>2, RingSeqIs, ZenonT(40)
  <2> QED BY <1>3, <2>1
<1> HIDE DEF m
<1>5. l \in 1 .. n /\ l <= m + 1 BY <1>1
<1>6. ASSUME NEW i \in 1 .. l
      PROVE  fs[Back(y, n, i)] = IF i = 1 THEN e ELSE RingSeq(es, x, n)[i - 1]
  <2> HIDE DEF l
  <2>1. i \in 1 .. n BY <1>5
  <2>2. Back(y, n, i) = IF i <= y THEN y - i ELSE y + n - i
    BY <1>2, <2>1, SlotBack, SMTT(30) DEF Back
  <2>3. CASE i = 1
    <3>1. Back(y, n, i) = x BY <1>2, <2>2, <2>3, SMTT(30)
    <3> QED BY <2>3, <3>1, SMTT(30)
  <2>4. CASE i # 1
    <3>1. i - 1 \in 1 .. m /\ i - 1 \in 1 .. n /\ i - 1 < n BY <1>1, <1>5, <2>1, <2>4, SMTT(30)
    <3>2. Back(x, n, i - 1) = IF i - 1 <= x THEN x - (i - 1) ELSE x + n - (i - 1)
      BY <3>1, SlotBack, SMTT(30) DEF Back
    <3>3. Back(y, n, i) = Back(x, n, i - 1) /\ Back(x, n, i - 1) # x
      BY <1>2, <2>1, <2>2, <2>4, <3>1, <3>2, SMTT(30)
    <3>4. Back(x, n, i - 1) \in 0 .. n - 1 BY <1>1, <3>1, SMTT(30)
    <3>5. fs[Back(y, n, i)] = es[Back(x, n, i - 1)] BY <3>3, <3>4, SMTT(30)
    <3>6. RingSeq(es, x, n)[i - 1] = es[Back(x, n, i - 1)] BY <1>1, <3>1, SMTT(30)
    <3> QED BY <2>4, <3>5, <3>6, SMTT(30)
  <2> QED BY <2>3, <2>4
<1> HIDE DEF l
<1>7. RingSeq(fs, y, n) = [i \in 1 .. l |-> IF i = 1 THEN e ELSE RingSeq(es, x, n)[i - 1]]
  BY <1>4, <1>6, SMTT(30)
<1> QED BY <1>7, SMTT(30) DEF l, m, Prepended

(* A ring of the sender and the log it stands for.                         *)
LEMMA RingIsLog ==
  ASSUME RingsTyped, FilledFirst, NEW k \in Kinds
  PROVE  /\ RingSize[k] \in Nat \ {0} /\ ring[k].next \in 0 .. RingSize[k] - 1
         /\ ring[k].entries \in [Slots(k) -> Entries(k)]
         /\ IsFilled(ring[k].entries, ring[k].next, RingSize[k])
         /\ Unrolled(k) = RingSeq(ring[k].entries, ring[k].next, RingSize[k])
<1>1. RingSize[k] \in Nat \ {0} BY RingConstants
<1>2. ring[k] \in [entries : [Slots(k) -> Entries(k)], next : Slots(k)] BY SMTT(30) DEF RingsTyped
<1>3. IsFilled(ring[k].entries, ring[k].next, RingSize[k])
  BY SMTT(30) DEF FilledFirst, Filled, IsFilled, Slots
<1>4. Unrolled(k) = RingSeq(ring[k].entries, ring[k].next, RingSize[k])
  BY SMTT(30) DEF Unrolled, RingSeq
<1> QED BY <1>1, <1>2, <1>3, <1>4, Zenon DEF Slots

(* The same after a step.                                                  *)
LEMMA RingIsLogNext ==
  ASSUME RingsTyped', FilledFirst', NEW k \in Kinds
  PROVE  /\ ring'[k].next \in 0 .. RingSize[k] - 1
         /\ IsFilled(ring'[k].entries, ring'[k].next, RingSize[k])
         /\ Unrolled(k)' = RingSeq(ring'[k].entries, ring'[k].next, RingSize[k])
<1>1. ring'[k] \in [entries : [Slots(k) -> Entries(k)], next : Slots(k)]
  BY SMTT(30) DEF RingsTyped, Slots, Entries
<1>2. IsFilled(ring'[k].entries, ring'[k].next, RingSize[k])
  BY SMTT(30) DEF FilledFirst, Filled, IsFilled, Slots
<1>3. Unrolled(k)' = RingSeq(ring'[k].entries, ring'[k].next, RingSize[k])
  BY DEF Unrolled, RingSeq
<1> QED BY <1>1, <1>2, <1>3, Zenon DEF Slots

(* The log of a ring, entry by entry.                                      *)
LEMMA LogEntries ==
  ASSUME RingsTyped, FilledFirst, NEW k \in Kinds
  PROVE  LET n == RingSize[k]
             m == HowMany(ring[k].entries, ring[k].next, n) IN
         /\ Unrolled(k) = [i \in 1 .. m |-> ring[k].entries[Back(ring[k].next, n, i)]]
         /\ m \in 0 .. n /\ DOMAIN Unrolled(k) = 1 .. m
         /\ \A i \in 1 .. m :
              /\ Back(ring[k].next, n, i) \in Slots(k)
              /\ Filled(k, Back(ring[k].next, n, i))
              /\ Unrolled(k)[i] = ring[k].entries[Back(ring[k].next, n, i)]
              /\ Unrolled(k)[i] \in Entries(k)
         /\ Unrolled(k) \in Seq(Entries(k)) /\ Len(Unrolled(k)) = m
<1> DEFINE n == RingSize[k]
           es == ring[k].entries
           x == ring[k].next
           m == HowMany(es, x, n)
<1>1. /\ n \in Nat \ {0} /\ x \in 0 .. n - 1 /\ es \in [Slots(k) -> Entries(k)]
      /\ IsFilled(es, x, n) /\ Unrolled(k) = RingSeq(es, x, n)
  BY RingIsLog, Zenon
<1> HIDE DEF n, es, x
<1>2. /\ RingSeq(es, x, n) = [i \in 1 .. m |-> es[Back(x, n, i)]]
      /\ m \in 0 .. n
      /\ \A i \in 1 .. m : Back(x, n, i) \in 0 .. n - 1 /\ es[Back(x, n, i)].pkt # "none"
  BY <1>1, RingSeqIs, SMTT(30)
<1> HIDE DEF m
<1>3. \A i \in 1 .. m : Back(x, n, i) \in Slots(k) BY <1>2, SMTT(30) DEF Slots, n
<1>4. \A i \in 1 .. m : Unrolled(k)[i] = es[Back(x, n, i)] /\ es[Back(x, n, i)] \in Entries(k)
  BY <1>1, <1>2, <1>3, SMTT(30)
<1>5. \A i \in 1 .. m : Filled(k, Back(x, n, i)) BY <1>2 DEF Filled, es
<1>6. Unrolled(k) \in Seq(Entries(k)) /\ Len(Unrolled(k)) = m
  <2>1. Unrolled(k) = [i \in 1 .. m |-> es[Back(x, n, i)]] BY <1>1, <1>2, SMTT(30)
  <2>2. \A i \in 1 .. m : es[Back(x, n, i)] \in Entries(k) BY <1>4, SMTT(30)
  <2>3. m \in Nat BY <1>1, <1>2, SMTT(30)
  <2> QED BY <2>1, <2>2, <2>3, SMTT(30)
<1> QED BY <1>1, <1>2, <1>3, <1>4, <1>5, <1>6, ZenonT(40) DEF n, es, x, m

(* The rings and their logs suppress the same packets.                     *)
LEMMA SameVerdict ==
  ASSUME IInv, NEW p \in Packets
  PROVE  Log!Suppresses(p) <=> SeenRecently(p)
<1> DEFINE k == KindOf[p]
           n == RingSize[k]
           m == HowMany(ring[k].entries, ring[k].next, n)
<1>1. k \in Kinds /\ p # "none" BY RingConstants
<1>2. RingsTyped /\ FilledFirst BY SMTT(30) DEF IInv
<1> HIDE DEF k
<1>3. /\ DOMAIN Unrolled(k) = 1 .. m
      /\ \A i \in 1 .. m :
           /\ Back(ring[k].next, n, i) \in Slots(k)
           /\ Unrolled(k)[i] = ring[k].entries[Back(ring[k].next, n, i)]
  BY <1>1, <1>2, LogEntries, Zenon
<1>4. DOMAIN ring[k].entries = Slots(k) BY <1>1, <1>2, RingIsLog, Zenon
<1>5. Log!Suppresses(p) <=>
        \E i \in 1 .. m : Unrolled(k)[i].pkt = p /\ Unrolled(k)[i].age < Window[k]
  BY <1>1, <1>3, Zenon DEF Log!Suppresses, k
<1>6. SeenRecently(p) <=>
        \E s \in Slots(k) : ring[k].entries[s].pkt = p /\ ring[k].entries[s].age < Window[k]
  BY <1>4, Zenon DEF SeenRecently, RingOf, k
<1>7. ASSUME NEW i \in 1 .. m, Unrolled(k)[i].pkt = p, Unrolled(k)[i].age < Window[k]
      PROVE  \E s \in Slots(k) :
               ring[k].entries[s].pkt = p /\ ring[k].entries[s].age < Window[k]
  BY <1>3, <1>7, Zenon
<1>8. ASSUME NEW s \in Slots(k), ring[k].entries[s].pkt = p, ring[k].entries[s].age < Window[k]
      PROVE  \E i \in 1 .. m : Unrolled(k)[i].pkt = p /\ Unrolled(k)[i].age < Window[k]
  <2>1. s \in 0 .. n - 1 /\ ring[k].entries[s].pkt # "none" BY <1>1, <1>8, SMTT(30) DEF Slots
  <2>2. PICK i \in 1 .. m : Back(ring[k].next, n, i) = s
    BY <1>1, <1>2, <2>1, RingIsLog, SlotInLog, SMTT(30)
  <2> QED BY <1>3, <1>8, <2>2, Zenon
<1> HIDE DEF m, n
<1> QED BY <1>5, <1>6, <1>7, <1>8, Zenon
(* A recorded forward is prepended to the log of its kind.                 *)
LEMMA RecordIsForward ==
  ASSUME IInv, IInv', NEW p \in Packets, Record(p), ~SeenRecently(p),
         decision' = [pkt |-> p, fwd |-> TRUE]
  PROVE  Log!Forward(p)
<1> DEFINE k == KindOf[p]
           n == RingSize[k]
           e == [pkt |-> p, age |-> 0]
           q == Unrolled(k)
           recent == [j \in Kinds |-> Unrolled(j)]
<1>1. k \in Kinds /\ n \in Nat \ {0} /\ p # "none" /\ Window[k] \in Nat \ {0}
  BY RingConstants, SMTT(30)
<1>2. RingsTyped /\ FilledFirst /\ RingsTyped' /\ FilledFirst' BY SMTT(30) DEF IInv
<1>3. /\ \A j \in Kinds \ {k} : ring'[j] = ring[j]
      /\ ring'[k].next = Advance(ring[k].next, n)
      /\ \A s \in Slots(k) :
           ring'[k].entries[s] = IF s = ring[k].next THEN e ELSE ring[k].entries[s]
  BY <1>2, RecordWrites, SMTT(30)
<1> HIDE DEF k
<1>4. ASSUME NEW j \in Kinds \ {k} PROVE Unrolled(j)' = Unrolled(j)
  <2>1. Unrolled(j) = RingSeq(ring[j].entries, ring[j].next, RingSize[j])
    BY <1>2, RingIsLog, Zenon
  <2>2. Unrolled(j)' = RingSeq(ring'[j].entries, ring'[j].next, RingSize[j])
    BY <1>2, RingIsLogNext, Zenon
  <2>3. ring'[j] = ring[j] BY <1>3, Zenon
  <2> QED BY <2>1, <2>2, <2>3, Zenon
<1>5. Unrolled(k)' = Log!Latest(<<e>> \o q, n)
  <2> DEFINE m == HowMany(ring[k].entries, ring[k].next, n)
  <2>1. /\ ring[k].next \in 0 .. n - 1 /\ IsFilled(ring[k].entries, ring[k].next, n)
        /\ q = RingSeq(ring[k].entries, ring[k].next, n)
    BY <1>1, <1>2, RingIsLog, ZenonT(40)
  <2>2. /\ IsFilled(ring'[k].entries, ring'[k].next, n)
        /\ q' = RingSeq(ring'[k].entries, ring'[k].next, n)
    BY <1>1, <1>2, RingIsLogNext, Zenon
  <2>3. q \in Seq(Entries(k)) /\ Len(q) = m /\ m \in 0 .. n
    BY <1>1, <1>2, LogEntries, ZenonT(40)
  <2>4. e \in Entries(k) /\ e.pkt # "none"
    <3>1. 0 \in 0 .. Window[k] BY <1>1, SMTT(30)
    <3>2. e \in [pkt : Packets \union {"none"}, age : 0 .. Window[k]] BY <3>1, SMTT(30)
    <3> QED BY <1>1, <3>2, SMTT(30) DEF Entries
  <2>5. \A s \in 0 .. n - 1 :
          ring'[k].entries[s] = IF s = ring[k].next THEN e ELSE ring[k].entries[s]
    BY <1>3, Zenon DEF Slots
  <2> HIDE DEF n, e, q
  <2>6. q' = Prepended(e, q, m, n)
    <3> DEFINE x == ring[k].next
               es == ring[k].entries
               y == ring'[k].next
               fs == ring'[k].entries
    <3>1. /\ x \in 0 .. n - 1 /\ IsFilled(es, x, n) /\ y = Advance(x, n)
          /\ IsFilled(fs, y, n)
          /\ \A s \in 0 .. n - 1 : fs[s] = IF s = x THEN e ELSE es[s]
      BY <1>3, <2>1, <2>2, <2>5, ZenonT(40) DEF n
    <3>2. m = HowMany(es, x, n) /\ q = RingSeq(es, x, n) /\ q' = RingSeq(fs, y, n)
      BY <2>1, <2>2, ZenonT(40)
    <3> HIDE DEF x, es, y, fs, m
    <3>3. RingSeq(fs, y, n) = Prepended(e, RingSeq(es, x, n), HowMany(es, x, n), n)
      BY <1>1, <2>4, <3>1, WriteIsPrepend, Zenon
    <3> QED BY <3>2, <3>3
  <2> HIDE DEF m
  <2>7. Log!Latest(<<e>> \o q, n) = Prepended(e, q, m, n)
    <3>1. Len(q) <= n BY <1>1, <2>3, SMTT(30)
    <3> QED BY <1>1, <2>3, <2>4, <3>1, LatestOf, SMTT(30)
  <2>8. q' = Log!Latest(<<e>> \o q, n) BY <2>6, <2>7, SMTT(30)
  <2> QED BY <2>8, SMTT(30) DEF q
<1>6. recent' = [recent EXCEPT ![k] = Log!Latest(<<e>> \o recent[k], n)]
  <2>1. recent[k] = q BY <1>1
  <2> HIDE DEF q, n, e
  <2>2. [recent EXCEPT ![k] = Log!Latest(<<e>> \o recent[k], n)]
          = [j \in Kinds |-> IF j = k THEN Log!Latest(<<e>> \o q, n) ELSE Unrolled(j)]
    BY <1>1, <2>1, ZenonT(40)
  <2>3. \A j \in Kinds :
          Unrolled(j)' = IF j = k THEN Log!Latest(<<e>> \o q, n) ELSE Unrolled(j)
    BY <1>4, <1>5
  <2>4. recent' = [j \in Kinds |-> Unrolled(j)'] OBVIOUS
  <2> QED BY <2>2, <2>3, <2>4, SMTT(30)
<1>7. ~Log!Suppresses(p) BY SameVerdict, SMTT(30)
<1> QED BY <1>6, <1>7, Zenon DEF Log!Forward, k

(* A suppressed copy leaves the logs alone.                                *)
LEMMA SuppressIsSuppress ==
  ASSUME IInv, NEW p \in Packets, Suppress(p)
  PROVE  Log!Suppress(p)
<1>1. Log!Suppresses(p) BY SameVerdict DEF Suppress
<1>2. ring' = ring /\ decision' = [pkt |-> p, fwd |-> FALSE] BY SMTT(30) DEF Suppress
<1>3. \A j \in Kinds : Unrolled(j)' = Unrolled(j) BY <1>2, Zenon DEF Unrolled
<1>4. [j \in Kinds |-> Unrolled(j)]' = [j \in Kinds |-> Unrolled(j)] BY <1>3
<1> QED BY <1>1, <1>2, <1>4, SMTT(30) DEF Log!Suppress

(* Time ages the forwards of every log.                                    *)
LEMMA TickIsTick ==
  ASSUME IInv, IInv', Tick
  PROVE  Log!Tick
<1> DEFINE recent == [j \in Kinds |-> Unrolled(j)]
           Aged(f, k) == [f EXCEPT !.age = IF @ < Window[k] THEN @ + 1 ELSE @]
<1>1. RingsTyped /\ FilledFirst /\ RingsTyped' /\ FilledFirst' BY DEF IInv
<1>2. /\ \A k \in Kinds : ring'[k].next = ring[k].next
      /\ \A k \in Kinds : \A s \in Slots(k) :
           LET e == ring[k].entries[s] IN
           ring'[k].entries[s] =
             [pkt |-> e.pkt,
              age |-> IF Filled(k, s) /\ e.age < Window[k] THEN e.age + 1 ELSE e.age]
  BY <1>1, TickAges, ZenonT(40)
<1>3. ASSUME NEW k \in Kinds
      PROVE  Unrolled(k)' = [i \in DOMAIN Unrolled(k) |-> Aged(Unrolled(k)[i], k)]
  <2> DEFINE n == RingSize[k]
             x == ring[k].next
             es == ring[k].entries
             fs == ring'[k].entries
             m == HowMany(es, x, n)
  <2>1. n \in Nat \ {0} /\ x \in 0 .. n - 1 BY <1>1, RingIsLog, Zenon
  <2>2. /\ DOMAIN Unrolled(k) = 1 .. m
        /\ \A i \in 1 .. m :
             /\ Back(x, n, i) \in Slots(k) /\ Filled(k, Back(x, n, i))
             /\ Unrolled(k)[i] = es[Back(x, n, i)] /\ Unrolled(k)[i] \in Entries(k)
    BY <1>1, LogEntries, ZenonT(40)
  <2>3. IsFilled(fs, x, n) /\ Unrolled(k)' = RingSeq(fs, x, n)
    BY <1>1, <1>2, RingIsLogNext, ZenonT(40)
  <2>4. HowMany(fs, x, n) = m
    <3>1. ASSUME NEW s \in 0 .. n - 1 PROVE fs[s].pkt = es[s].pkt
      <4>1. s \in Slots(k) BY DEF Slots
      <4> HIDE DEF n, x, m
      <4>2. PICK a : fs[s] = [pkt |-> es[s].pkt, age |-> a] BY <1>2, <4>1, ZenonT(40)
      <4> HIDE DEF fs, es
      <4> QED BY ONLY <4>2
    <3> HIDE DEF n, x, es, fs
    <3> QED BY <3>1, SMTT(30) DEF HowMany
  <2>5. Unrolled(k)' = [i \in 1 .. m |-> fs[Back(x, n, i)]]
    <3> HIDE DEF n, x, fs, m
    <3>1. RingSeq(fs, x, n) = [i \in 1 .. HowMany(fs, x, n) |-> fs[Back(x, n, i)]]
      BY <2>1, <2>3, RingSeqIs, SMTT(30), ZenonT(40)
    <3> QED BY <2>3, <2>4, <3>1, Zenon
  <2>6. ASSUME NEW i \in 1 .. m
        PROVE  fs[Back(x, n, i)] = Aged(Unrolled(k)[i], k)
    <3> DEFINE s == Back(x, n, i)
    <3>1. s \in Slots(k) /\ Filled(k, s) /\ Unrolled(k)[i] = es[s] /\ es[s] \in Entries(k)
      BY <2>2, Zenon
    <3> HIDE DEF s, n, x, m
    <3>2. fs[s] = [pkt |-> es[s].pkt,
                   age |-> IF es[s].age < Window[k] THEN es[s].age + 1 ELSE es[s].age]
      BY <1>2, <3>1, Zenon
    <3> HIDE DEF es, fs
    <3>3. Aged(es[s], k) = [pkt |-> es[s].pkt,
                   age |-> IF es[s].age < Window[k] THEN es[s].age + 1 ELSE es[s].age]
      BY <3>1, SMTT(30) DEF Entries
    <3> QED BY <3>1, <3>2, <3>3 DEF s
  <2> HIDE DEF n, x, es, fs, m, Aged
  <2> QED BY <2>2, <2>5, <2>6, ZenonT(40)
<1>4. recent' = [k \in Kinds |-> [i \in DOMAIN recent[k] |-> Aged(recent[k][i], k)]]
  <2> HIDE DEF Aged
  <2>1. recent' = [k \in Kinds |-> Unrolled(k)'] OBVIOUS
  <2>2. \A k \in Kinds : recent[k] = Unrolled(k) OBVIOUS
  <2> QED BY <1>3, <2>1, <2>2
<1>5. decision' = decision BY DEF Tick
<1> QED BY <1>4, <1>5 DEF Log!Tick

(* A step that leaves the rings and the decision alone is no step of the   *)
(* log.                                                                    *)
LEMMA OtherStep ==
  ASSUME ring' = ring, decision' = decision
  PROVE  UNCHANGED Log!vars
<1>1. \A j \in Kinds : Unrolled(j)' = Unrolled(j) BY DEF Unrolled
<1>2. [j \in Kinds |-> Unrolled(j)]' = [j \in Kinds |-> Unrolled(j)] BY <1>1
<1> QED BY <1>2, SMTT(30) DEF Log!vars

(* Every step of the rings is a step of the log, or none.                  *)
LEMMA StepIsLogStep == IInv /\ IInv' /\ [Next]_vars => [Log!Next]_(Log!vars)
<1> SUFFICES ASSUME IInv, IInv', [Next]_vars PROVE [Log!Next]_(Log!vars) BY SMTT(30)
<1>1. ASSUME NEW c \in copies, ProcessUplinkPacket(c) PROVE [Log!Next]_(Log!vars)
  <2>1. c.pkt \in Packets BY CopyFacts
  <2>2. CASE Forward(c)
    <3>1. Log!Forward(c.pkt) BY <2>1, <2>2, RecordIsForward DEF Forward
    <3> QED BY <2>1, <3>1, SMTT(30) DEF Log!Next
  <2>3. CASE Suppress(c.pkt)
    <3>1. Log!Suppress(c.pkt) BY <2>1, <2>3, SuppressIsSuppress
    <3> QED BY <2>1, <3>1 DEF Log!Next
  <2>4. CASE UNCHANGED <<ring, queue, ghosts>> BY <2>4, OtherStep DEF ghosts
  <2> QED BY <1>1, <2>2, <2>3, <2>4, SMTT(30) DEF ProcessUplinkPacket
<1>2. CASE Tick BY <1>2, TickIsTick, SMTT(30) DEF Log!Next
<1>3. CASE \/ \E p \in Packets : PeerSends(p)
           \/ \E c \in copies : Lose(c)
           \/ ClientAppears \/ InstantForward
  BY <1>3, OtherStep, SMTT(30) DEF PeerSends, Lose, ClientAppears, InstantForward, relay, ghosts
<1>4. CASE UNCHANGED vars BY <1>4, OtherStep, SMTT(30) DEF vars, relay, ghosts
<1> QED BY <1>1, <1>2, <1>3, <1>4 DEF Next

(* The rings start as empty logs.                                          *)
LEMMA InitIsLogInit == Init => Log!Init
<1> SUFFICES ASSUME Init PROVE Log!Init OBVIOUS
<1>1. decision = [pkt |-> "none", fwd |-> FALSE] BY DEF Init
<1>2. ASSUME NEW k \in Kinds PROVE Unrolled(k) = << >>
  <2>1. RingSize[k] \in Nat \ {0} BY RingConstants, SMTT(30)
  <2>2. ring[k].next = 0 /\ ring[k].entries[0].pkt = "none" BY <2>1, SMTT(30) DEF Init, Empty
  <2>3. Unrolled(k) = [i \in 1 .. 0 |-> ring[k].entries[(0 + RingSize[k] - i) % RingSize[k]]]
    BY <2>2 DEF Unrolled
  <2> QED BY <2>3, SMTT(30)
<1>3. [k \in Kinds |-> Unrolled(k)] = [k \in Kinds |-> << >>] BY <1>2
<1> QED BY <1>1, <1>3, SMTT(30) DEF Log!Init, Log!None

(* The rings of ClientDedup implement the log of the latest forwards: for  *)
(* rings of any size and windows of any length every copy is forwarded or  *)
(* suppressed as the log of RelayLog decides, so overwriting the oldest    *)
(* slot forgets the oldest forward and nothing else.                       *)
THEOREM RingsImplementLog == Spec => RelaysAsLog
<1> QED BY InitIsLogInit, StepIsLogStep, Invariant, PTL DEF Spec, RelaysAsLog, Log!Spec
=============================================================================
