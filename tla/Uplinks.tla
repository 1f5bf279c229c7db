------------------------------ MODULE Uplinks ------------------------------
(***************************************************************************)
(* The set of uplinks and everything kept beside it: the connections       *)
(* vector, the I/O map and the reader tasks keyed by connection id, and    *)
(* the positions other state refers to links by (last_selected_idx, the    *)
(* REG3 grants of the registration manager).  A SIGHUP re-reads the IP     *)
(* file and queues the change; the housekeeping arm reconnects, re-homes,  *)
(* applies the queued change and syncs the readers in one handler.         *)
(*                                                                         *)
(* The timers that decide which links are timed out, due for a retry or    *)
(* dead for long enough to re-home are modelled in Registration; here each *)
(* tick chooses.  REG_ERR and failed sends, which also take a link down,   *)
(* are left to it too.  Positions count from 1, and 0 is None.             *)
(***************************************************************************)
EXTENDS Naturals, Sequences, FiniteSets, FiniteSetsExt, Functions, SequencesExt

CONSTANTS
  Ips,          \* local addresses
  Files,        \* contents the IP file may have: sequences of lines
  WeightMax,    \* LINK_WEIGHT_MAX
  Answers,      \* answers of the receiver's name, in order
  MaxIds,       \* bound: connections ever made
  MaxGen,       \* bound: sockets a connection ever has
  MaxMoves,     \* bound: changes of the answer
  MaxChan,      \* bound: packets in the uplink channel
  ReadersEnd    \* whether reader tasks may end

Garbage == [ip |-> "garbage", weight |-> 0]
Ids == 1..MaxIds

\* Lines are garbage or an address with the weight written after it (0 also
\* stands for one that does not parse, and for none).
ASSUME FilesAssumption ==
  \A f \in Files : \A i \in DOMAIN f : f[i] = Garbage \/ f[i] \in [ip : Ips, weight : Nat]

VARIABLES
  conns,     \* the connections, in order
  io,        \* ConnIoMap, by id: the address to dial, the one the socket sends to
             \* (its peer, fixed when it is opened), and the socket's generation
  readers,   \* reader_handles: the socket a reader reads and whether it runs
  awaiting,  \* positions with a REG3 grant (awaiting_reg3)
  lastSel,   \* last_selected_idx
  pending,   \* pending_changes: whether there is one, and its weighted addresses
  chan,      \* packets the readers have put in the uplink channel
  nextId,    \* ids are random; the model counts
  dns,       \* what the receiver's name answers with
  moves,     \* changes of that answer so far
  reg2,      \* history: sockets whose REG2 is unanswered, as <<id, generation>>
  selId,     \* history: the link last_selected_idx was set for
  raw,       \* history: the lines of the file last applied
  moved,     \* history: the links last re-homed, and the socket each had
  refused,   \* history: a REG3 that answers a REG2 of a link was refused, and not
             \* one of a receiver the bond has left
  stale      \* history: a REG3 read from a socket since replaced was accepted

ghosts == <<reg2, selId, raw, moved, refused, stale>>
vars == <<conns, io, readers, awaiting, lastSel, pending, chan, nextId, dns, moves, ghosts>>

IdsOf(cs) == {cs[i].id : i \in DOMAIN cs}

-----------------------------------------------------------------------------
(* Reading the IP file: analyze_ip_reload_text *)

ParseWeight(w) == IF w = 0 THEN 1 ELSE IF w > WeightMax THEN WeightMax ELSE w

\* normalise_link_weights: the lowest becomes 1, differences are kept.
Normalise(ls) ==
  LET lowest == Min({ls[i].weight : i \in DOMAIN ls})
  IN  [i \in DOMAIN ls |-> [ls[i] EXCEPT !.weight = @ - lowest + 1]]

Valid(f) ==
  LET ls == SelectSeq(f, LAMBDA l : l # Garbage)
  IN  [i \in DOMAIN ls |-> [ls[i] EXCEPT !.weight = ParseWeight(@)]]

\* weight_for: the first line that names the address.
WeightFor(ls, ip) ==
  IF \E i \in DOMAIN ls : ls[i].ip = ip
  THEN ls[Min({i \in DOMAIN ls : ls[i].ip = ip})].weight
  ELSE 1

-----------------------------------------------------------------------------
(* apply_connection_changes and what it calls *)

\* last_selected_idx after the reload removed links, or did not.
SelectionKept(removed) == lastSel
SelectionAfter(removed) == IF removed THEN 0 ELSE lastSel

Kept(cs, ls) == SelectSeq(cs, LAMBDA c : \E i \in DOMAIN ls : ls[i].ip = c.ip)

Reweighted(cs, ls) == [i \in DOMAIN cs |-> [cs[i] EXCEPT !.weight = WeightFor(ls, cs[i].ip)]]

\* The addresses to dial: each once, in order, and none that had a link.
Needed(cs, ls) ==
  LET first(i) == \A j \in 1..i - 1 : ls[j].ip # ls[i].ip
      had(i) == \E k \in DOMAIN cs : cs[k].ip = ls[i].ip
      is == SelectSeq([i \in DOMAIN ls |-> i], LAMBDA i : first(i) /\ ~had(i))
  IN  [n \in DOMAIN is |-> ls[is[n]].ip]

\* create_connections_from_ips: an address that cannot be bound is left out.
Dialled(ips, ls, unusable, firstId) ==
  LET ok == SelectSeq(ips, LAMBDA ip : ip \notin unusable)
  IN  [n \in DOMAIN ok |-> [id |-> firstId + n - 1, ip |-> ok[n],
                            weight |-> WeightFor(ls, ok[n]), connected |-> FALSE]]

NewIo(cs) == [id \in IdsOf(cs) |-> [remote |-> Head(dns), peer |-> Head(dns), gen |-> 1]]

Extended(f, g) == [x \in DOMAIN f \union DOMAIN g |-> IF x \in DOMAIN g THEN g[x] ELSE f[x]]

Nothing == [queued |-> FALSE, list |-> <<>>, lines |-> <<>>]

\* The part of the state the steps of a tick hand to each other.
State == [conns |-> conns, io |-> io, readers |-> readers, awaiting |-> awaiting,
          sel |-> lastSel, reg2 |-> reg2, refused |-> refused, stale |-> stale]

Apply(st, ls, unusable) ==
  LET kept == Kept(st.conns, ls)
      removed == IdsOf(st.conns) \ IdsOf(kept)
      added == Dialled(Needed(st.conns, ls), ls, unusable, nextId)
  IN  [st EXCEPT !.conns = Reweighted(kept, ls) \o added,
                 !.io = Extended(Restrict(@, DOMAIN @ \ removed), NewIo(added)),
                 !.sel = SelectionAfter(removed # {}),
                 !.reg2 = {r \in @ : r[1] \notin removed}]

-----------------------------------------------------------------------------
(* The housekeeping arm of the event loop *)

\* rebuild_uplink_socket on the links of ids, and the restart of their readers.
Rebuild(st, ids) ==
  LET fresh == [id \in ids |-> [st.io[id] EXCEPT !.peer = st.io[id].remote, !.gen = @ + 1]]
  IN  [st EXCEPT !.io = Extended(@, fresh),
                 !.readers = Extended(@, [id \in ids |-> [gen |-> fresh[id].gen, alive |-> TRUE]]),
                 !.reg2 = {r \in @ : r[1] \notin ids}]

\* The readers stay on the sockets they had.
RebuildSilent(st, ids) == [Rebuild(st, ids) EXCEPT !.readers = st.readers]
RebuildUplinks(st, ids) == Rebuild(st, ids)

Disconnect(st, is) ==
  [st EXCEPT !.conns = [i \in DOMAIN @ |-> IF i \in is THEN [@[i] EXCEPT !.connected = FALSE] ELSE @[i]]]

\* A REG2 for each link at positions is: the grants, and the packets.
SendReg2(st, is) ==
  [st EXCEPT !.awaiting = @ \union is,
             !.reg2 = @ \union {<<st.conns[i].id, st.io[st.conns[i].id].gen>> : i \in is}]

IdsAt(st, is) == {st.conns[i].id : i \in is}

\* The links that are due reconnect; where the socket cannot be opened (gone)
\* the link is marked for recovery and keeps its old one.  A REG2 follows unless
\* a REG1 is in flight.
Reconnect(st, due, gone, reg1) ==
  SendReg2(Disconnect(RebuildUplinks(st, IdsAt(st, due \ gone)), due), IF reg1 THEN {} ELSE due)

\* Ended readers are left alone.
ReviveNot(st, out) == st
Revive(st, out) ==
  [st EXCEPT !.readers = [id \in DOMAIN @ |->
     IF ~@[id].alive /\ \E i \in DOMAIN st.conns : i \notin out /\ st.conns[i].id = id
     THEN [gen |-> st.io[id].gen, alive |-> TRUE] ELSE @[id]]]

\* Registered links are granted another REG3.
BroadcastArmed(st) == SendReg2(st, DOMAIN st.conns)
\* The broadcast REG2 goes out on every link and grants the unregistered ones.
Broadcast(st) ==
  [SendReg2(st, DOMAIN st.conns)
     EXCEPT !.awaiting = st.awaiting \union {i \in DOMAIN st.conns : ~st.conns[i].connected}]

\* receiver_moved: the name answers with none of the bond's addresses.
Moved(st) ==
  /\ st.conns # <<>>
  /\ \A id \in IdsOf(st.conns) : \A k \in DOMAIN dns : dns[k] # st.io[id].remote

\* Only the links whose socket was rebuilt are repointed.
RepointRebuilt(st, gone) ==
  [id \in DOMAIN st.io |-> IF id \in IdsAt(st, gone) THEN st.io[id] ELSE [st.io[id] EXCEPT !.remote = Head(dns)]]
Repoint(st, gone) == [id \in DOMAIN st.io |-> [st.io[id] EXCEPT !.remote = Head(dns)]]

\* rehome_bond: all addresses first, then the sockets, then registration.  A link
\* without a new socket keeps the old one, and what that has in flight.
RehomeBond(st, gone) ==
  LET all == DOMAIN st.conns
      repointed == [st EXCEPT !.io = Repoint(st, gone)]
  IN  [Disconnect(RebuildUplinks(repointed, IdsAt(st, all \ gone)), all) EXCEPT !.awaiting = {}]

SyncReaders(st) ==
  [st EXCEPT !.readers = [id \in IdsOf(st.conns) |->
     IF id \in DOMAIN @ THEN @[id] ELSE [gen |-> st.io[id].gen, alive |-> TRUE]]]

\* handle_uplink_packet: the link is found by its id, its grant by its position.
HandleUplinkPacket(st, p) ==
  LET is == {i \in DOMAIN st.conns : st.conns[i].id = p.id}
      granted == is \intersect st.awaiting
      current == p.id \in DOMAIN st.io /\ st.io[p.id].gen = p.gen
  IN  [st EXCEPT
        !.awaiting = @ \ granted,
        !.conns = [i \in DOMAIN @ |-> IF i \in granted THEN [@[i] EXCEPT !.connected = TRUE] ELSE @[i]],
        !.reg2 = @ \ {<<p.id, p.gen>>},
        !.stale = @ \/ (granted # {} /\ ~current),
        !.refused = @ \/ (current /\ <<p.id, p.gen>> \in st.reg2 /\ st.io[p.id].peer = st.io[p.id].remote
                           /\ \E i \in is \ granted : ~st.conns[i].connected)]

\* drain_packet_queue, with MaxChan below its limit of 64.
Drain(st) == FoldLeft(HandleUplinkPacket, st, chan)

SetState(s) ==
  /\ conns' = s.conns /\ io' = s.io /\ readers' = s.readers
  /\ awaiting' = s.awaiting /\ lastSel' = s.sel
  /\ reg2' = s.reg2 /\ refused' = s.refused /\ stale' = s.stale

\* What a tick finds a link to be: alive; timed out and not due for a retry; due
\* and rebuilt; due but without a socket.
Statuses == {"live", "waiting", "rebuilt", "gone"}

Rehomed == DOMAIN moved # {}

\* One tick; reg1: a REG1 is in flight, bcast: a REG2 broadcast is pending,
\* dead: the bond has been down for long enough to probe for a move.
Tended(status, reg1, bcast, dead) ==
  LET At(v) == {i \in DOMAIN conns : status[i] \in v}
      s1 == Revive(Reconnect(State, At({"rebuilt", "gone"}), At({"gone"}), reg1),
                   At(Statuses \ {"live"}))
      s2 == IF bcast THEN Broadcast(s1) ELSE s1
  IN  IF dead THEN RehomeBond(s2, At({"gone"})) ELSE s2

\* The queued reload follows, with the new addresses that cannot be bound; the
\* readers are synced and the channel drained.
Finish(st, unusable) ==
  \E s \in {Drain(SyncReaders(IF pending.queued THEN Apply(st, pending.list, unusable) ELSE st))} :
    /\ \A id \in DOMAIN s.io : s.io[id].gen <= MaxGen
    /\ SetState(s)
    /\ nextId' = Max({nextId} \union {id + 1 : id \in IdsOf(s.conns)})
    /\ pending' = Nothing
    /\ chan' = <<>>
    /\ raw' = IF pending.queued THEN pending.lines ELSE raw
    /\ UNCHANGED <<dns, moves, selId>>

Unusable == IF pending.queued THEN SUBSET Range(Needed(conns, pending.list)) ELSE {{}}

Tick ==
  \E status \in [DOMAIN conns -> Statuses] :
    \E reg1 \in {FALSE, Rehomed}, bcast \in BOOLEAN :
      \E dead \in (IF Moved(State) /\ \A i \in DOMAIN conns : status[i] # "live"
                   THEN BOOLEAN ELSE {FALSE}) :
        \E st \in {Tended(status, reg1, bcast, dead)} :
          /\ moved' = IF dead THEN [id \in IdsOf(conns) |-> io[id].gen] ELSE moved
          /\ \E unusable \in Unusable : Finish(st, unusable)

-----------------------------------------------------------------------------
(* The other arms *)

\* A reload without an address is refused.
MayQueue(ls) == ls # <<>>

Sighup(f) ==
  /\ Len(Needed(conns, Valid(f))) + nextId - 1 <= MaxIds
  /\ LET ls == Valid(f)
     IN  pending' = IF MayQueue(ls)
                    THEN [queued |-> TRUE, list |-> IF ls = <<>> THEN ls ELSE Normalise(ls), lines |-> ls]
                    ELSE pending
  /\ SetState(Drain(State))
  /\ chan' = <<>>
  /\ UNCHANGED <<nextId, dns, moves, selId, raw, moved>>

\* A packet of the client goes out on a link.
Select(i) ==
  /\ lastSel' = i
  /\ selId' = conns[i].id
  /\ UNCHANGED <<conns, io, readers, awaiting, pending, chan, nextId, dns, moves,
                 reg2, raw, moved, refused, stale>>

\* A reader takes the receiver's REG3 for the REG2 sent from its socket.
ReadReg3(id) ==
  /\ readers[id].alive
  /\ <<id, readers[id].gen>> \in reg2
  /\ Len(chan) < MaxChan
  /\ [id |-> id, gen |-> readers[id].gen] \notin Range(chan)
  /\ chan' = Append(chan, [id |-> id, gen |-> readers[id].gen])
  /\ UNCHANGED <<conns, io, readers, awaiting, lastSel, pending, nextId, dns, moves, ghosts>>

ReaderEnds(id) ==
  /\ ReadersEnd
  /\ readers[id].alive
  /\ readers' = [readers EXCEPT ![id].alive = FALSE]
  /\ UNCHANGED <<conns, io, awaiting, lastSel, pending, chan, nextId, dns, moves, ghosts>>

HandleReg3 ==
  /\ chan # <<>>
  /\ SetState(HandleUplinkPacket(State, Head(chan)))
  /\ chan' = Tail(chan)
  /\ UNCHANGED <<pending, nextId, dns, moves, selId, raw, moved>>

DnsMoves(a) ==
  /\ moves < MaxMoves
  /\ dns' = a
  /\ moves' = moves + 1
  /\ UNCHANGED <<conns, io, readers, awaiting, lastSel, pending, chan, nextId, ghosts>>

\* The bond has just been given its id: REG2 went out on every link.
Init ==
  \E f \in Files : \E a \in Answers :
    /\ Valid(f) # <<>> /\ Len(Valid(f)) <= MaxIds
    /\ LET ls == Valid(f)
           norm == Normalise(ls)
           cs == [i \in DOMAIN ls |-> [id |-> i, ip |-> ls[i].ip,
                                       weight |-> WeightFor(norm, ls[i].ip), connected |-> FALSE]]
       IN  /\ conns = cs
           /\ io = [id \in IdsOf(cs) |-> [remote |-> Head(a), peer |-> Head(a), gen |-> 1]]
           /\ readers = [id \in IdsOf(cs) |-> [gen |-> 1, alive |-> TRUE]]
           /\ awaiting = DOMAIN cs
           /\ reg2 = {<<id, 1>> : id \in IdsOf(cs)}
           /\ nextId = Len(cs) + 1
           /\ raw = ls
    /\ dns = a
    /\ lastSel = 0 /\ selId = 0 /\ pending = Nothing /\ chan = <<>> /\ moves = 0
    /\ moved = <<>> /\ refused = FALSE /\ stale = FALSE

Next ==
  \/ Tick
  \/ \E f \in Files : Sighup(f)
  \/ \E i \in DOMAIN conns : Select(i)
  \/ \E id \in DOMAIN readers : ReadReg3(id) \/ ReaderEnds(id)
  \/ HandleReg3
  \/ \E a \in Answers : DnsMoves(a)

Spec == Init /\ [][Next]_vars

\* Several ticks fall into the liveness timeout of a link, so a link whose
\* reader has ended meets one before it is timed out.
CalmTick ==
  /\ UNCHANGED moved
  /\ \E st \in {Tended([i \in DOMAIN conns |-> "live"], FALSE, FALSE, FALSE)} :
       \E unusable \in Unusable : Finish(st, unusable)
LiveSpec == Spec /\ WF_vars(CalmTick)

-----------------------------------------------------------------------------
TypeOK ==
  /\ \A i \in DOMAIN conns : conns[i] \in [id : Ids, ip : Ips, weight : 1..WeightMax, connected : BOOLEAN]
  /\ \A id \in DOMAIN io : io[id].gen \in 1..MaxGen
  /\ lastSel \in 0..MaxIds /\ nextId \in 1..MaxIds + 1
  /\ pending.queued \in BOOLEAN

\* Every connection has its I/O half and a reader on the socket in use, and
\* nothing is left of a removed one: reconnects, failed ones, re-homes and
\* reloads in one tick keep the three in step (uplink.rs: "no index stays in
\* lockstep with the connections vec").  The weights of any two links differ by as
\* much as the file last applied says, whether it kept, added or re-weighted them.
InStep ==
  /\ DOMAIN io = IdsOf(conns)
  /\ DOMAIN readers = IdsOf(conns)
  /\ \A id \in DOMAIN io : readers[id].gen = io[id].gen
  /\ \A i, j \in DOMAIN conns :
       conns[i].weight + WeightFor(raw, conns[j].ip) = conns[j].weight + WeightFor(raw, conns[i].ip)

\* last_selected_idx, when set, still is the position of the link it was set
\* for, although links are removed from the vector and appended to it.
SelectionMeant ==
  lastSel # 0 => lastSel \in DOMAIN conns /\ conns[lastSel].id = selId

\* A reader task that has ended is restarted while its link lives ("respawn it
\* for a still-active link").
ReaderRevived ==
  \A id \in Ids :
    (id \in DOMAIN readers /\ ~readers[id].alive) ~> ~(id \in DOMAIN readers /\ ~readers[id].alive)

\* No step takes the bond apart.  A reload takes the last link down only when it
\* names other addresses: a file without one "is REFUSED so the stream keeps
\* running".  And of the links re-homed together, all that have opened a socket
\* since send to one receiver, whichever sockets could not be rebuilt then and
\* whenever they were (rehome_bond: "the ordinary reconnect path picks it up on a
\* later tick and dials the *new* address").
BondKept ==
  [][/\ conns # <<>> /\ conns' = <<>> => pending.list # <<>>
     /\ LET opened == {id \in DOMAIN moved' \intersect DOMAIN io' : io'[id].gen > moved'[id]}
        IN  \A a, b \in opened : io'[a].peer = io'[b].peer]_vars

\* What rehome_bond says of every link of a re-homed bond: it "can never end up half
\* on one receiver instance and half on another".  A link whose socket could not be
\* rebuilt still sends to the old receiver, and is registered by what that answers.
NeverHalf ==
  LET on == {i \in DOMAIN conns : conns[i].connected /\ conns[i].id \in DOMAIN moved}
  IN  \A i, j \in on : io[conns[i].id].peer = io[conns[j].id].peer

\* After a re-home, re-homes and reloads in any order leave every uplink on one
\* receiver ("Neither order can leave uplinks split across two receivers").
OneReceiver == Rehomed => \A a, b \in DOMAIN io : io[a].remote = io[b].remote

\* No registered link holds a grant: only a REG2 "this uplink actually has in flight"
\* admits a REG3, which would otherwise wipe "a live, forwarding link's packet log".
GrantsMeant == \A i \in awaiting \intersect DOMAIN conns : ~conns[i].connected

\* Broadcasts, retries, re-homes, late REG3s and reloads, several in one tick, bring
\* this about in one way only: a reload has moved a registered link to the position
\* of another, whose grant it finds there.
GrantsKept ==
  [][\A i \in awaiting' \intersect DOMAIN conns' :
       conns'[i].connected =>
         /\ i \in DOMAIN conns
         /\ conns[i].id = conns'[i].id => i \in awaiting /\ conns[i].connected]_vars

\* A REG3 that answers the REG2 an unregistered link has in flight is never
\* refused, unless a receiver the bond has left sent it ("the gate cannot reject a
\* real one").
RealReg3Admitted == ~refused

\* A REG3 is honoured only for a REG2 the uplink has in flight ("this uplink
\* actually has in flight"), hence from the socket that sent it.
Reg3AnswersReg2 == ~stale
=============================================================================
