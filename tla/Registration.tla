---------------------------- MODULE Registration ----------------------------
(***************************************************************************)
(* How a bond of uplinks registers with one receiver and stays registered: *)
(* the registration manager (registration/mod.rs, registration/probing.rs),*)
(* the part of every uplink the handshake reads or writes (connection/     *)
(* mod.rs, connection/reconnection.rs), the two event-loop handlers that   *)
(* drive them (process_uplink_packet and handle_housekeeping) and the      *)
(* whole-bond re-home (sender/rehome.rs).                                  *)
(*                                                                         *)
(* Time.  One unit is one housekeeping tick (1 s).  A deadline is kept as  *)
(* the ticks left until it is reached, a past instant as its age in ticks. *)
(* A packet handled between two ticks is stamped with the earlier one.     *)
(*                                                                         *)
(* Network.  wire[i] holds the handshake requests sent on uplink i whose   *)
(* answer the event loop has not handled yet.  An answer can be late, lost *)
(* or duplicated, and answers of different requests can be reordered.      *)
(***************************************************************************)
EXTENDS Integers, FiniteSets

CONSTANTS
  N,              \* number of uplinks
  Reg2Timeout,    \* REG2_TIMEOUT, also the REG3_TIMEOUT, in ticks
  ProbeTimeout,   \* how long start_probing waits for REG_NGP answers
  Grace,          \* STARTUP_GRACE_MS
  ConnTimeout,    \* conn_timeout_ms
  SlowRetry,      \* SLOW_RETRY_DELAY_MS (FAST_RETRY_DELAY_MS is one tick)
  FastAttempts,   \* FAST_RETRY_ATTEMPTS
  GlobalTimeout,  \* GLOBAL_TIMEOUT_MS, the all-links-failed window
  RehomeGap,      \* REHOME_MIN_INTERVAL_MS
  MaxGroups,      \* bound: ids the receivers may issue
  MaxFaults,      \* bound: refusals, lost REG3s and restarts of a receiver
  MaxMoves,       \* bound: times the receiver's DNS name moves (0: --no-rehome)
  Stable,         \* uplinks whose interface never goes away
  Duplicates      \* BOOLEAN when the network may duplicate, else {FALSE}

ASSUME NAssumption == N \in Nat \ {0}
ASSUME TimeAssumption ==
  /\ Reg2Timeout \in Nat \ {0} /\ ProbeTimeout \in Nat \ {0}
  /\ Grace \in Nat \ {0} /\ ConnTimeout \in Nat \ {0}
  /\ SlowRetry \in Nat \ {0} /\ FastAttempts \in Nat
  /\ GlobalTimeout \in Nat /\ RehomeGap \in Nat \ {0}
ASSUME BoundAssumption ==
  /\ MaxGroups \in Nat /\ MaxFaults \in Nat /\ MaxMoves \in Nat
  /\ Stable \subseteq 0 .. N - 1 /\ Duplicates \subseteq BOOLEAN

Idx == 0 .. N - 1
None == -1

VARIABLES
  reg,       \* SrtlaRegistrationManager
  conn,      \* per uplink: what registration reads and writes of it
  allFailed, \* all_failed_at: ticks since every uplink was timed out, or None
  gate,      \* RehomeGate: ticks until the next re-home probe is allowed
  wire,      \* requests in flight, per uplink
  up,        \* the uplink's local address exists (a socket can be opened)
  rcv,       \* the receiver the bond is pinned to: its groups and members
  dns        \* moves left, and whether the name has moved off our address

vars == <<reg, conn, allFailed, gate, wire, up, rcv, dns>>

-----------------------------------------------------------------------------
(* An SRTLA id is 0 while the receiver does not know it (the id the sender *)
(* made up, or the probe id), else the group the receiver issued it for.   *)
Groups == 1 .. MaxGroups
Ids == 0 .. MaxGroups

REG1 == [kind |-> "REG1", id |-> 0]
REG2(g) == [kind |-> "REG2", id |-> g]
Requests == {REG1} \cup {REG2(g) : g \in Ids}

RegState ==
  [id : Ids, pending : Idx \cup {None}, deadline : Int, active : Nat,
   bcast : BOOLEAN, target : Idx \cup {None}, nextSend : Nat,
   probing : {"NotStarted", "Waiting", "Complete"},
   rtt : [Idx -> Int], awaiting : SUBSET Idx]

ConnState ==
  [connected : BOOLEAN, established : BOOLEAN, schedulable : BOOLEAN,
   rxAge : Nat \cup {None}, grace : Int, attemptAge : Nat \cup {None},
   failures : Nat]

(* A reached or absent deadline never moves; ages stop at the bound above  *)
(* which no comparison tells them apart.                                   *)
CountDown(t) == IF t > 0 THEN t - 1 ELSE t
Older(age, bound) == IF age = None \/ age >= bound THEN age ELSE age + 1

-----------------------------------------------------------------------------
(* SrtlaRegistrationManager.  deadline is pending_timeout_at_ms: None is   *)
(* the code's 0 (no deadline), 0 is a deadline that has been reached.      *)
(* has_connected is left out: see CarriesData.                             *)

NewReg ==
  [id |-> 0, pending |-> None, deadline |-> None, active |-> 0,
   bcast |-> FALSE, target |-> None, nextSend |-> 0,
   probing |-> "NotStarted", rtt |-> [i \in Idx |-> None], awaiting |-> {}]

ResetForRehome(r) == NewReg

(* probe_reg2_packet for every uplink; the connections' grace is reset by  *)
(* the caller's copy of the connections.                                   *)
StartProbing(r) ==
  IF r.probing # "NotStarted" \/ r.active > 0 THEN r
  ELSE [r EXCEPT !.probing = "Waiting", !.deadline = ProbeTimeout,
                 !.rtt = [i \in Idx |-> None]]

ProbeAge(r) == ProbeTimeout - r.deadline

HandleProbeResponse(r, i) ==
  IF r.rtt[i] # None THEN r ELSE [r EXCEPT !.rtt[i] = ProbeAge(r)]

Answered(r) == {i \in Idx : r.rtt[i] # None}

ProbingDone(r) ==
  /\ r.probing = "Waiting"
  /\ Answered(r) = Idx \/ r.deadline <= 0

(* The uplink with the smallest RTT; two answers in the same tick can be   *)
(* in either order.  The results are not read again once it is chosen, so  *)
(* they are forgotten.                                                     *)
ProbeWinners(r) ==
  IF Answered(r) = {} THEN {0}
  ELSE {i \in Answered(r) : \A j \in Answered(r) : r.rtt[i] <= r.rtt[j]}

(* It reads the clock again: late is 1 when that instant is later than the *)
(* tick's own, so that the tick's REG1 driver still finds it in the future.*)
ClockSkew(r) == IF r.probing = "Waiting" THEN {0, 1} ELSE {0}

CheckProbingComplete(r, best, late) ==
  IF ProbingDone(r)
  THEN [r EXCEPT !.target = best, !.nextSend = late,
                 !.probing = "Complete", !.deadline = None,
                 !.rtt = NewReg.rtt]
  ELSE r

BuildReg1For(r, i) ==
  [r EXCEPT !.pending = i, !.target = i, !.deadline = Reg2Timeout,
            !.nextSend = 1]

HandleRegNgp(r, i) ==
  IF r.probing = "Waiting" THEN HandleProbeResponse(r, i)
  ELSE IF r.active = 0 /\ r.pending = None
  THEN [r EXCEPT !.target = i, !.nextSend = 0]
  ELSE r

Reg1IfNgpImmediate(r, i) ==
  /\ r.active = 0
  /\ r.pending = None
  /\ r.target = i
  /\ r.nextSend = 0

HandleReg2(r, i, g) ==
  IF r.pending # i THEN r
  ELSE [r EXCEPT !.id = g, !.pending = None, !.deadline = Reg2Timeout,
                 !.bcast = TRUE, !.target = None, !.nextSend = 0]

HandleReg3(r, i) == [r EXCEPT !.awaiting = @ \ {i}]

InRegPhase(r, i) == r.pending = i \/ i \in r.awaiting

HandleRegErr(r, i) ==
  LET revoked == [r EXCEPT !.awaiting = @ \ {i}]
  IN IF r.pending # i THEN revoked
     ELSE [revoked EXCEPT !.pending = None, !.deadline = None,
                          !.target = None, !.nextSend = Reg2Timeout]

ClearPendingIfTimedOut(r) ==
  IF r.pending # None /\ r.deadline = 0
  THEN [r EXCEPT !.pending = None, !.deadline = None,
                 !.target = None, !.nextSend = 0]
  ELSE r

UpdateActive(r, c) ==
  [r EXCEPT !.active = Cardinality({i \in Idx : c[i].connected})]

(* reg_driver_pending_sends: the REG1 half, then the REG2 broadcast, which *)
(* arms a grant for every uplink that is not connected.                    *)
Reg1Due(r) ==
  r.active = 0 /\ r.target # None /\ r.pending = None /\ r.nextSend = 0

DriveReg1(r) ==
  IF Reg1Due(r)
  THEN [r EXCEPT !.pending = r.target, !.deadline = Reg2Timeout,
                 !.nextSend = Reg2Timeout]
  ELSE r

DriveBroadcastToAll(r, c) ==
  IF r.bcast THEN [r EXCEPT !.bcast = FALSE, !.awaiting = Idx] ELSE r

DriveBroadcast(r, c) ==
  IF r.bcast
  THEN [r EXCEPT !.bcast = FALSE,
                 !.awaiting = @ \cup {i \in Idx : ~c[i].connected}]
  ELSE r

-----------------------------------------------------------------------------
(* The uplink.  rxAge is last_received, attemptAge                         *)
(* last_reconnect_attempt_ms; grace is startup_grace_deadline_ms - now,    *)
(* -1 once it has passed.                                                  *)

NewRegistering ==
  [connected |-> FALSE, established |-> FALSE, schedulable |-> FALSE,
   rxAge |-> None, grace |-> Grace, attemptAge |-> None, failures |-> 0]

IsTimedOut(c) ==
  IF c.connected THEN c.rxAge # None /\ c.rxAge >= ConnTimeout
  ELSE /\ c.established \/ c.grace <= 0
       /\ c.rxAge = None \/ c.rxAge >= ConnTimeout

RetryDelay(c) == IF c.failures < FastAttempts THEN 1 ELSE SlowRetry

ShouldAttemptReconnect(c) ==
  IF c.established
  THEN c.attemptAge = None \/ c.attemptAge >= RetryDelay(c)
  ELSE c.grace < 0 /\ (c.attemptAge = None \/ c.attemptAge >= 1)

RecordAttempt(c) ==
  [c EXCEPT !.attemptAge = 0,
            !.failures = IF c.established /\ @ < FastAttempts THEN @ + 1 ELSE @]

ResetCore(c) ==
  [c EXCEPT !.connected = FALSE, !.schedulable = FALSE, !.rxAge = None]

MarkForRecovery(c) == [ResetCore(c) EXCEPT !.grace = -1]

RebuildUplink(c) == [ResetCore(c) EXCEPT !.attemptAge = 0, !.grace = Grace]

Registered(c) ==
  [c EXCEPT !.connected = TRUE, !.schedulable = TRUE, !.rxAge = 0,
            !.established = TRUE, !.failures = 0]

Rejected(c) == [c EXCEPT !.connected = FALSE, !.rxAge = None]

RefreshLivenessAlways(c) == [c EXCEPT !.rxAge = 0]

RefreshLiveness(c) ==
  IF c.connected \/ ~c.established THEN [c EXCEPT !.rxAge = 0] ELSE c

Aged(c) ==
  [c EXCEPT !.rxAge = Older(@, ConnTimeout),
            !.attemptAge = Older(@, SlowRetry),
            !.grace = IF @ >= 0 THEN @ - 1 ELSE @]

AgedReg(r) ==
  [r EXCEPT !.deadline = CountDown(@), !.nextSend = CountDown(@)]

-----------------------------------------------------------------------------
(* handle_housekeeping, in the order the handler runs.                     *)

(* The REG2 timeout, then the end of probing, which renews the grace of    *)
(* the uplink it selected.                                                 *)
RegAtTick(r, best, late) ==
  CheckProbingComplete(ClearPendingIfTimedOut(AgedReg(r)), best, late)

ConnsAtTick(c, r, best) ==
  [i \in Idx |->
     IF i = best /\ ProbingDone(ClearPendingIfTimedOut(AgedReg(r)))
     THEN [Aged(c[i]) EXCEPT !.grace = Grace] ELSE Aged(c[i])]

(* The per-uplink loop.  A socket that cannot be opened sends the uplink   *)
(* to recovery, and the handshake packet is built all the same.            *)
Retrying(c) == {i \in Idx : IsTimedOut(c[i]) /\ ShouldAttemptReconnect(c[i])}

RetryLinks(c) ==
  [i \in Idx |->
     IF i \notin Retrying(c) THEN c[i]
     ELSE IF up[i] THEN RebuildUplink(RecordAttempt(c[i]))
     ELSE MarkForRecovery(RecordAttempt(c[i]))]

RetryHandshakeUnarmed(r, retrying) ==
  IF r.pending \in retrying THEN BuildReg1For(r, r.pending) ELSE r

RetryHandshake(r, retrying) ==
  IF r.pending = None THEN [r EXCEPT !.awaiting = @ \cup retrying]
  ELSE IF r.pending \in retrying THEN BuildReg1For(r, r.pending)
  ELSE r

(* What the tick sends on uplink i: a retry of its own, the driver's REG1, *)
(* the broadcast.  r is the manager before the loop, d after it.           *)
TickSends(r, d, retrying, i) ==
  LET reg1 == \/ i \in retrying /\ r.pending = i
              \/ Reg1Due(d) /\ d.target = i
      reg2 == \/ i \in retrying /\ r.pending = None
              \/ r.bcast
  IN {q \in {REG1} : reg1} \cup {q \in {REG2(r.id)} : reg2}

(* Every retry rebuilds the socket, which drops the answers still on their *)
(* way; keep has the uplinks whose answers were already queued.            *)
TickWire(sends, rebuilt, keep) ==
  [i \in Idx |->
     (IF i \in rebuilt \ keep THEN {} ELSE wire[i])
       \cup (IF up[i] THEN sends[i] ELSE {})]

FailedForNoReset(c) ==
  IF allFailed # None THEN Older(allFailed, GlobalTimeout + 1)
  ELSE IF \E i \in Idx : ~IsTimedOut(c[i]) THEN None ELSE 0

FailedFor(c) ==
  IF \E i \in Idx : ~IsTimedOut(c[i]) THEN None
  ELSE IF allFailed = None THEN 0
  ELSE Older(allFailed, GlobalTimeout + 1)

(* RehomeGate::claim_probe, asked only by a bond that has been dead for    *)
(* longer than the all-links-failed window.                                *)
ClaimProbe(c) ==
  MaxMoves > 0 /\ FailedFor(c) > GlobalTimeout /\ CountDown(gate) = 0

(* rehome_bond: every uplink is repointed and reset, and registration      *)
(* starts over with a probe on every uplink.                               *)
RehomeLinks(c) ==
  [i \in Idx |->
     [IF up[i] THEN RebuildUplink(c[i]) ELSE MarkForRecovery(c[i])
        EXCEPT !.grace = Grace]]

Housekeeping ==
  \E best \in ProbeWinners(reg), late \in ClockSkew(reg),
     keep \in SUBSET {i \in Idx : wire[i] # {}} :
    LET r == RegAtTick(reg, best, late)
        c == ConnsAtTick(conn, reg, best)
        retrying == Retrying(c)
        newConn == RetryLinks(c)
        d == UpdateActive(RetryHandshake(r, retrying), newConn)
        newReg == DriveBroadcast(DriveReg1(d), newConn)
        sends == [i \in Idx |-> TickSends(r, d, retrying, i)]
    IN /\ gate' = IF ClaimProbe(newConn) THEN RehomeGap ELSE CountDown(gate)
       /\ UNCHANGED up
       /\ \/ /\ reg' = newReg
             /\ conn' = newConn
             /\ wire' = TickWire(sends, {i \in retrying : up[i]}, keep)
             /\ allFailed' = FailedFor(newConn)
             /\ UNCHANGED <<rcv, dns>>
          \/ /\ ClaimProbe(newConn) /\ dns.moved
             /\ reg' = StartProbing(ResetForRehome(newReg))
             /\ conn' = RehomeLinks(newConn)
             /\ wire' = TickWire([i \in Idx |-> {REG2(0)}],
                                 {i \in Idx : up[i]}, keep)
             /\ allFailed' = 0
             /\ rcv' = [rcv EXCEPT !.known = {}, !.member = [i \in Idx |-> 0]]
             /\ dns' = [dns EXCEPT !.moved = FALSE]

-----------------------------------------------------------------------------
(* process_uplink_packet, one action per answer the receiver may give to a *)
(* request q of uplink i.  The receiver handles q and the event loop its   *)
(* answer in one step.                                                     *)

Consume(i, q, sent) ==
  \E dup \in Duplicates :
    wire' = [wire EXCEPT ![i] = (IF dup THEN @ ELSE @ \ {q})
                                  \cup (IF up[i] THEN sent ELSE {})]

(* REG_NGP: the receiver does not know the id.                             *)
RecvRegNgp(i, q) ==
  /\ q.kind = "REG2" /\ q.id \notin rcv.known
  /\ LET r == HandleRegNgp(reg, i)
     IN IF Reg1IfNgpImmediate(r, i)
        THEN reg' = BuildReg1For(r, i) /\ Consume(i, q, {REG1})
        ELSE reg' = r /\ Consume(i, q, {})
  /\ UNCHANGED <<conn, allFailed, gate, up, rcv, dns>>

(* REG2: the receiver has created a group for this REG1.  A receiver that  *)
(* derives its half of the id from ours issues the same id again.          *)
RecvReg2(i, q) ==
  /\ q.kind = "REG1"
  /\ \E g \in Groups :
        /\ rcv' = [rcv EXCEPT !.known = @ \cup {g}]
        /\ reg' = HandleReg2(reg, i, g)
  /\ Consume(i, q, {})
  /\ UNCHANGED <<conn, allFailed, gate, up, dns>>

(* REG3: the receiver has added the uplink to the group.  Without a grant  *)
(* the packet only counts for liveness.                                    *)
RecvReg3(i, q) ==
  /\ q.kind = "REG2" /\ q.id \in rcv.known
  /\ rcv' = [rcv EXCEPT !.member[i] = q.id]
  /\ IF i \in reg.awaiting
     THEN /\ reg' = HandleReg3(reg, i)
          /\ conn' = [conn EXCEPT ![i] = Registered(@)]
     ELSE /\ conn' = [conn EXCEPT ![i] = RefreshLiveness(@)]
          /\ UNCHANGED reg
  /\ Consume(i, q, {})
  /\ UNCHANGED <<allFailed, gate, up, dns>>

(* REG_ERR: the receiver refuses the REG1 or the REG2.                     *)
RecvRegErr(i, q) ==
  /\ q.kind = "REG1" \/ q.id \in rcv.known
  /\ rcv.faults < MaxFaults
  /\ IF InRegPhase(reg, i)
     THEN /\ reg' = HandleRegErr(reg, i)
          /\ conn' = [conn EXCEPT ![i] = Rejected(@)]
     ELSE /\ conn' = [conn EXCEPT ![i] = RefreshLiveness(@)]
          /\ UNCHANGED reg
  /\ rcv' = [rcv EXCEPT !.faults = @ + 1]
  /\ Consume(i, q, {})
  /\ UNCHANGED <<allFailed, gate, up, dns>>

(* Any other packet of the receiver: ACK, NAK, keepalive echo, SRT control *)
RecvTraffic(i) ==
  /\ rcv.member[i] # 0 /\ up[i]
  /\ conn' = [conn EXCEPT ![i] = RefreshLiveness(@)]
  /\ UNCHANGED <<reg, allFailed, gate, wire, up, rcv, dns>>

(* An uplink may hold a batch when the scheduler may choose it or when     *)
(* select_pre_registration_connection does, the first uplink that is not   *)
(* timed out.  (has_connected turns the second off, but not for a batch    *)
(* that is still queued.)                                                  *)
CarriesData(i) ==
  \/ conn[i].schedulable
  \/ /\ ~IsTimedOut(conn[i])
     /\ \A j \in Idx : j < i => IsTimedOut(conn[j])

(* flush_connection: the socket refuses a batch.                           *)
SendFailure(i) ==
  /\ ~up[i] /\ CarriesData(i)
  /\ conn' = [conn EXCEPT ![i] = MarkForRecovery(@)]
  /\ UNCHANGED <<reg, allFailed, gate, wire, up, rcv, dns>>

-----------------------------------------------------------------------------
(* The environment.                                                        *)

(* The receiver adds the uplink to the group but its REG3 is lost.  (Any   *)
(* other loss is an answer that never comes.)                              *)
LoseReg3(i, q) ==
  /\ q.kind = "REG2" /\ q.id \in rcv.known
  /\ rcv.faults < MaxFaults
  /\ rcv' = [rcv EXCEPT !.member[i] = q.id, !.faults = @ + 1]
  /\ wire' = [wire EXCEPT ![i] = @ \ {q}]
  /\ UNCHANGED <<reg, conn, allFailed, gate, up, dns>>

Unplug(i) ==
  /\ i \notin Stable /\ up[i]
  /\ up' = [up EXCEPT ![i] = FALSE]
  /\ UNCHANGED <<reg, conn, allFailed, gate, wire, rcv, dns>>

Replug(i) ==
  /\ ~up[i]
  /\ up' = [up EXCEPT ![i] = TRUE]
  /\ UNCHANGED <<reg, conn, allFailed, gate, wire, rcv, dns>>

(* The receiver drops an uplink it hears nothing from.                     *)
ReceiverDrops(i) ==
  /\ rcv.member[i] # 0
  /\ rcv' = [rcv EXCEPT !.member[i] = 0]
  /\ UNCHANGED <<reg, conn, allFailed, gate, wire, up, dns>>

(* The receiver restarts and forgets its groups.                           *)
ReceiverRestarts ==
  /\ rcv.known # {} /\ rcv.faults < MaxFaults
  /\ rcv' = [known |-> {}, member |-> [i \in Idx |-> 0],
             faults |-> rcv.faults + 1]
  /\ UNCHANGED <<reg, conn, allFailed, gate, wire, up, dns>>

DnsMoves ==
  /\ dns.left > 0 /\ ~dns.moved
  /\ dns' = [left |-> dns.left - 1, moved |-> TRUE]
  /\ UNCHANGED <<reg, conn, allFailed, gate, wire, up, rcv>>

-----------------------------------------------------------------------------
(* Every uplink has been created and probed; the housekeeping pass before  *)
(* the event loop changes nothing.                                         *)
Init ==
  /\ reg = StartProbing(NewReg)
  /\ conn = [i \in Idx |-> NewRegistering]
  /\ allFailed = None
  /\ gate = 0
  /\ wire = [i \in Idx |-> {REG2(0)}]
  /\ up = [i \in Idx |-> TRUE]
  /\ rcv = [known |-> {}, member |-> [i \in Idx |-> 0], faults |-> 0]
  /\ dns = [left |-> MaxMoves, moved |-> FALSE]

Answer(i, q) ==
  RecvRegNgp(i, q) \/ RecvReg2(i, q) \/ RecvReg3(i, q) \/ RecvRegErr(i, q)

Events ==
  \/ \E i \in Idx : \E q \in wire[i] : Answer(i, q) \/ LoseReg3(i, q)
  \/ \E i \in Idx : RecvTraffic(i) \/ SendFailure(i)
  \/ \E i \in Idx : Unplug(i) \/ Replug(i) \/ ReceiverDrops(i)
  \/ ReceiverRestarts \/ DnsMoves

Next == Housekeeping \/ Events

Spec == Init /\ [][Next]_vars

-----------------------------------------------------------------------------
(* Every variable keeps the type its Rust field has (Option, bool, usize,  *)
(* a set of indices), with deadlines and ages counted in ticks.            *)
TypeOK ==
  /\ reg \in RegState
  /\ conn \in [Idx -> ConnState]
  /\ allFailed \in Nat \cup {None}
  /\ gate \in Nat
  /\ wire \in [Idx -> SUBSET Requests]
  /\ up \in [Idx -> BOOLEAN]
  /\ rcv \in [known : SUBSET Groups, member : [Idx -> Ids], faults : Nat]
  /\ dns \in [left : Nat, moved : BOOLEAN]

(* The one-shot REG3 grant (awaiting_reg3) is never armed for a connected  *)
(* uplink: whatever REG3 arrives, late or twice, handle_reg3 refuses it    *)
(* there, so clear_pre_registration_state never wipes a live uplink.       *)
NoGrantOnConnected ==
  \A i \in Idx : conn[i].connected => i \notin reg.awaiting

(* The single REG1/REG2 slot never blocks for good by having no deadline:  *)
(* pending_timeout_at_ms, which probing also uses, is armed whenever       *)
(* pending_reg2_idx is set, the slot and the REG1 target name the same     *)
(* uplink, and probing is over.                                            *)
PendingHasDeadline ==
  reg.pending # None =>
    /\ reg.deadline >= 0
    /\ reg.target = reg.pending
    /\ reg.probing = "Complete"

(* An uplink in recovery stays on the reconnect path: established but not  *)
(* connected, it has no last_received, so is_timed_out holds until REG3,   *)
(* whatever traffic the receiver still sends to it.                        *)
NoLimbo ==
  \A i \in Idx :
    conn[i].established /\ ~conn[i].connected => IsTimedOut(conn[i])

(* A connected uplink can time out: is_timed_out answers false for ever    *)
(* for a connected uplink without a last_received.                         *)
ConnectedCanTimeOut ==
  \A i \in Idx : conn[i].connected => conn[i].rxAge # None

(* Nothing waits for ever in registration: a pending handshake can time    *)
(* out, an uplink in recovery keeps being retried, and a connected one can *)
(* be found dead.                                                          *)
NothingStuck == PendingHasDeadline /\ NoLimbo /\ ConnectedCanTimeOut

(* A bond with a live uplink is never re-homed (rehome.rs): when the bond  *)
(* moves, every uplink was timed out before the tick reset any of them.    *)
RehomeOnlyDeadBond ==
  [][dns.moved /\ ~dns'.moved =>
       \A i \in Idx : conn[i].connected => Aged(conn[i]).rxAge >= ConnTimeout]_vars

(* Registration binds the bond to one receiver-issued id: two connected    *)
(* uplinks the receiver still counts are members of the same group.        *)
OneGroup ==
  \A i, j \in Idx :
    conn[i].connected /\ conn[j].connected
      /\ rcv.member[i] # 0 /\ rcv.member[j] # 0
    => rcv.member[i] = rcv.member[j]

(* is_schedulable: the scheduler may use exactly the uplinks that have     *)
(* their REG3.                                                             *)
SchedulableIsRegistered ==
  \A i \in Idx : conn[i].schedulable => conn[i].connected

-----------------------------------------------------------------------------
(* Liveness is claimed for a network whose round trips are shorter than a  *)
(* tick: housekeeping finds every request of an attached uplink answered.  *)
(* The event loop keeps servicing its timer, answers arrive, and the       *)
(* receiver forgets an uplink that no longer sends keepalives.             *)
Prompt == \A i \in Idx : up[i] => wire[i] = {}

LiveSpec ==
  /\ Init /\ [][(Prompt /\ Housekeeping) \/ Events]_vars
  /\ WF_vars(Prompt /\ Housekeeping)
  /\ \A i \in Idx :
       /\ WF_vars(\E q \in wire[i] : Answer(i, q))
       /\ WF_vars(~conn[i].connected /\ ReceiverDrops(i))

(* While no interface goes away (Stable = Idx), an uplink that is not      *)
(* registered is registered again, lost REG3s and forgotten members        *)
(* included: no grace period, retry interval, pending slot or probing      *)
(* state keeps it out for good.  SurvivorRegisters is about the rest.      *)
StableRegisters ==
  \A i \in Stable : ~conn[i].connected ~> conn[i].connected

(* A dead uplink does not take the working ones with it: once the others   *)
(* are gone for good, the uplink that works is registered.  The wait for a *)
(* REG2 ends after REG2_TIMEOUT, and REG1 is then sent elsewhere.          *)
SurvivorRegisters ==
  (\A j \in Idx \ Stable : <>[](~up[j]))
    => \A i \in Stable : <>(conn[i].connected)

=============================================================================
