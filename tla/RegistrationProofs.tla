------------------------- MODULE RegistrationProofs -------------------------
(***************************************************************************)
(* The safety properties of Registration hold for every number of uplinks, *)
(* every value of the timeouts and every number of receiver faults.        *)
(*                                                                         *)
(* Both records of the model are treated alike: one lemma per operation    *)
(* says that it keeps the record's type and its local invariant (SlotOK    *)
(* for the manager, LinkOK for an uplink) and what it does to the fields   *)
(* the global invariant relates (awaiting, connected).                     *)
(***************************************************************************)
EXTENDS Registration, FiniteSetTheorems, TLAPS

(* The manager's REG1/REG2 slot: a pending REG2 has a deadline and names   *)
(* the target, neither exists while the RTT probing still runs, and the    *)
(* probing has been started.                                               *)
SlotOK(r) ==
  /\ r.pending # None => r.deadline >= 0 /\ r.target = r.pending
  /\ r.target # None => r.probing = "Complete"
  /\ r.probing # "NotStarted"

(* An uplink in recovery has no last_received, a connected one has it.     *)
LinkOK(c) ==
  /\ c.established /\ ~c.connected => c.rxAge = None
  /\ c.connected => c.rxAge # None

IInv ==
  /\ TypeOK
  /\ SlotOK(reg)
  /\ \A i \in Idx : LinkOK(conn[i])
  /\ NoGrantOnConnected

(* The types of the constants as separate facts.                           *)
LEMMA ConstantTypes ==
  /\ Reg2Timeout \in Int /\ Reg2Timeout \in Nat /\ Reg2Timeout >= 0
  /\ ProbeTimeout \in Int /\ Grace \in Int
  /\ 0 \in Nat /\ 1 \in Nat /\ -1 \in Int /\ None \in Int /\ 0 \in Ids
  /\ 0 # None /\ None \notin Idx /\ 0 \in Idx
  BY TimeAssumption, NAssumption, BoundAssumption, SMTT(30) DEF None, Idx, Ids

-----------------------------------------------------------------------------
(* The manager's operations.                                               *)

(* new followed by start_probing leaves no slot, no target and no grant.   *)
LEMMA StartProbingNew ==
  /\ StartProbing(NewReg) \in RegState
  /\ SlotOK(StartProbing(NewReg))
  /\ StartProbing(NewReg).awaiting = {}
<1>1. [i \in Idx |-> None] \in [Idx -> Int]
  BY ConstantTypes
<1>2. NewReg \in RegState
  BY <1>1, ConstantTypes, Zenon DEF NewReg, RegState
<1>3. StartProbing(NewReg) =
        [NewReg EXCEPT !.probing = "Waiting", !.deadline = ProbeTimeout,
                       !.rtt = [i \in Idx |-> None]]
  BY DEF StartProbing, NewReg
<1>4. StartProbing(NewReg) \in RegState
  BY <1>1, <1>2, <1>3, ConstantTypes, Zenon DEF RegState
<1>5. SlotOK(StartProbing(NewReg)) /\ StartProbing(NewReg).awaiting = {}
  BY <1>3, Zenon DEF SlotOK, NewReg
<1>6. QED
  BY <1>4, <1>5

(* build_reg1_for takes the slot with a fresh deadline.                    *)
LEMMA BuildReg1ForOK ==
  ASSUME NEW r \in RegState, SlotOK(r), r.probing = "Complete", NEW i \in Idx
  PROVE  /\ BuildReg1For(r, i) \in RegState
         /\ SlotOK(BuildReg1For(r, i))
         /\ BuildReg1For(r, i).awaiting = r.awaiting
<1>1. BuildReg1For(r, i) \in RegState
  BY ConstantTypes, Zenon DEF RegState, BuildReg1For
<1>2. SlotOK(BuildReg1For(r, i)) /\ BuildReg1For(r, i).awaiting = r.awaiting
  BY ConstantTypes DEF RegState, BuildReg1For, SlotOK
<1>3. QED
  BY <1>1, <1>2

(* handle_reg_ngp records a probe answer or names the REG1 target; if an   *)
(* immediate REG1 is due afterwards, probing is over.                      *)
LEMMA HandleRegNgpOK ==
  ASSUME NEW r \in RegState, SlotOK(r), NEW i \in Idx
  PROVE  /\ HandleRegNgp(r, i) \in RegState
         /\ SlotOK(HandleRegNgp(r, i))
         /\ HandleRegNgp(r, i).awaiting = r.awaiting
         /\ Reg1IfNgpImmediate(HandleRegNgp(r, i), i)
              => HandleRegNgp(r, i).probing = "Complete"
<1>1. CASE r.probing = "Waiting"
  <2>1. CASE r.rtt[i] # None
    <3>1. HandleRegNgp(r, i) = r
      BY <1>1, <2>1 DEF HandleRegNgp, HandleProbeResponse
    <3>2. QED
      BY <3>1, ConstantTypes DEF SlotOK, Reg1IfNgpImmediate
  <2>2. CASE r.rtt[i] = None
    <3>1. HandleRegNgp(r, i) = [r EXCEPT !.rtt[i] = ProbeAge(r)]
      BY <1>1, <2>2 DEF HandleRegNgp, HandleProbeResponse
    <3>2. ProbeAge(r) \in Int
      BY ConstantTypes DEF ProbeAge, RegState
    <3>3. [r.rtt EXCEPT ![i] = ProbeAge(r)] \in [Idx -> Int]
      BY <3>2 DEF RegState
    <3>4. HandleRegNgp(r, i) \in RegState
      BY <3>1, <3>3, Zenon DEF RegState
    <3>5. QED
      BY <3>1, <3>4, ConstantTypes, SMTT(30) DEF SlotOK, RegState, Reg1IfNgpImmediate
  <2>3. QED
    BY <2>1, <2>2
<1>2. CASE r.probing # "Waiting" /\ r.active = 0 /\ r.pending = None
  <2>1. HandleRegNgp(r, i) = [r EXCEPT !.target = i, !.nextSend = 0]
    BY <1>2 DEF HandleRegNgp
  <2>2. HandleRegNgp(r, i) \in RegState
    BY <2>1, ConstantTypes, Zenon DEF RegState
  <2>3. r.probing = "Complete"
    BY <1>2 DEF SlotOK, RegState
  <2>4. QED
    BY <1>2, <2>1, <2>2, <2>3 DEF SlotOK, RegState
<1>3. CASE r.probing # "Waiting" /\ ~(r.active = 0 /\ r.pending = None)
  BY <1>3 DEF HandleRegNgp, Reg1IfNgpImmediate, SlotOK, RegState
<1>4. QED
  BY <1>1, <1>2, <1>3

(* handle_reg2 empties the slot, or does nothing.                          *)
LEMMA HandleReg2OK ==
  ASSUME NEW r \in RegState, SlotOK(r), NEW i \in Idx, NEW g \in Groups
  PROVE  /\ HandleReg2(r, i, g) \in RegState
         /\ SlotOK(HandleReg2(r, i, g))
         /\ HandleReg2(r, i, g).awaiting = r.awaiting
<1>1. g \in Ids
  BY BoundAssumption DEF Groups, Ids
<1>2. HandleReg2(r, i, g) \in RegState
  BY <1>1, ConstantTypes, Zenon DEF RegState, HandleReg2
<1>3. SlotOK(HandleReg2(r, i, g)) /\ HandleReg2(r, i, g).awaiting = r.awaiting
  BY DEF RegState, HandleReg2, SlotOK
<1>4. QED
  BY <1>2, <1>3

(* handle_reg3 spends the grant of its uplink.                             *)
LEMMA HandleReg3OK ==
  ASSUME NEW r \in RegState, SlotOK(r), NEW i \in Idx
  PROVE  /\ HandleReg3(r, i) \in RegState
         /\ SlotOK(HandleReg3(r, i))
         /\ HandleReg3(r, i).awaiting = r.awaiting \ {i}
  BY DEF RegState, HandleReg3, SlotOK

(* handle_reg_err revokes the grant and gives up a slot the uplink holds.  *)
LEMMA HandleRegErrOK ==
  ASSUME NEW r \in RegState, SlotOK(r), NEW i \in Idx
  PROVE  /\ HandleRegErr(r, i) \in RegState
         /\ SlotOK(HandleRegErr(r, i))
         /\ HandleRegErr(r, i).awaiting = r.awaiting \ {i}
<1> DEFINE revoked == [r EXCEPT !.awaiting = @ \ {i}]
<1>1. revoked \in RegState /\ SlotOK(revoked) /\ revoked.awaiting = r.awaiting \ {i}
  BY DEF RegState, SlotOK
<1>2. CASE r.pending # i
  BY <1>1, <1>2 DEF HandleRegErr
<1>3. CASE r.pending = i
  <2>1. HandleRegErr(r, i) =
          [revoked EXCEPT !.pending = None, !.deadline = None,
                          !.target = None, !.nextSend = Reg2Timeout]
    BY <1>3 DEF HandleRegErr
  <2> HIDE DEF revoked
  <2>2. HandleRegErr(r, i) \in RegState
    <3>1. None \in Idx \cup {None} /\ None \in Int /\ Reg2Timeout \in Nat
      BY ConstantTypes
    <3>2. QED
      BY <1>1, <2>1, <3>1, Zenon DEF RegState
  <2>3. /\ HandleRegErr(r, i).pending = None /\ HandleRegErr(r, i).target = None
        /\ HandleRegErr(r, i).probing = revoked.probing
        /\ HandleRegErr(r, i).awaiting = revoked.awaiting
    BY <1>1, <2>1 DEF RegState
  <2>4. QED
    BY <1>1, <2>2, <2>3, Zenon DEF SlotOK
<1>4. QED
  BY <1>2, <1>3

(* A tick counts the two deadlines down.                                   *)
LEMMA AgedRegOK ==
  ASSUME NEW r \in RegState, SlotOK(r)
  PROVE  /\ AgedReg(r) \in RegState
         /\ SlotOK(AgedReg(r))
         /\ AgedReg(r).awaiting = r.awaiting
<1>1. CountDown(r.deadline) \in Int /\ CountDown(r.nextSend) \in Nat
  BY DEF RegState, CountDown
<1>2. AgedReg(r) \in RegState
  BY <1>1, Zenon DEF RegState, AgedReg
<1>3. SlotOK(AgedReg(r)) /\ AgedReg(r).awaiting = r.awaiting
  BY DEF RegState, AgedReg, SlotOK, CountDown
<1>4. QED
  BY <1>2, <1>3, SMTT(30)

(* clear_pending_if_timed_out empties the slot, or does nothing.           *)
LEMMA ClearPendingOK ==
  ASSUME NEW r \in RegState, SlotOK(r)
  PROVE  /\ ClearPendingIfTimedOut(r) \in RegState
         /\ SlotOK(ClearPendingIfTimedOut(r))
         /\ ClearPendingIfTimedOut(r).awaiting = r.awaiting
<1>1. ClearPendingIfTimedOut(r) \in RegState
  BY ConstantTypes, Zenon DEF RegState, ClearPendingIfTimedOut
<1>2. /\ SlotOK(ClearPendingIfTimedOut(r))
      /\ ClearPendingIfTimedOut(r).awaiting = r.awaiting
  BY DEF RegState, ClearPendingIfTimedOut, SlotOK
<1>3. QED
  BY <1>1, <1>2

(* check_probing_complete names the REG1 target once probing is over; no   *)
(* slot is taken at that moment, so clearing the shared deadline is safe.  *)
LEMMA CheckProbingOK ==
  ASSUME NEW r \in RegState, SlotOK(r), NEW best \in Idx, NEW late \in {0, 1}
  PROVE  /\ CheckProbingComplete(r, best, late) \in RegState
         /\ SlotOK(CheckProbingComplete(r, best, late))
         /\ CheckProbingComplete(r, best, late).awaiting = r.awaiting
<1>1. NewReg.rtt = [i \in Idx |-> None] /\ NewReg.rtt \in [Idx -> Int]
  BY ConstantTypes DEF NewReg
<1>2. CheckProbingComplete(r, best, late) \in RegState
  BY <1>1, ConstantTypes, Zenon DEF RegState, CheckProbingComplete
<1>3. /\ SlotOK(CheckProbingComplete(r, best, late))
      /\ CheckProbingComplete(r, best, late).awaiting = r.awaiting
  <2>1. CASE ProbingDone(r)
    <3>1. r.pending = None
      BY <2>1, ConstantTypes DEF ProbingDone, SlotOK, RegState
    <3> DEFINE done == CheckProbingComplete(r, best, late)
    <3>2. /\ done.pending = None /\ done.probing = "Complete"
          /\ done.awaiting = r.awaiting
      BY <2>1, <3>1 DEF CheckProbingComplete, RegState
    <3>3. QED
      BY <3>2 DEF SlotOK
  <2>2. CASE ~ProbingDone(r)
    BY <2>2 DEF CheckProbingComplete
  <2>3. QED
    BY <2>1, <2>2
<1>4. QED
  BY <1>2, <1>3

(* The retries of one housekeeping pass arm grants for retried uplinks     *)
(* only, and renew the slot only for the uplink that holds it.             *)
LEMMA RetryHandshakeOK ==
  ASSUME NEW r \in RegState, SlotOK(r), NEW S \in SUBSET Idx
  PROVE  /\ RetryHandshake(r, S) \in RegState
         /\ SlotOK(RetryHandshake(r, S))
         /\ RetryHandshake(r, S).awaiting \subseteq r.awaiting \cup S
<1>1. CASE r.pending = None
  BY <1>1 DEF RetryHandshake, RegState, SlotOK
<1>2. CASE r.pending # None /\ r.pending \in S
  <2>1. RetryHandshake(r, S) = BuildReg1For(r, r.pending)
    BY <1>2 DEF RetryHandshake
  <2>2. r.pending \in Idx /\ r.probing = "Complete"
    BY <1>2, SMTT(30) DEF SlotOK, RegState
  <2>3. QED
    BY <2>1, <2>2, BuildReg1ForOK, SMTT(30)
<1>3. CASE r.pending # None /\ r.pending \notin S
  BY <1>3, SMTT(30) DEF RetryHandshake
<1>4. QED
  BY <1>1, <1>2, <1>3

LEMMA IdxFinite == IsFiniteSet(Idx) /\ \A S \in SUBSET Idx : Cardinality(S) \in Nat
<1>1. IsFiniteSet(Idx)
  BY NAssumption, FS_Interval DEF Idx
<1>2. \A S \in SUBSET Idx : IsFiniteSet(S)
  BY <1>1, FS_Subset
<1>3. QED
  BY <1>1, <1>2, FS_CardinalityType, SMTT(30)

(* update_active_connections, then reg_driver_pending_sends, which arms a  *)
(* grant only for an uplink that is not connected.                         *)
LEMMA DriverOK ==
  ASSUME NEW r \in RegState, SlotOK(r), NEW c
  PROVE  LET d == UpdateActive(r, c)
             n == DriveBroadcast(DriveReg1(d), c)
         IN /\ n \in RegState
            /\ SlotOK(n)
            /\ n.awaiting \subseteq r.awaiting \cup {i \in Idx : ~c[i].connected}
<1> DEFINE d == UpdateActive(r, c)
           e == DriveReg1(d)
           n == DriveBroadcast(e, c)
<1>1. d \in RegState /\ SlotOK(d) /\ d.awaiting = r.awaiting
  <2>1. Cardinality({i \in Idx : c[i].connected}) \in Nat
    BY IdxFinite
  <2>2. d \in RegState
    BY <2>1, Zenon DEF UpdateActive, RegState
  <2>3. SlotOK(d) /\ d.awaiting = r.awaiting
    BY DEF UpdateActive, RegState, SlotOK
  <2>4. QED
    BY <2>2, <2>3
<1> HIDE DEF d
<1>2. e \in RegState /\ SlotOK(e) /\ e.awaiting = r.awaiting
  <2>1. e \in RegState
    BY <1>1, ConstantTypes, Zenon DEF DriveReg1, RegState
  <2>2. SlotOK(e) /\ e.awaiting = r.awaiting
    BY <1>1, ConstantTypes DEF DriveReg1, Reg1Due, RegState, SlotOK
  <2>3. QED
    BY <2>1, <2>2
<1> HIDE DEF e
<1>3. /\ n \in RegState /\ SlotOK(n)
      /\ n.awaiting \subseteq r.awaiting \cup {i \in Idx : ~c[i].connected}
  BY <1>2, Zenon DEF DriveBroadcast, RegState, SlotOK
<1>4. QED
  BY <1>3, SMTT(30) DEF d, e

-----------------------------------------------------------------------------
(* The uplink's operations.                                                *)

LEMMA NewRegisteringOK == NewRegistering \in ConnState /\ LinkOK(NewRegistering)
  BY ConstantTypes DEF NewRegistering, ConnState, LinkOK

(* Giving an uplink a new startup grace touches nothing else.              *)
LEMMA GraceOK ==
  ASSUME NEW c \in ConnState, LinkOK(c), NEW g \in Int
  PROVE  /\ [c EXCEPT !.grace = g] \in ConnState
         /\ LinkOK([c EXCEPT !.grace = g])
         /\ [c EXCEPT !.grace = g].connected = c.connected
         /\ [c EXCEPT !.grace = g].rxAge = c.rxAge
  BY DEF ConnState, LinkOK

(* A tick ages the instants of an uplink but never invents or forgets one. *)
LEMMA AgedOK ==
  ASSUME NEW c \in ConnState, LinkOK(c)
  PROVE  /\ Aged(c) \in ConnState
         /\ LinkOK(Aged(c))
         /\ Aged(c).connected = c.connected
<1> DEFINE rx == Older(c.rxAge, ConnTimeout)
           at == Older(c.attemptAge, SlowRetry)
           gr == IF c.grace >= 0 THEN c.grace - 1 ELSE c.grace
<1>1. /\ rx \in Nat \cup {None} /\ at \in Nat \cup {None} /\ gr \in Int
      /\ (rx = None <=> c.rxAge = None)
  BY TimeAssumption DEF Older, None, ConnState
<1>2. Aged(c) = [c EXCEPT !.rxAge = rx, !.attemptAge = at, !.grace = gr]
  BY Zenon DEF Aged, ConnState
<1> HIDE DEF rx, at, gr
<1>3. Aged(c) \in ConnState
  BY <1>1, <1>2, Zenon DEF ConnState
<1>4. LinkOK(Aged(c)) /\ Aged(c).connected = c.connected
  BY <1>1, <1>2 DEF ConnState, LinkOK
<1>5. QED
  BY <1>3, <1>4, SMTT(30)

(* reset_core_state, with either caller: the uplink is disconnected and    *)
(* has no last_received.                                                   *)
LEMMA ResetOK ==
  ASSUME NEW c \in ConnState
  PROVE  /\ MarkForRecovery(c) \in ConnState
         /\ RebuildUplink(c) \in ConnState
         /\ LinkOK(MarkForRecovery(c)) /\ ~MarkForRecovery(c).connected
         /\ LinkOK(RebuildUplink(c)) /\ ~RebuildUplink(c).connected
<1>1. /\ ResetCore(c) \in ConnState /\ ~ResetCore(c).connected
      /\ ResetCore(c).rxAge = None
  BY Zenon DEF ResetCore, ConnState
<1>2. MarkForRecovery(c) \in ConnState /\ RebuildUplink(c) \in ConnState
  BY <1>1, ConstantTypes, Zenon DEF MarkForRecovery, RebuildUplink, ConnState
<1>3. /\ ~MarkForRecovery(c).connected /\ MarkForRecovery(c).rxAge = None
      /\ ~RebuildUplink(c).connected /\ RebuildUplink(c).rxAge = None
  BY <1>1 DEF MarkForRecovery, RebuildUplink, ConnState
<1>4. QED
  BY <1>2, <1>3 DEF LinkOK

LEMMA RecordAttemptOK ==
  ASSUME NEW c \in ConnState
  PROVE  RecordAttempt(c) \in ConnState
<1> DEFINE f == IF c.established /\ c.failures < FastAttempts
                THEN c.failures + 1 ELSE c.failures
<1>1. f \in Nat
  BY DEF ConnState
<1>2. RecordAttempt(c) = [c EXCEPT !.attemptAge = 0, !.failures = f]
  BY Zenon DEF RecordAttempt, ConnState
<1> HIDE DEF f
<1>3. QED
  BY <1>1, <1>2, ConstantTypes, Zenon DEF ConnState

(* The three ways an answer of the receiver changes an uplink.             *)
LEMMA AnswerOK ==
  ASSUME NEW c \in ConnState, LinkOK(c)
  PROVE  /\ Registered(c) \in ConnState /\ LinkOK(Registered(c))
         /\ Rejected(c) \in ConnState /\ LinkOK(Rejected(c))
         /\ ~Rejected(c).connected
         /\ RefreshLiveness(c) \in ConnState /\ LinkOK(RefreshLiveness(c))
         /\ RefreshLiveness(c).connected = c.connected
<1>1. Registered(c) \in ConnState
  BY ConstantTypes, Zenon DEF Registered, ConnState
<1>2. LinkOK(Registered(c))
  BY ConstantTypes DEF Registered, ConnState, LinkOK
<1>3. Rejected(c) \in ConnState /\ LinkOK(Rejected(c)) /\ ~Rejected(c).connected
  BY Zenon DEF Rejected, ConnState, LinkOK
<1>4. /\ RefreshLiveness(c) \in ConnState /\ LinkOK(RefreshLiveness(c))
      /\ RefreshLiveness(c).connected = c.connected
  BY ConstantTypes DEF RefreshLiveness, ConnState, LinkOK
<1>5. QED
  BY <1>1, <1>2, <1>3, <1>4

-----------------------------------------------------------------------------
(* One housekeeping pass over the uplinks and the manager.                 *)

LEMMA RegAtTickOK ==
  ASSUME NEW r \in RegState, SlotOK(r), NEW best \in Idx, NEW late \in {0, 1}
  PROVE  /\ RegAtTick(r, best, late) \in RegState
         /\ SlotOK(RegAtTick(r, best, late))
         /\ RegAtTick(r, best, late).awaiting = r.awaiting
<1>1. /\ AgedReg(r) \in RegState /\ SlotOK(AgedReg(r))
      /\ AgedReg(r).awaiting = r.awaiting
  BY AgedRegOK
<1> DEFINE q == ClearPendingIfTimedOut(AgedReg(r))
<1>2. q \in RegState /\ SlotOK(q) /\ q.awaiting = r.awaiting
  BY <1>1, ClearPendingOK
<1> HIDE DEF q
<1>3. /\ CheckProbingComplete(q, best, late) \in RegState
      /\ SlotOK(CheckProbingComplete(q, best, late))
      /\ CheckProbingComplete(q, best, late).awaiting = r.awaiting
  BY <1>2, CheckProbingOK
<1>4. QED
  BY <1>3 DEF RegAtTick, q

LEMMA ConnsAtTickOK ==
  ASSUME NEW c \in [Idx -> ConnState], \A i \in Idx : LinkOK(c[i]), NEW r, NEW best
  PROVE  /\ ConnsAtTick(c, r, best) \in [Idx -> ConnState]
         /\ \A i \in Idx :
              /\ LinkOK(ConnsAtTick(c, r, best)[i])
              /\ ConnsAtTick(c, r, best)[i].connected = c[i].connected
              /\ ConnsAtTick(c, r, best)[i].rxAge = Aged(c[i]).rxAge
<1>1. ASSUME NEW i \in Idx
      PROVE  /\ ConnsAtTick(c, r, best)[i] \in ConnState
             /\ LinkOK(ConnsAtTick(c, r, best)[i])
             /\ ConnsAtTick(c, r, best)[i].connected = c[i].connected
             /\ ConnsAtTick(c, r, best)[i].rxAge = Aged(c[i]).rxAge
  <2>1. /\ Aged(c[i]) \in ConnState /\ LinkOK(Aged(c[i]))
        /\ Aged(c[i]).connected = c[i].connected
    BY AgedOK
  <2> DEFINE a == Aged(c[i])
  <2>2. \/ ConnsAtTick(c, r, best)[i] = a
        \/ ConnsAtTick(c, r, best)[i] = [a EXCEPT !.grace = Grace]
    BY Zenon DEF ConnsAtTick
  <2> HIDE DEF a
  <2>3. a \in ConnState /\ LinkOK(a) /\ a.connected = c[i].connected
    BY <2>1 DEF a
  <2>4. /\ [a EXCEPT !.grace = Grace] \in ConnState
        /\ LinkOK([a EXCEPT !.grace = Grace])
        /\ [a EXCEPT !.grace = Grace].connected = a.connected
        /\ [a EXCEPT !.grace = Grace].rxAge = a.rxAge
    BY <2>3, ConstantTypes, GraceOK
  <2>5. /\ ConnsAtTick(c, r, best)[i] \in ConnState
        /\ LinkOK(ConnsAtTick(c, r, best)[i])
        /\ ConnsAtTick(c, r, best)[i].connected = c[i].connected
        /\ ConnsAtTick(c, r, best)[i].rxAge = a.rxAge
    BY <2>2, <2>3, <2>4, Zenon
  <2>6. QED
    BY <2>5 DEF a
<1>2. ConnsAtTick(c, r, best) = [i \in Idx |-> ConnsAtTick(c, r, best)[i]]
  BY Zenon DEF ConnsAtTick
<1>3. QED
  BY <1>1, <1>2, Zenon

(* A retried uplink leaves the pass disconnected, another one unchanged.   *)
LEMMA RetryLinksOK ==
  ASSUME NEW c \in [Idx -> ConnState], \A i \in Idx : LinkOK(c[i])
  PROVE  /\ RetryLinks(c) \in [Idx -> ConnState]
         /\ \A i \in Idx :
              /\ LinkOK(RetryLinks(c)[i])
              /\ i \in Retrying(c) => ~RetryLinks(c)[i].connected
              /\ i \notin Retrying(c) => RetryLinks(c)[i] = c[i]
<1>1. ASSUME NEW i \in Idx
      PROVE  /\ RetryLinks(c)[i] \in ConnState /\ LinkOK(RetryLinks(c)[i])
             /\ i \in Retrying(c) => ~RetryLinks(c)[i].connected
             /\ i \notin Retrying(c) => RetryLinks(c)[i] = c[i]
  <2> DEFINE a == RecordAttempt(c[i])
  <2>1. a \in ConnState
    BY RecordAttemptOK
  <2>2. RetryLinks(c)[i] = IF i \notin Retrying(c) THEN c[i]
                           ELSE IF up[i] THEN RebuildUplink(a)
                           ELSE MarkForRecovery(a)
    BY Zenon DEF RetryLinks
  <2> HIDE DEF a
  <2>3. /\ MarkForRecovery(a) \in ConnState /\ RebuildUplink(a) \in ConnState
        /\ LinkOK(MarkForRecovery(a)) /\ ~MarkForRecovery(a).connected
        /\ LinkOK(RebuildUplink(a)) /\ ~RebuildUplink(a).connected
    BY <2>1, ResetOK
  <2>4. QED
    BY <2>2, <2>3, Zenon
<1>2. RetryLinks(c) = [i \in Idx |-> RetryLinks(c)[i]]
  BY Zenon DEF RetryLinks
<1>3. QED
  BY <1>1, <1>2, Zenon

(* The requests a tick puts on the wire are handshake requests.            *)
LEMMA TickWireType ==
  ASSUME TypeOK, NEW sends \in [Idx -> SUBSET Requests], NEW S, NEW keep
  PROVE  TickWire(sends, S, keep) \in [Idx -> SUBSET Requests]
  BY DEF TickWire, TypeOK

LEMMA TickSendsType ==
  ASSUME NEW r \in RegState, NEW d, NEW S, NEW i
  PROVE  TickSends(r, d, S, i) \in SUBSET Requests
  BY DEF TickSends, Requests, RegState

LEMMA ProbeWinnersType == ProbeWinners(reg) \subseteq Idx
  BY ConstantTypes, SMTT(30) DEF ProbeWinners, Answered

LEMMA FailedForType ==
  ASSUME TypeOK, NEW c
  PROVE  FailedFor(c) \in Nat \cup {None}
  BY TimeAssumption, SMTT(30) DEF FailedFor, Older, None, TypeOK

-----------------------------------------------------------------------------
(* IInv is inductive.                                                      *)

LEMMA InitIInv == Init => IInv
<1> SUFFICES ASSUME Init PROVE IInv
  OBVIOUS
<1>1. reg \in RegState /\ SlotOK(reg) /\ reg.awaiting = {}
  BY StartProbingNew, SMTT(30) DEF Init
<1>2. conn \in [Idx -> ConnState] /\ \A i \in Idx : LinkOK(conn[i])
  BY NewRegisteringOK DEF Init
<1>3. allFailed \in Nat \cup {None} /\ gate \in Nat /\ up \in [Idx -> BOOLEAN]
  BY DEF Init
<1>4. wire \in [Idx -> SUBSET Requests]
  BY ConstantTypes, SMTT(30) DEF Init, Requests
<1>5. /\ rcv \in [known : SUBSET Groups, member : [Idx -> Ids], faults : Nat]
      /\ dns \in [left : Nat, moved : BOOLEAN]
  BY ConstantTypes, BoundAssumption DEF Init
<1>6. QED
  BY <1>1, <1>2, <1>3, <1>4, <1>5, SMTT(30) DEF IInv, TypeOK, NoGrantOnConnected

(* What a housekeeping pass computes before it may re-home: the manager    *)
(* and the uplinks it ends with are related as IInv requires.              *)
LEMMA PassOK ==
  ASSUME IInv, NEW best \in Idx, NEW late \in {0, 1}
  PROVE  LET r == RegAtTick(reg, best, late)
             c == ConnsAtTick(conn, reg, best)
             newConn == RetryLinks(c)
             d == UpdateActive(RetryHandshake(r, Retrying(c)), newConn)
             newReg == DriveBroadcast(DriveReg1(d), newConn)
         IN /\ r \in RegState
            /\ newReg \in RegState /\ SlotOK(newReg)
            /\ newConn \in [Idx -> ConnState]
            /\ \A i \in Idx : /\ LinkOK(newConn[i])
                              /\ newConn[i].connected => i \notin newReg.awaiting
<1> DEFINE r == RegAtTick(reg, best, late)
           c == ConnsAtTick(conn, reg, best)
           newConn == RetryLinks(c)
           h == RetryHandshake(r, Retrying(c))
           newReg == DriveBroadcast(DriveReg1(UpdateActive(h, newConn)), newConn)
<1>1. r \in RegState /\ SlotOK(r) /\ r.awaiting = reg.awaiting
  BY RegAtTickOK, SMTT(30) DEF IInv, TypeOK
<1>2. /\ c \in [Idx -> ConnState]
      /\ \A i \in Idx : LinkOK(c[i]) /\ c[i].connected = conn[i].connected
  BY ConnsAtTickOK, SMTT(30) DEF IInv, TypeOK
<1> HIDE DEF r, c
<1>3. /\ newConn \in [Idx -> ConnState]
      /\ \A i \in Idx :
           /\ LinkOK(newConn[i])
           /\ i \in Retrying(c) => ~newConn[i].connected
           /\ i \notin Retrying(c) => newConn[i] = c[i]
  BY <1>2, RetryLinksOK, SMTT(30)
<1> HIDE DEF newConn
<1>4. Retrying(c) \in SUBSET Idx
  BY DEF Retrying
<1>5. h \in RegState /\ SlotOK(h) /\ h.awaiting \subseteq reg.awaiting \cup Retrying(c)
  BY <1>1, <1>4, RetryHandshakeOK, SMTT(30)
<1> HIDE DEF h
<1>6. /\ newReg \in RegState /\ SlotOK(newReg)
      /\ newReg.awaiting \subseteq h.awaiting \cup {i \in Idx : ~newConn[i].connected}
  BY <1>5, DriverOK, SMTT(30)
<1> HIDE DEF newReg
<1>7. ASSUME NEW i \in Idx, newConn[i].connected
      PROVE  i \notin newReg.awaiting
  <2>1. i \notin Retrying(c) /\ conn[i].connected
    BY <1>2, <1>3, <1>7, SMTT(30)
  <2>2. i \notin reg.awaiting
    BY <2>1, SMTT(30) DEF IInv, NoGrantOnConnected
  <2>3. QED
    BY <1>5, <1>6, <1>7, <2>1, <2>2, SMTT(30)
<1>8. /\ r \in RegState
      /\ newReg \in RegState /\ SlotOK(newReg)
      /\ newConn \in [Idx -> ConnState]
      /\ \A i \in Idx : /\ LinkOK(newConn[i])
                        /\ newConn[i].connected => i \notin newReg.awaiting
  BY <1>1, <1>3, <1>6, <1>7, SMTT(30)
<1>9. QED
  BY <1>8, Zenon DEF r, c, newConn, h, newReg

(* rehome_bond resets every uplink.                                        *)
LEMMA RehomeLinksOK ==
  ASSUME NEW c \in [Idx -> ConnState]
  PROVE  /\ RehomeLinks(c) \in [Idx -> ConnState]
         /\ \A i \in Idx : LinkOK(RehomeLinks(c)[i])
<1>1. ASSUME NEW i \in Idx
      PROVE  RehomeLinks(c)[i] \in ConnState /\ LinkOK(RehomeLinks(c)[i])
  <2> DEFINE a == IF up[i] THEN RebuildUplink(c[i]) ELSE MarkForRecovery(c[i])
  <2>1. a \in ConnState /\ LinkOK(a)
    BY ResetOK
  <2>2. RehomeLinks(c)[i] = [a EXCEPT !.grace = Grace]
    BY Zenon DEF RehomeLinks
  <2> HIDE DEF a
  <2>3. QED
    BY <2>1, <2>2, ConstantTypes, GraceOK, SMTT(30)
<1>2. RehomeLinks(c) = [i \in Idx |-> RehomeLinks(c)[i]]
  BY Zenon DEF RehomeLinks
<1>3. QED
  BY <1>1, <1>2, Zenon

LEMMA HousekeepingIInv == IInv /\ Housekeeping => IInv'
<1> SUFFICES ASSUME IInv, Housekeeping PROVE IInv'
  OBVIOUS
<1>1. PICK best \in ProbeWinners(reg), late \in ClockSkew(reg),
           keep \in SUBSET {i \in Idx : wire[i] # {}} :
        Housekeeping!(best, late, keep)
  BY Zenon DEF Housekeeping
<1> DEFINE r == RegAtTick(reg, best, late)
           c == ConnsAtTick(conn, reg, best)
           retrying == Retrying(c)
           newConn == RetryLinks(c)
           d == UpdateActive(RetryHandshake(r, retrying), newConn)
           newReg == DriveBroadcast(DriveReg1(d), newConn)
           sends == [i \in Idx |-> TickSends(r, d, retrying, i)]
<1>2. best \in Idx /\ late \in {0, 1}
  BY ProbeWinnersType DEF ClockSkew
<1>3. /\ r \in RegState /\ newReg \in RegState /\ SlotOK(newReg)
      /\ newConn \in [Idx -> ConnState]
      /\ \A i \in Idx : /\ LinkOK(newConn[i])
                        /\ newConn[i].connected => i \notin newReg.awaiting
  BY <1>2, PassOK, Zenon
<1>4. sends \in [Idx -> SUBSET Requests]
  BY <1>3, TickSendsType, Zenon
<1>5. /\ gate' = IF ClaimProbe(newConn) THEN RehomeGap ELSE CountDown(gate)
      /\ up' = up
      /\ \/ /\ reg' = newReg
            /\ conn' = newConn
            /\ wire' = TickWire(sends, {i \in retrying : up[i]}, keep)
            /\ allFailed' = FailedFor(newConn)
            /\ rcv' = rcv /\ dns' = dns
         \/ /\ reg' = StartProbing(NewReg)
            /\ conn' = RehomeLinks(newConn)
            /\ wire' = TickWire([i \in Idx |-> {REG2(0)}], {i \in Idx : up[i]}, keep)
            /\ allFailed' = 0
            /\ rcv' = [rcv EXCEPT !.known = {}, !.member = [i \in Idx |-> 0]]
            /\ dns' = [dns EXCEPT !.moved = FALSE]
  BY <1>1, Zenon DEF ResetForRehome
<1> HIDE DEF r, c, retrying, newConn, d, newReg, sends
<1>6. gate' \in Nat /\ up' \in [Idx -> BOOLEAN]
  BY <1>5, TimeAssumption, SMTT(30) DEF CountDown, IInv, TypeOK
<1>7. CASE /\ reg' = newReg /\ conn' = newConn
           /\ wire' = TickWire(sends, {i \in retrying : up[i]}, keep)
           /\ allFailed' = FailedFor(newConn)
           /\ rcv' = rcv /\ dns' = dns
  <2>1. wire' \in [Idx -> SUBSET Requests]
    BY <1>4, <1>7, TickWireType, Zenon DEF IInv
  <2>2. allFailed' \in Nat \cup {None}
    BY <1>7, FailedForType, SMTT(30) DEF IInv
  <2>3. TypeOK'
    BY <1>3, <1>6, <1>7, <2>1, <2>2, Zenon DEF TypeOK, IInv
  <2>4. QED
    BY <1>3, <1>7, <2>3, Zenon DEF IInv, NoGrantOnConnected
<1>8. CASE /\ reg' = StartProbing(NewReg) /\ conn' = RehomeLinks(newConn)
           /\ wire' = TickWire([i \in Idx |-> {REG2(0)}], {i \in Idx : up[i]}, keep)
           /\ allFailed' = 0
           /\ rcv' = [rcv EXCEPT !.known = {}, !.member = [i \in Idx |-> 0]]
           /\ dns' = [dns EXCEPT !.moved = FALSE]
  <2>1. [i \in Idx |-> {REG2(0)}] \in [Idx -> SUBSET Requests]
    BY ConstantTypes DEF Requests
  <2>2. wire' \in [Idx -> SUBSET Requests]
    BY <1>8, <2>1, TickWireType, SMTT(30) DEF IInv
  <2>3. /\ rcv' \in [known : SUBSET Groups, member : [Idx -> Ids], faults : Nat]
        /\ dns' \in [left : Nat, moved : BOOLEAN]
    BY <1>8, ConstantTypes, Zenon DEF IInv, TypeOK
  <2>4. conn' \in [Idx -> ConnState] /\ \A i \in Idx : LinkOK(conn'[i])
    BY <1>3, <1>8, RehomeLinksOK
  <2>5. reg' \in RegState /\ SlotOK(reg') /\ reg'.awaiting = {}
    BY <1>8, StartProbingNew
  <2>6. TypeOK'
    BY <1>6, <1>8, <2>2, <2>3, <2>4, <2>5, Zenon DEF TypeOK
  <2>7. QED
    BY <2>4, <2>5, <2>6, SMTT(30) DEF IInv, NoGrantOnConnected
<1>9. QED
  BY <1>5, <1>7, <1>8, SMTT(30)

(* A step that changes one uplink and the manager.                         *)
LEMMA LinkStepIInv ==
  ASSUME IInv, NEW i \in Idx, NEW c \in ConnState, LinkOK(c),
         NEW r \in RegState, SlotOK(r),
         reg' = r, conn' = [conn EXCEPT ![i] = c],
         r.awaiting \subseteq reg.awaiting, c.connected => i \notin r.awaiting,
         UNCHANGED <<allFailed, gate, up, dns>>,
         wire' \in [Idx -> SUBSET Requests],
         rcv' \in [known : SUBSET Groups, member : [Idx -> Ids], faults : Nat]
  PROVE  IInv'
<1>1. conn' \in [Idx -> ConnState] /\ \A j \in Idx : conn'[j] = IF j = i THEN c ELSE conn[j]
  BY Zenon DEF IInv, TypeOK
<1>2. TypeOK'
  BY <1>1, SMTT(30) DEF IInv, TypeOK
<1>3. NoGrantOnConnected'
  BY <1>1 DEF IInv, NoGrantOnConnected
<1>4. QED
  BY <1>1, <1>2, <1>3 DEF IInv

LEMMA ConsumeType ==
  ASSUME TypeOK, NEW i \in Idx, NEW q, NEW sent \in SUBSET Requests,
         Consume(i, q, sent)
  PROVE  wire' \in [Idx -> SUBSET Requests]
  BY SMTT(30) DEF Consume, TypeOK

LEMMA AnswerIInv ==
  ASSUME IInv, NEW i \in Idx, NEW q \in wire[i], Answer(i, q)
  PROVE  IInv'
<1> USE DEF IInv
<1>1. /\ reg \in RegState /\ SlotOK(reg) /\ conn[i] \in ConnState /\ LinkOK(conn[i])
      /\ conn = [conn EXCEPT ![i] = conn[i]] /\ q \in Requests
      /\ conn[i].connected => i \notin reg.awaiting
  BY DEF TypeOK, NoGrantOnConnected
<1>2. rcv \in [known : SUBSET Groups, member : [Idx -> Ids], faults : Nat]
  BY SMTT(30) DEF TypeOK
<1>3. {} \in SUBSET Requests /\ {REG1} \in SUBSET Requests
  BY SMTT(30) DEF Requests
<1>4. /\ Registered(conn[i]) \in ConnState /\ LinkOK(Registered(conn[i]))
      /\ Rejected(conn[i]) \in ConnState /\ LinkOK(Rejected(conn[i]))
      /\ ~Rejected(conn[i]).connected
      /\ RefreshLiveness(conn[i]) \in ConnState /\ LinkOK(RefreshLiveness(conn[i]))
      /\ RefreshLiveness(conn[i]).connected = conn[i].connected
  BY <1>1, AnswerOK, SMTT(30)
<1>5. CASE RecvRegNgp(i, q)
  <2> DEFINE r == HandleRegNgp(reg, i)
  <2>1. /\ r \in RegState /\ SlotOK(r) /\ r.awaiting = reg.awaiting
        /\ Reg1IfNgpImmediate(r, i) => r.probing = "Complete"
    BY <1>1, HandleRegNgpOK, SMTT(30)
  <2>2. \/ Reg1IfNgpImmediate(r, i) /\ reg' = BuildReg1For(r, i) /\ Consume(i, q, {REG1})
        \/ reg' = r /\ Consume(i, q, {})
    BY <1>5, SMTT(30) DEF RecvRegNgp
  <2> HIDE DEF r
  <2>3. reg' \in RegState /\ SlotOK(reg') /\ reg'.awaiting = reg.awaiting
    BY <2>1, <2>2, BuildReg1ForOK, Zenon
  <2>4. wire' \in [Idx -> SUBSET Requests]
    BY <1>3, <2>2, ConsumeType, Zenon
  <2>5. QED
    BY <1>1, <1>2, <1>5, <2>3, <2>4, LinkStepIInv, Zenon DEF RecvRegNgp
<1>6. CASE RecvReg2(i, q)
  <2>1. PICK g \in Groups : /\ rcv' = [rcv EXCEPT !.known = @ \cup {g}]
                            /\ reg' = HandleReg2(reg, i, g)
    BY <1>6, Zenon DEF RecvReg2
  <2>2. reg' \in RegState /\ SlotOK(reg') /\ reg'.awaiting = reg.awaiting
    BY <1>1, <2>1, HandleReg2OK
  <2>3. wire' \in [Idx -> SUBSET Requests]
    BY <1>3, <1>6, ConsumeType DEF RecvReg2
  <2>4. rcv' \in [known : SUBSET Groups, member : [Idx -> Ids], faults : Nat]
    BY <1>2, <2>1
  <2>5. QED
    BY <1>1, <1>6, <2>2, <2>3, <2>4, LinkStepIInv, Zenon DEF RecvReg2
<1>7. CASE RecvReg3(i, q)
  <2>1. wire' \in [Idx -> SUBSET Requests]
    BY <1>3, <1>7, ConsumeType, SMTT(30) DEF RecvReg3
  <2>2. rcv' \in [known : SUBSET Groups, member : [Idx -> Ids], faults : Nat]
    <3>1. q.id \in Ids
      BY <1>2, <1>7, BoundAssumption, SMTT(30) DEF RecvReg3, Groups, Ids
    <3>2. QED
      BY <1>2, <1>7, <3>1, SMTT(30) DEF RecvReg3
  <2>3. CASE i \in reg.awaiting
    <3>1. /\ reg' = HandleReg3(reg, i)
          /\ conn' = [conn EXCEPT ![i] = Registered(conn[i])]
      BY <1>7, <2>3 DEF RecvReg3
    <3>2. /\ reg' \in RegState /\ SlotOK(reg')
          /\ reg'.awaiting \subseteq reg.awaiting /\ i \notin reg'.awaiting
      BY <1>1, <3>1, HandleReg3OK
    <3>3. QED
      BY <1>4, <1>7, <2>1, <2>2, <3>1, <3>2, LinkStepIInv, Zenon DEF RecvReg3
  <2>4. CASE i \notin reg.awaiting
    <3>1. reg' = reg /\ conn' = [conn EXCEPT ![i] = RefreshLiveness(conn[i])]
      BY <1>7, <2>4 DEF RecvReg3
    <3>2. QED
      BY <1>1, <1>4, <1>7, <2>1, <2>2, <2>4, <3>1, LinkStepIInv, Zenon DEF RecvReg3
  <2>5. QED
    BY <2>3, <2>4
<1>8. CASE RecvRegErr(i, q)
  <2>1. wire' \in [Idx -> SUBSET Requests]
    BY <1>3, <1>8, ConsumeType DEF RecvRegErr
  <2>2. rcv' \in [known : SUBSET Groups, member : [Idx -> Ids], faults : Nat]
    BY <1>2, <1>8, SMTT(30) DEF RecvRegErr
  <2>3. CASE InRegPhase(reg, i)
    <3>1. /\ reg' = HandleRegErr(reg, i)
          /\ conn' = [conn EXCEPT ![i] = Rejected(conn[i])]
      BY <1>8, <2>3 DEF RecvRegErr
    <3>2. /\ reg' \in RegState /\ SlotOK(reg')
          /\ reg'.awaiting \subseteq reg.awaiting
      BY <1>1, <3>1, HandleRegErrOK
    <3>3. QED
      BY <1>4, <1>8, <2>1, <2>2, <3>1, <3>2, LinkStepIInv, Zenon DEF RecvRegErr
  <2>4. CASE ~InRegPhase(reg, i)
    <3>1. reg' = reg /\ conn' = [conn EXCEPT ![i] = RefreshLiveness(conn[i])]
      BY <1>8, <2>4 DEF RecvRegErr
    <3>2. QED
      BY <1>1, <1>4, <1>8, <2>1, <2>2, <3>1, LinkStepIInv, Zenon DEF RecvRegErr
  <2>5. QED
    BY <2>3, <2>4
<1>9. QED
  BY <1>5, <1>6, <1>7, <1>8, Zenon DEF Answer

LEMMA EventsIInv == IInv /\ Events => IInv'
<1> SUFFICES ASSUME IInv, Events PROVE IInv'
  OBVIOUS
<1> USE DEF IInv
<1> DEFINE RcvType == [known : SUBSET Groups, member : [Idx -> Ids], faults : Nat]
<1>1. /\ reg \in RegState /\ SlotOK(reg) /\ rcv \in RcvType
      /\ \A i \in Idx : /\ conn[i] \in ConnState /\ LinkOK(conn[i])
                        /\ conn[i].connected => i \notin reg.awaiting
      /\ wire \in [Idx -> SUBSET Requests] /\ up \in [Idx -> BOOLEAN]
  BY Zenon DEF TypeOK, NoGrantOnConnected
<1>2. ASSUME NEW i \in Idx, NEW q \in wire[i], Answer(i, q) PROVE IInv'
  BY <1>2, AnswerIInv, SMTT(30)
<1>3. ASSUME NEW i \in Idx, NEW q \in wire[i], LoseReg3(i, q) PROVE IInv'
  <2>1. q.id \in Ids
    BY <1>1, <1>3, BoundAssumption, SMTT(30) DEF LoseReg3, Groups, Ids
  <2>2. rcv' \in RcvType /\ wire' \in [Idx -> SUBSET Requests]
    <3>1. [rcv.member EXCEPT ![i] = q.id] \in [Idx -> Ids] /\ rcv.faults + 1 \in Nat
      BY <1>1, <2>1
    <3>2. rcv' \in RcvType
      BY <1>1, <1>3, <3>1, Zenon DEF LoseReg3
    <3>3. QED
      BY <1>1, <1>3, <3>2, SMTT(30) DEF LoseReg3
  <2>3. QED
    BY <1>3, <2>2, SMTT(30) DEF LoseReg3, TypeOK, NoGrantOnConnected
<1>4. ASSUME NEW i \in Idx, RecvTraffic(i) PROVE IInv'
  <2>1. /\ RefreshLiveness(conn[i]) \in ConnState /\ LinkOK(RefreshLiveness(conn[i]))
        /\ RefreshLiveness(conn[i]).connected = conn[i].connected
    BY <1>1, AnswerOK
  <2>2. QED
    BY <1>1, <1>4, <2>1, LinkStepIInv, Zenon DEF RecvTraffic
<1>5. ASSUME NEW i \in Idx, SendFailure(i) PROVE IInv'
  <2>1. /\ MarkForRecovery(conn[i]) \in ConnState /\ LinkOK(MarkForRecovery(conn[i]))
        /\ ~MarkForRecovery(conn[i]).connected
    BY <1>1, ResetOK
  <2>2. QED
    BY <1>1, <1>5, <2>1, LinkStepIInv, Zenon DEF SendFailure
<1>6. ASSUME NEW i \in Idx, Unplug(i) \/ Replug(i) PROVE IInv'
  <2>1. up' \in [Idx -> BOOLEAN]
    BY <1>1, <1>6, Zenon DEF Unplug, Replug
  <2>2. QED
    BY <1>6, <2>1 DEF Unplug, Replug, TypeOK, NoGrantOnConnected
<1>7. ASSUME NEW i \in Idx, ReceiverDrops(i) PROVE IInv'
  <2>1. rcv' \in RcvType
    BY <1>1, <1>7, ConstantTypes DEF ReceiverDrops
  <2>2. QED
    BY <1>7, <2>1, SMTT(30) DEF ReceiverDrops, TypeOK, NoGrantOnConnected
<1>8. ASSUME ReceiverRestarts PROVE IInv'
  <2>1. rcv' \in RcvType
    BY <1>1, <1>8, ConstantTypes DEF ReceiverRestarts
  <2>2. QED
    BY <1>8, <2>1, Zenon DEF ReceiverRestarts, TypeOK, NoGrantOnConnected
<1>9. ASSUME DnsMoves PROVE IInv'
  <2>1. dns' \in [left : Nat, moved : BOOLEAN]
    BY <1>9 DEF DnsMoves, TypeOK
  <2>2. QED
    BY <1>9, <2>1, SMTT(30) DEF DnsMoves, TypeOK, NoGrantOnConnected
<1>10. QED
  BY <1>2, <1>3, <1>4, <1>5, <1>6, <1>7, <1>8, <1>9, Zenon DEF Events

(* The strengthened invariant of the handshake holds in every reachable    *)
(* state.                                                                  *)
THEOREM Inductive == Spec => []IInv
<1>1. IInv /\ [Next]_vars => IInv'
  <2>1. IInv /\ UNCHANGED vars => IInv'
    BY DEF IInv, vars, TypeOK, NoGrantOnConnected
  <2>2. QED
    BY <2>1, HousekeepingIInv, EventsIInv, SMTT(30) DEF Next
<1>2. QED
  BY <1>1, InitIInv, PTL DEF Spec

-----------------------------------------------------------------------------
(* Every variable keeps its type: the event loop's handlers, the           *)
(* housekeeping pass and a re-home write only values of the Rust fields'   *)
(* types.                                                                  *)
THEOREM TypeCorrect == Spec => []TypeOK
<1>1. IInv => TypeOK
  BY SMTT(30) DEF IInv
<1>2. QED
  BY <1>1, Inductive, PTL

(* No REG3 grant is ever armed for a connected uplink: the retries arm     *)
(* one only for an uplink they have just reset, the broadcast only for one *)
(* that is not connected, and a REG3 that connects an uplink spends it.    *)
THEOREM GrantsOnlyDisconnected == Spec => []NoGrantOnConnected
<1>1. IInv => NoGrantOnConnected
  BY SMTT(30) DEF IInv
<1>2. QED
  BY <1>1, Inductive, PTL

(* A pending REG2 always has a deadline, although probing and the REG3     *)
(* wait use the same field: clear_pending_if_timed_out can always end it.  *)
THEOREM PendingCanTimeOut == Spec => []PendingHasDeadline
<1>1. IInv => PendingHasDeadline
  BY ConstantTypes, SMTT(30) DEF IInv, SlotOK, PendingHasDeadline, TypeOK, RegState
<1>2. QED
  BY <1>1, Inductive, PTL

(* An uplink in recovery is timed out, so housekeeping keeps retrying it,  *)
(* until its REG3 arrives.                                                 *)
THEOREM RecoveryKeepsRetrying == Spec => []NoLimbo
<1>1. IInv => NoLimbo
  BY SMTT(30) DEF IInv, LinkOK, NoLimbo, IsTimedOut
<1>2. QED
  BY <1>1, Inductive, PTL

(* A connected uplink has a last_received, so is_timed_out can hold of it. *)
THEOREM ConnectedHasLiveness == Spec => []ConnectedCanTimeOut
<1>1. IInv => ConnectedCanTimeOut
  BY DEF IInv, LinkOK, ConnectedCanTimeOut
<1>2. QED
  BY <1>1, Inductive, PTL

(* Nothing waits for ever for want of a deadline or a stamp: not a pending *)
(* handshake, not an uplink in recovery, not a connected one.              *)
THEOREM EverythingCanEnd == Spec => []NothingStuck
<1>1. PendingHasDeadline /\ NoLimbo /\ ConnectedCanTimeOut => NothingStuck
  BY DEF NothingStuck
<1>2. QED
  BY <1>1, PendingCanTimeOut, RecoveryKeepsRetrying, ConnectedHasLiveness, PTL

(* handle_housekeeping re-homes a bond only when every uplink that was     *)
(* connected before the pass had heard nothing for conn_timeout_ms.        *)
THEOREM RehomesOnlyDeadBonds == Spec => RehomeOnlyDeadBond
<1> DEFINE Dead == dns.moved /\ ~dns'.moved =>
                     \A i \in Idx : conn[i].connected => Aged(conn[i]).rxAge >= ConnTimeout
<1>1. IInv /\ [Next]_vars => [Dead]_vars
  <2> SUFFICES ASSUME IInv, Next, dns.moved, ~dns'.moved,
                      NEW i \in Idx, conn[i].connected
               PROVE  Aged(conn[i]).rxAge >= ConnTimeout
    OBVIOUS
  <2>1. Housekeeping
    <3>1. Events => dns' = dns \/ dns'.moved
      BY ZenonT(40) DEF Events, Answer, RecvRegNgp, RecvReg2, RecvReg3, RecvRegErr, LoseReg3,
             RecvTraffic, SendFailure, Unplug, Replug, ReceiverDrops,
             ReceiverRestarts, DnsMoves
    <3>2. QED
      BY <3>1, SMTT(30) DEF Next
  <2>2. PICK best \in ProbeWinners(reg), late \in ClockSkew(reg),
             keep \in SUBSET {j \in Idx : wire[j] # {}} :
          Housekeeping!(best, late, keep)
    BY <2>1, Zenon DEF Housekeeping
  <2> DEFINE c == ConnsAtTick(conn, reg, best)
             newConn == RetryLinks(c)
  <2>3. ClaimProbe(newConn)
    BY <2>2, Zenon
  <2>4. /\ c \in [Idx -> ConnState] /\ \A j \in Idx : LinkOK(c[j])
        /\ c[i].connected /\ c[i].rxAge = Aged(conn[i]).rxAge
    <3>1. /\ conn \in [Idx -> ConnState] /\ reg \in RegState
          /\ \A j \in Idx : LinkOK(conn[j])
      BY Zenon DEF IInv, TypeOK
    <3>2. QED
      BY <3>1, ConnsAtTickOK, SMTT(30)
  <2> HIDE DEF c
  <2>5. i \notin Retrying(c) => newConn[i] = c[i]
    BY <2>4, RetryLinksOK, Zenon
  <2> HIDE DEF newConn
  <2>6. IsTimedOut(newConn[i])
    <3>1. FailedFor(newConn) > GlobalTimeout
      BY <2>3, Zenon DEF ClaimProbe
    <3>2. ~(None > GlobalTimeout)
      BY TimeAssumption DEF None
    <3>3. FailedFor(newConn) # None
      BY <3>1, <3>2, Zenon
    <3>4. QED
      BY <3>3, Zenon DEF FailedFor
  <2>7. IsTimedOut(c[i])
    BY <2>5, <2>6 DEF Retrying
  <2>8. QED
    BY <2>4, <2>7, SMTT(30) DEF IsTimedOut
<1>2. QED
  BY <1>1, Inductive, PTL DEF Spec, RehomeOnlyDeadBond

=============================================================================
