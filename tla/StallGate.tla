----------------------------- MODULE StallGate ------------------------------
(***************************************************************************)
(* The stalled-link guard: the silence pull, the stall latch with its      *)
(* rejoin dwell and backoff (connection/mod.rs), and the gate that every   *)
(* selection pass recomputes from them (selection/mod.rs).                 *)
(*                                                                         *)
(* Stamps are kept as ages, saturating at AgeCap, Never standing for the   *)
(* code's 0 or None.  A packet log is reduced to whether it holds the      *)
(* min_in_flight backlog.  A path that works answers, within one unit of   *)
(* time, payload with SRTLA ACKs and a keepalive with its echo; one that   *)
(* does not, answers nothing.  The share ramp a release arms is in         *)
(* Selection.                                                              *)
(***************************************************************************)
EXTENDS Integers, FiniteSets

CONSTANTS
  Links,            \* the uplinks
  Rtts,             \* smoothed round trips a link can measure, in time units
  StaleFloor,       \* STALL_STALE_FLOOR_MS
  StaleRttMult,     \* STALL_STALE_RTT_MULT
  StaleCeiling,     \* config.stall_ack_stale_ms
  ProofFloor,       \* STALL_REJOIN_PROOF_FLOOR_MS
  DwellMult,        \* STALL_REJOIN_DWELL_MULT
  ProbationMult,    \* STALL_REJOIN_PROBATION_MULT
  BackoffMax,       \* STALL_REJOIN_BACKOFF_MAX
  SilenceFloor,     \* SILENCE_PULL_FLOOR_MS
  SilenceRttMult,   \* SILENCE_PULL_RTT_MULT
  ConnTimeout,      \* config.conn_timeout_ms
  Budget,           \* config.negotiated_latency_ms, 0 when not negotiated
  IdleTime,         \* the keepalive period
  AgeCap,           \* ages saturate here, above every threshold
  Steady,           \* the stream never pauses: a pass in every time unit
  Reserve,          \* there is one more uplink, which is never held out
  GuardSettings,    \* values of config.stall_deselect
  MaxFaults         \* bound: paths broken and batches refused

Never == -1
NoRtt == -1

Least(a, b) == IF a < b THEN a ELSE b
Most(a, b) == IF a > b THEN a ELSE b

ASSUME SettingsAssumption ==
  /\ IsFiniteSet(Links) /\ Rtts \subseteq Nat /\ Rtts # {}
  /\ {StaleFloor, StaleCeiling, ProofFloor, DwellMult, ProbationMult, BackoffMax,
      SilenceFloor, ConnTimeout, IdleTime, AgeCap} \subseteq Nat \ {0}
  /\ {StaleRttMult, SilenceRttMult, Budget, MaxFaults} \subseteq Nat
  /\ Steady \in BOOLEAN /\ Reserve \in BOOLEAN
  /\ GuardSettings \in (SUBSET BOOLEAN) \ {{}}
ASSUME CapAssumption ==
  /\ AgeCap > DwellMult * StaleCeiling * BackoffMax
  /\ AgeCap > ProbationMult * StaleCeiling
  /\ AgeCap > ConnTimeout /\ AgeCap > ProofFloor
\* A fact of arithmetic: the provers know no exponentiation.
ASSUME PowersAssumption ==
  \A k \in 0 .. BackoffMax : 2 ^ k \in Nat /\ 2 ^ k > k /\ 2 ^ (k + 1) = 2 * 2 ^ k

VARIABLES
  link,     \* the uplinks
  path,     \* path[l]: the network delivers in both directions
  guard,    \* config.stall_deselect
  passed,   \* a selection pass ran in this time unit (TRUE unless Steady)
  faults,   \* paths broken and batches refused so far
  ghost     \* history the properties speak about

vars == <<link, path, guard, passed, faults, ghost>>

Ages == Never .. AgeCap

LinkState ==
  [up : BOOLEAN,        \* connected, and past Registering
   loaded : BOOLEAN,    \* in_flight_packets >= min_in_flight
   rtt : Rtts \cup {NoRtt},
   proof : Ages,        \* last_ack_or_rtt_sample_ms
   heard : Ages,        \* last_received
   ping : 0 .. IdleTime,   \* last_keepalive_sent
   latched : BOOLEAN,   \* stall_latched_since_ms # 0
   run : Ages,          \* stall_recovery_since_ms
   released : Ages,     \* stall_released_at_ms
   backoff : 0 .. BackoffMax,
   pulled : BOOLEAN,
   gated : BOOLEAN]

(* fresh: for how long no two proofs have been further apart than the proof *)
(* window and the unit between two passes.                                 *)
(* fails: rejoins in a row that did not outlast their probation.           *)
(* mute: no byte has come in since the pull engaged.                       *)
GhostState == [fresh : 0 .. AgeCap, fails : 0 .. BackoffMax, mute : BOOLEAN]

TypeOK ==
  /\ link \in [Links -> LinkState]
  /\ path \in [Links -> BOOLEAN]
  /\ guard \in GuardSettings /\ passed \in BOOLEAN
  /\ faults \in 0 .. MaxFaults
  /\ ghost \in [Links -> GhostState]

NewLink ==
  [up |-> FALSE, loaded |-> FALSE, rtt |-> NoRtt, proof |-> Never, heard |-> Never,
   ping |-> 0, latched |-> FALSE, run |-> Never, released |-> Never, backoff |-> 0,
   pulled |-> FALSE, gated |-> FALSE]

NewGhost == [fresh |-> 0, fails |-> 0, mute |-> FALSE]

Older(age) == IF age = Never THEN Never ELSE Least(age + 1, AgeCap)

(***************************************************************************)
(* Windows and verdicts on one link                                        *)
(***************************************************************************)
EffectiveStale(c) ==
  IF c.rtt = NoRtt THEN StaleCeiling
  ELSE Least(Most(c.rtt * StaleRttMult, StaleFloor), StaleCeiling)

ProofStale(c) == c.proof # Never /\ c.proof >= EffectiveStale(c)

IsStalled(c) == c.up /\ c.loaded /\ ProofStale(c)

ProofIsTimely(c) == Budget = 0 \/ c.rtt = NoRtt \/ c.rtt <= 2 * Budget

ProofWindowStaleOnly(c) == EffectiveStale(c)

ProofWindow(c) == Most(EffectiveStale(c), ProofFloor)

ProofFresh(c) == c.proof # Never /\ c.proof < ProofWindow(c) /\ ProofIsTimely(c)

(* For the history: a pass is sure to have found the proof stale.          *)
Lapsed(c) == c.proof = Never \/ c.proof > ProofWindow(c)

SilenceWindow(c) ==
  Least(IF c.rtt = NoRtt THEN SilenceFloor
        ELSE Most(c.rtt * SilenceRttMult, SilenceFloor),
        EffectiveStale(c))

IsBrieflySilent(c) ==
  c.up /\ c.loaded /\ c.heard # Never /\ c.heard >= SilenceWindow(c)

IsTimedOut(c) == ~c.up \/ (c.heard # Never /\ c.heard >= ConnTimeout)

(***************************************************************************)
(* The selection pass                                                      *)
(***************************************************************************)
Spoke(c) == c.heard # Never /\ c.heard < SilenceWindow(c)

UpdateSilencePull(c) ==
  [c EXCEPT !.pulled = IsBrieflySilent(c) \/ (c.pulled /\ ~Spoke(c) /\ c.up)]

(* The judgement on the rejoin that has just ended.                        *)
RejoinBackoffNext(c) ==
  IF c.released = Never \/ c.released >= EffectiveStale(c) * ProbationMult THEN 1
  ELSE Least(Most(2 * c.backoff, 2), BackoffMax)

Engages(c) == IsStalled(c) \/ (c.pulled /\ ProofStale(c))

Engage(c) ==
  [c EXCEPT !.latched = TRUE, !.run = Never,
            !.backoff = IF c.latched THEN c.backoff ELSE RejoinBackoffNext(c)]

Dwell(c) == EffectiveStale(c) * DwellMult * Most(c.backoff, 1)

DwellServed(c) == (IF c.run = Never THEN 0 ELSE c.run) >= Dwell(c)

Release(c) == [c EXCEPT !.latched = FALSE, !.run = Never, !.released = 0]

UpdateStallLatchKeepsRun(c) ==
  IF Engages(c) THEN Engage(c)
  ELSE IF ~c.latched \/ ~ProofFresh(c) THEN c
  ELSE IF DwellServed(c) THEN Release(c)
  ELSE [c EXCEPT !.run = Most(@, 0)]

UpdateStallLatch(c) ==
  IF Engages(c) THEN Engage(c)
  ELSE IF ~c.latched THEN c
  ELSE IF ~ProofFresh(c) THEN [c EXCEPT !.run = Never]
  ELSE IF DwellServed(c) THEN Release(c)
  ELSE [c EXCEPT !.run = Most(@, 0)]

ClearStallLatch(c) ==
  [c EXCEPT !.latched = FALSE, !.run = Never, !.released = Never, !.backoff = 0,
            !.pulled = FALSE, !.gated = FALSE]

Usable(cs) == {l \in Links : ~IsTimedOut(cs[l])}

Judged(c) == UpdateStallLatch(UpdateSilencePull(c))

ApplyStallGateAlways(cs) ==
  LET judged == [l \in Links |-> Judged(cs[l])]
  IN [l \in Links |-> [judged[l] EXCEPT !.gated = judged[l].latched \/ judged[l].pulled]]

ApplyStallGate(cs) ==
  LET judged == [l \in Links |-> Judged(cs[l])]
      held(c) == c.latched \/ c.pulled
      anyHealthy == Reserve \/ \E l \in Usable(judged) : ~held(judged[l])
  IN [l \in Links |-> [judged[l] EXCEPT !.gated = anyHealthy /\ held(judged[l])]]

(* What a pass adds to the history: a latch that engages while the last    *)
(* rejoin is younger than its probation is one more failure in a row.      *)
Witnessed(g, old, new) ==
  [g EXCEPT
    !.fails = IF ~new.latched \/ old.latched THEN @
              ELSE IF old.released # Never
                      /\ old.released < EffectiveStale(old) * ProbationMult
                   THEN Least(@ + 1, BackoffMax) ELSE 0,
    !.mute = new.pulled /\ (@ \/ ~old.pulled)]

Select ==
  /\ Steady => ~passed
  /\ passed' = TRUE
  /\ link' = IF guard THEN ApplyStallGate(link)
             ELSE [l \in Links |-> ClearStallLatch(link[l])]
  /\ ghost' = [l \in Links |-> IF guard THEN Witnessed(ghost[l], link[l], link'[l])
                               ELSE [ghost[l] EXCEPT !.fails = 0, !.mute = FALSE]]
  /\ UNCHANGED <<path, guard, faults>>

(***************************************************************************)
(* What happens to a link between two passes                               *)
(***************************************************************************)
(* One unit of time.  handle_keepalive_echo and an earned SRTLA ACK both   *)
(* stamp the delivery proof; process_uplink_packet stamps last_received.   *)
PingDue(c) == c.up /\ c.ping + 1 >= IdleTime

Answered(l) == path[l] /\ link[l].up /\ (link[l].loaded \/ PingDue(link[l]))

Aged(l) ==
  LET c == link[l] IN
  [c EXCEPT !.proof = IF Answered(l) THEN 0 ELSE Older(@),
            !.heard = IF Answered(l) THEN 0 ELSE Older(@),
            !.ping = IF PingDue(c) \/ ~c.up THEN 0 ELSE @ + 1,
            !.run = Older(@), !.released = Older(@)]

Tick ==
  /\ passed
  /\ passed' = ~Steady
  /\ link' = [l \in Links |-> Aged(l)]
  /\ ghost' = [l \in Links |->
       [ghost[l] EXCEPT
         !.fresh = IF Lapsed(link[l]) \/ Lapsed(link'[l]) THEN 0
                   ELSE Least(@ + 1, AgeCap),
         !.mute = @ /\ ~Answered(l)]]
  /\ UNCHANGED <<path, guard, faults>>

(* A measured round trip moves the smoothed RTT; it came in on the link.   *)
RttSample(l) ==
  /\ path[l] /\ link[l].up
  /\ \E r \in Rtts \ {link[l].rtt} :
       link' = [link EXCEPT ![l].rtt = r, ![l].proof = 0, ![l].heard = 0]
  /\ ghost' = [ghost EXCEPT ![l].mute = FALSE]
  /\ UNCHANGED <<path, guard, passed, faults>>

(* Payload piles up on a link that is not gated; a cumulative ACK heard on *)
(* any link empties the log of every link.                                 *)
Load(l) ==
  /\ link[l].up /\ ~link[l].gated /\ ~link[l].loaded
  /\ link' = [link EXCEPT ![l].loaded = TRUE]
  /\ UNCHANGED <<path, guard, passed, faults, ghost>>

DrainBacklog(l) ==
  /\ link[l].loaded
  /\ link' = [link EXCEPT ![l].loaded = FALSE]
  /\ UNCHANGED <<path, guard, passed, faults, ghost>>

(* A link that timed out gets a new socket and forgets its round trips     *)
(* (reset_for_reconnect); one whose batch was refused keeps them           *)
(* (mark_for_recovery).  REG3 brings either back.                          *)
Reconnect(l) ==
  /\ link[l].up /\ IsTimedOut(link[l])
  /\ link' = [link EXCEPT ![l] = NewLink]
  /\ ghost' = [ghost EXCEPT ![l] = NewGhost]
  /\ UNCHANGED <<path, guard, passed, faults>>

MarkForRecovery(l) ==
  /\ link[l].up /\ faults < MaxFaults
  /\ faults' = faults + 1
  /\ link' = [link EXCEPT ![l] = [NewLink EXCEPT !.rtt = link[l].rtt]]
  /\ ghost' = [ghost EXCEPT ![l] = NewGhost]
  /\ UNCHANGED <<path, guard, passed>>

Reg3(l) ==
  /\ path[l] /\ ~link[l].up
  /\ link' = [link EXCEPT ![l].up = TRUE, ![l].heard = 0, ![l].loaded = FALSE]
  /\ UNCHANGED <<path, guard, passed, faults, ghost>>

BreakPath(l) ==
  /\ path[l] /\ faults < MaxFaults
  /\ faults' = faults + 1
  /\ path' = [path EXCEPT ![l] = FALSE]
  /\ UNCHANGED <<link, guard, passed, ghost>>

MendPath(l) ==
  /\ ~path[l]
  /\ path' = [path EXCEPT ![l] = TRUE]
  /\ UNCHANGED <<link, guard, passed, faults, ghost>>

SetGuard ==
  /\ \E on \in GuardSettings \ {guard} : guard' = on
  /\ UNCHANGED <<link, path, passed, faults, ghost>>

Init ==
  /\ link = [l \in Links |-> NewLink]
  /\ path = [l \in Links |-> TRUE]
  /\ guard \in GuardSettings /\ (TRUE \in GuardSettings => guard)
  /\ passed = ~Steady
  /\ faults = 0
  /\ ghost = [l \in Links |-> NewGhost]

Next ==
  \/ Select
  \/ Tick
  \/ SetGuard
  \/ \E l \in Links :
       \/ RttSample(l) \/ Load(l) \/ DrainBacklog(l)
       \/ Reconnect(l) \/ MarkForRecovery(l) \/ Reg3(l) \/ BreakPath(l) \/ MendPath(l)

Spec == Init /\ [][Next]_vars

(***************************************************************************)
(* Properties                                                              *)
(***************************************************************************)
(* apply_stall_gate never gates the last usable link: whatever the latches *)
(* and pulls say, a pass that finds a link neither timed out nor           *)
(* unregistered leaves at least one such link ungated.                     *)
LastUsableKept ==
  [][Select => \/ Reserve \/ Usable(link') = {}
               \/ \E l \in Usable(link') : ~link'[l].gated]_vars

(* A latch releases only after an uninterrupted run of recent delivery     *)
(* proof as long as the dwell, doubled for every rejoin in a row           *)
(* that failed (update_stall_latch: "Proof going stale mid-run resets the  *)
(* run").  The silence pull is given up only to a link that has spoken: no *)
(* pass readmits a registered link that has been mute since it was pulled, *)
(* its drained backlog notwithstanding.                                    *)
ReleaseEarned ==
  [][Select /\ guard =>
       \A l \in Links :
         /\ (link[l].latched /\ ~link'[l].latched)
              => ghost[l].fresh >= DwellMult * EffectiveStale(link[l])
                                   * Least(2 ^ ghost[l].fails, BackoffMax)
         /\ (link[l].up /\ ghost[l].mute) => link'[l].pulled]_vars

(* No gate outlives its cause for good: on a path that works and measures  *)
(* a round trip inside the receiver's buffer, the latch and the pull are   *)
(* both off again and again (the keepalive echoes alone complete the       *)
(* dwell: STALL_REJOIN_PROOF_FLOOR_MS).                                    *)
GateLetsGo ==
  \A l \in Links :
    <>[](path[l] /\ link[l].up /\ ProofIsTimely(link[l]))
      => []<>(~link[l].latched /\ ~link[l].pulled)

(* Time passes, and a stream that flows is scheduled.                      *)
LiveSpec == Spec /\ WF_vars(Tick) /\ WF_vars(Select)
=============================================================================
