------------------------------ MODULE LinkHealth ------------------------------
(***************************************************************************)
(* The congestion window, the NAK burst counter, the cached quality and    *)
(* the lifecycle phase of one link: CongestionControl, CachedQuality and   *)
(* LinkPhase, driven by NAKs, SRTLA ACKs, keepalive echoes, the selection  *)
(* passes that refresh the cache, and housekeeping.                        *)
(*                                                                         *)
(* Time is counted in whole units; a stamp is kept as the age it has, and  *)
(* Never stands for the 0 the code uses for "not yet".  The quality        *)
(* multiplier is in permille, with its exponential given by Decay, one     *)
(* entry per unit of age.                                                  *)
(***************************************************************************)
EXTENDS Integers, Sequences, FiniteSetsExt

CONSTANTS
  WMin, WDef, WMax,                 \* WINDOW_MIN, _DEF and _MAX times WINDOW_MULT
  WIncr, WDecr,                     \* WINDOW_INCR, WINDOW_DECR
  FastEnter, FastDisable,           \* windows that start and end fast recovery
  BurstWindow, BurstThreshold,      \* NAK_BURST_WINDOW_MS and the burst that counts
  BurstMaxAge,                      \* NAK_BURST_MAX_AGE_MS
  NormalMinWait, FastMinWait,       \* waits after a NAK
  NormalIncWait, FastIncWait,       \* waits between two increments
  SlowAfter, ModerateAfter, AggressiveAfter,  \* quiet times of the recovery rates
  Grace,                            \* STARTUP_GRACE_PERIOD_MS
  WarmingProbes, WarmingTimeout,    \* WARMING_RTT_PROBES, WARMING_TIMEOUT_MS
  Decay,                            \* 1000 * (1 - 0.5 * e^(-age / 2000 ms))
  LossVerdicts,                     \* the loss verdicts LinkCc may hand over
  Modes,                            \* scheduling modes the operator may choose
  AgeCap, MaxNaks, MaxResets        \* bounds of the model

ASSUME WindowAssumption ==
  /\ WMin \in Nat /\ WDef \in Nat /\ WMax \in Nat /\ WIncr \in Nat /\ WDecr \in Nat
  /\ WMin <= WDef /\ WDef <= WMax
  /\ WIncr >= 8                     \* an eighth of it is still an increment
ASSUME AgeAssumption ==
  /\ AgeCap \in Nat /\ BurstWindow \in Nat /\ Grace \in Nat
  /\ AgeCap > Max({BurstWindow, BurstMaxAge, NormalMinWait, NormalIncWait,
                   AggressiveAfter, Grace, WarmingTimeout})
ASSUME DecayAssumption == Decay \in Seq(Nat) /\ Len(Decay) > AgeCap
ASSUME ChoicesAssumption == LossVerdicts \subseteq BOOLEAN /\ MaxNaks \in Nat /\ MaxResets \in Nat

Never == -1
Ages == {Never} \cup 0 .. AgeCap
Older(age) == IF age \in {Never, AgeCap} THEN age ELSE age + 1

Phases == {"registering", "warming", "live", "degraded"}

VARIABLES
  connected,    \* conn.connected
  window,       \* conn.window
  nakAge,       \* congestion.last_nak_time_ms; nak_count is 0 iff it is Never
  incAge,       \* congestion.last_window_increase_ms
  fast,         \* congestion.fast_recovery_mode
  burst,        \* congestion.nak_burst_count
  low,          \* quality_cache.multiplier < DEGRADED_QUALITY_THRESHOLD
  phase,        \* the LinkPhase,
  probes,       \* ... the rtt_probes of Warming,
  phaseAge,     \* ... and its entered_ms
  established,  \* reconnection.connection_established_ms
  loss,         \* conn.loss_degraded
  mode,         \* the configured scheduling mode
  run,          \* history: NAKs in a row, each within BurstWindow of the last
  wasLossy,     \* history: loss has been set since the last REG3
  naks, resets  \* bounds: NAKs and resets so far

cc   == <<window, nakAge, incAge, fast, burst>>
life == <<phase, probes, phaseAge, established>>
vars == <<connected, cc, low, life, loss, mode, run, wasLossy, naks, resets>>

-----------------------------------------------------------------------------
\* handle_nak of the congestion control: the burst counter ...
BurstAfterNakKept ==
  IF nakAge # Never /\ nakAge < BurstWindow THEN IF burst = 0 THEN 2 ELSE burst + 1
  ELSE burst

BurstAfterNak ==
  IF nakAge # Never /\ nakAge < BurstWindow THEN IF burst = 0 THEN 2 ELSE burst + 1
  ELSE 0

\* ... and the window, which a NAK shrinks down to the floor.
WindowAfterNak == Max({window - WDecr, WMin})

\* A NAK for a packet this link has in its log, whether or not it is connected.
Nak ==
  /\ naks < MaxNaks
  /\ naks' = naks + 1
  /\ burst' = BurstAfterNak
  /\ nakAge' = 0
  /\ window' = WindowAfterNak
  /\ fast' = (fast \/ WindowAfterNak <= FastEnter)
  /\ run' = IF nakAge # Never /\ nakAge < BurstWindow THEN run + 1 ELSE 1
  /\ UNCHANGED <<connected, incAge, low, life, loss, mode, wasLossy, resets>>

\* An SRTLA ACK for a packet of this link; busy says that in_flight times
\* WINDOW_MULT exceeds the window.  Both modes grow the window alike, only
\* Enhanced leaves fast recovery.
AckSpecific ==
  /\ \E busy \in BOOLEAN :
       window' = IF busy THEN Min({window + WIncr - 1, WMax}) ELSE window
  /\ fast' = (fast /\ (mode = "classic" \/ window' < FastDisable))
  /\ UNCHANGED <<connected, nakAge, incAge, burst, low, life, loss, mode, run,
                 wasLossy, naks, resets>>

\* Any SRTLA ACK of the group: one more for every connected link.
AckGlobal ==
  /\ connected
  /\ window' = Min({window + 1, WMax})
  /\ UNCHANGED <<connected, nakAge, incAge, fast, burst, low, life, loss, mode, run,
                 wasLossy, naks, resets>>

-----------------------------------------------------------------------------
\* "Never had a NAK" counts as a very long time without one.
SinceNakNone == IF nakAge = Never THEN 0 ELSE nakAge

SinceNak == IF nakAge = Never THEN AgeCap ELSE nakAge

RecoveryIncrement(rising) ==
  LET bonus == IF fast THEN 2 ELSE 1
      base  == IF SinceNak > AggressiveAfter THEN WIncr * 2 * bonus
               ELSE IF SinceNak > ModerateAfter THEN WIncr * bonus
               ELSE IF SinceNak > SlowAfter THEN (WIncr * bonus) \div 2
               ELSE (WIncr * bonus) \div 4
  IN IF rising THEN base \div 2 ELSE base

\* perform_window_recovery; rising says the RTT velocity is above its gate.
PerformWindowRecovery(rising) ==
  IF ~connected \/ window >= WMax THEN UNCHANGED cc
  ELSE /\ burst' = IF SinceNak >= BurstWindow THEN 0 ELSE burst
       /\ IF /\ SinceNak > IF fast THEN FastMinWait ELSE NormalMinWait
             /\ incAge > IF fast THEN FastIncWait ELSE NormalIncWait
          THEN /\ window' = Min({window + RecoveryIncrement(rising), WMax})
               /\ incAge' = 0
               /\ fast' = (fast /\ window' < FastDisable)
          ELSE UNCHANGED <<window, incAge, fast>>
       /\ UNCHANGED nakAge

\* update_phase, on the burst counter that the recovery left behind.
UpdatePhase ==
  LET degraded  == low /\ burst' >= BurstThreshold
      recovered == ~low /\ burst' < BurstThreshold
  IN phase' = IF phase = "warming" /\ phaseAge >= WarmingTimeout THEN "live"
              ELSE IF phase = "live" /\ (degraded \/ loss) THEN "degraded"
              ELSE IF phase = "degraded" /\ recovered /\ ~loss THEN "live"
              ELSE phase

\* One housekeeping pass over the link.  The loss verdict is written after the
\* phase has been updated, so it takes effect on the next pass.
Housekeeping ==
  /\ \E rising \in BOOLEAN : IF mode = "classic" THEN UNCHANGED cc
                             ELSE PerformWindowRecovery(rising)
  /\ UpdatePhase
  /\ loss' \in LossVerdicts
  /\ wasLossy' = (wasLossy \/ loss')
  /\ UNCHANGED <<connected, low, probes, phaseAge, established, mode, run, naks, resets>>

-----------------------------------------------------------------------------
\* calculate_quality_multiplier in permille; bonus is the RTT bonus.
QualityMultiplierNoGrace(bonus) ==
  LET mult  == IF nakAge = Never THEN 1100 ELSE Decay[nakAge + 1]
      burnt == IF nakAge # Never /\ burst >= BurstThreshold /\ nakAge < BurstMaxAge
               THEN (mult * 7) \div 10 ELSE mult
  IN (burnt * bonus) \div 1000

QualityMultiplier(bonus) ==
  LET mult  == IF nakAge = Never THEN 1100 ELSE Decay[nakAge + 1]
      burnt == IF nakAge # Never /\ burst >= BurstThreshold /\ nakAge < BurstMaxAge
               THEN (mult * 7) \div 10 ELSE mult
  IN IF established < Grace THEN IF nakAge = Never THEN 1100 ELSE 980
     ELSE (burnt * bonus) \div 1000

\* A selection pass of Enhanced mode that ranks this link, with its cached
\* quality older than QUALITY_CACHE_INTERVAL_MS.
Rank ==
  /\ mode = "enhanced" /\ phase # "registering"
  /\ \E bonus \in {1000, 1030} : low' = (QualityMultiplier(bonus) < 500)
  /\ UNCHANGED <<connected, cc, life, loss, mode, run, wasLossy, naks, resets>>

\* A keepalive echo that gives an RTT sample.
RecordRttProbe ==
  /\ phase = "warming"
  /\ probes' = probes + 1
  /\ phase' = IF probes' >= WarmingProbes THEN "live" ELSE phase
  /\ UNCHANGED <<connected, cc, low, phaseAge, established, loss, mode, run, wasLossy,
                 naks, resets>>

ResetCongestion ==
  /\ nakAge' = Never /\ incAge' = AgeCap
  /\ fast' = FALSE /\ burst' = 0
  /\ run' = 0

\* REG3: clear_pre_registration_state, then connected.
Reg3 ==
  /\ phase = "registering"
  /\ connected' = TRUE
  /\ ResetCongestion
  /\ low' = FALSE
  /\ phase' = "warming" /\ probes' = 0 /\ phaseAge' = 0
  /\ established' = IF established = Never THEN 0 ELSE established
  /\ wasLossy' = loss
  /\ UNCHANGED <<window, loss, mode, naks, resets>>

\* reset_core_state, of a link that mark_for_recovery or a new socket resets;
\* only the new socket resets the congestion control as well.
Reset ==
  /\ resets < MaxResets
  /\ resets' = resets + 1
  /\ connected' = FALSE
  /\ window' = WDef
  /\ phase' = "registering"
  /\ \/ UNCHANGED <<nakAge, incAge, fast, burst, run>>      \* mark_for_recovery
     \/ ResetCongestion                                     \* reset_for_reconnect
  /\ UNCHANGED <<low, probes, phaseAge, established, loss, mode, wasLossy, naks>>

SetMode ==
  /\ mode' \in Modes \ {mode}
  /\ UNCHANGED <<connected, cc, low, life, loss, run, wasLossy, naks, resets>>

Tick ==
  /\ nakAge' = Older(nakAge)
  /\ incAge' = Older(incAge)
  /\ phaseAge' = IF phase = "warming" THEN Older(phaseAge) ELSE phaseAge
  /\ established' = Older(established)
  /\ UNCHANGED <<connected, window, fast, burst, low, phase, probes, loss, mode, run,
                 wasLossy, naks, resets>>

-----------------------------------------------------------------------------
Init ==
  /\ connected = FALSE /\ window = WDef
  /\ nakAge = Never /\ incAge = AgeCap /\ fast = FALSE /\ burst = 0
  /\ low = FALSE
  /\ phase = "registering" /\ probes = 0 /\ phaseAge = 0 /\ established = Never
  /\ loss = FALSE /\ mode \in Modes
  /\ run = 0 /\ wasLossy = FALSE
  /\ naks = 0 /\ resets = 0

Next ==
  \/ Nak \/ AckSpecific \/ AckGlobal \/ Housekeeping \/ Rank
  \/ RecordRttProbe \/ Reg3 \/ Reset \/ SetMode \/ Tick

Spec == Init /\ [][Next]_vars

\* The housekeeping timer of the event loop always fires again, time passes,
\* and the receiver answers a registration that is retried for ever.
LiveSpec == Spec /\ WF_vars(Housekeeping) /\ WF_vars(Tick) /\ WF_vars(Reg3)

-----------------------------------------------------------------------------
\* Type invariant; the window never leaves its range, whatever order ACKs,
\* NAKs, recoveries and resets arrive in.
TypeOK ==
  /\ connected \in BOOLEAN
  /\ window \in WMin .. WMax
  /\ nakAge \in Ages /\ incAge \in 0 .. AgeCap
  /\ fast \in BOOLEAN
  /\ burst \in Nat /\ run \in Nat
  /\ low \in BOOLEAN /\ loss \in BOOLEAN /\ mode \in Modes
  /\ phase \in Phases /\ probes \in Nat /\ phaseAge \in 0 .. AgeCap
  /\ established \in Ages
  /\ wasLossy \in BOOLEAN
  /\ naks \in 0 .. MaxNaks /\ resets \in 0 .. MaxResets

\* nak_burst_count (handle_nak) never charges a link for NAKs that were not a
\* burst: a burst of k means that the last k NAKs followed one another within
\* NAK_BURST_WINDOW_MS, over ticks, recoveries, resets and re-registrations.
BurstCountsRun == burst = 0 \/ (burst = run /\ run > 1)

\* "Startup grace period - prevents early NAKs from degrading connections"
\* (quality.rs): in its first Grace units after it was first established a link
\* is degraded only if the loss verdict has been set meanwhile, however many
\* NAKs it got before or after REG3.
GraceProtects ==
  (phase = "degraded" /\ established < Grace) => wasLossy

\* The low window of a link that lost packets, or was reset, does not stay low:
\* when NAKs and resets have ended, a connected link in Enhanced mode gets back to
\* the widest window, and keeps it, by housekeeping alone, even if no ACK ever comes
\* (perform_window_recovery).
WindowRecovers == <>[](connected /\ mode = "enhanced") => <>[](window = WMax)
=============================================================================
