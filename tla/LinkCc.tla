------------------------------- MODULE LinkCc -------------------------------
(***************************************************************************)
(* The per-link congestion controller (LinkCongestionState, driven by      *)
(* LinkCcController::tick_all once per housekeeping tick): a soft cap      *)
(* target_bps with its states, the test whether backing off helps, and the *)
(* latched loss verdict.                                                   *)
(*                                                                         *)
(* What a tick reads is chosen anew each time: the time since the last     *)
(* tick, the traffic and NAKs since then, the throughput, and where the    *)
(* smoothed round trip stands against its minimum.  The loss EWMA is kept  *)
(* as a band; a tick moves it some way towards the loss just measured.     *)
(***************************************************************************)
EXTENDS Integers, FiniteSetsExt

CONSTANTS
  MinTarget, InitialTarget, MaxTarget,          \* bounds and seed of target_bps
  AiStep, HaiStep, FastStep,                    \* climbing steps, permille
  BackoffPm, DrainPm,                           \* decreases, permille
  OutlierFactor, MinLoadPm,                     \* CC_OUTLIER_FACTOR, BACKOFF_MIN_LOAD_PERMILLE
  LossBackoffPm,                                \* LOSS_BACKOFF_PERMILLE
  EfficacyTicks, ImprovementPm,                 \* BACKOFF_EFFICACY_*
  RetestTicks,                                  \* LOSS_UNCONGESTIVE_RETEST_TICKS
  FastTicks,                                    \* FAST_RECOVERY_TICKS
  DegradeSustain,                               \* LOSS_DEGRADE_SUSTAIN_MS
  LossWindow,                                   \* LOSS_WINDOW_MS
  Gaps, Rates, Traffic                          \* times between ticks, rates, [sent, lost]

ASSUME TargetAssumption ==
  /\ MinTarget \in Nat /\ InitialTarget \in Nat /\ MaxTarget \in Nat
  /\ MinTarget < InitialTarget /\ InitialTarget <= MaxTarget
  /\ Rates \subseteq Nat /\ Gaps \subseteq Nat \ {0}
  /\ Traffic \subseteq [sent : Nat, lost : Nat]

ASSUME StepsAssumption ==
  /\ AiStep \in Nat /\ HaiStep \in Nat /\ FastStep \in Nat
  /\ BackoffPm \in 0 .. 1000 /\ DrainPm \in 0 .. 1000
  /\ OutlierFactor \in Nat \ {0}
  /\ FastTicks \in Nat /\ EfficacyTicks \in Nat \ {0} /\ RetestTicks \in Nat \ {0}
  /\ DegradeSustain \in Nat /\ LossWindow \in Nat

States == {"Bootstrap", "Climbing", "Holding", "BackingOff", "Drain"}
Modes == {"Normal", "Hai", "FastRecovery"}
Quiet == [sent |-> 0, lost |-> 0]

\* LOSS_DEGRADE_CLEAR and LOSS_DEGRADE_ENTER cut the loss EWMA in three bands.
Bands == 0 .. 2
Low == 0
High == 2
BandOf(pm) == IF pm < 250 THEN 0 ELSE IF pm > 550 THEN 2 ELSE 1

\* Where the smoothed round trip stands: at most 1.5, below 2, or 2 times its
\* minimum or more (RTT_HOLD_FACTOR, DRAIN_RTT_INFLATION).
Inflation == {"flat", "rising", "bloated"}

VARIABLES
  cc,       \* the LinkCongestionState of the link
  samples,  \* its loss window: samples of traffic with their age
  rate,     \* history: the throughput the last tick read
  climbs,   \* history: climbing ticks since the last cut, NoCut if none led here
  vain,     \* history: BackingOff ticks since the loss last gave way
  entry,    \* history: the loss then
  above     \* history: how long the loss EWMA has been high

vars == <<cc, samples, rate, climbs, vain, entry, above>>

NoCut == -1

Default == [state |-> "Bootstrap", climb |-> "Normal", target |-> MinTarget, fast |-> 0,
            baseline |-> FALSE, ewma |-> Low, fresh |-> TRUE, highFor |-> NoCut,
            degraded |-> FALSE, ticks |-> 0, entryPm |-> 0, uncongestive |-> FALSE, held |-> 0]

-----------------------------------------------------------------------------
\* observe_traffic, record_loss and evict_expired: the first tick only takes a
\* baseline, a tick without traffic adds no sample, and a NAK without traffic
\* counts as one packet sent.
Aged(gap) == {[s EXCEPT !.age = s.age + gap] : s \in {t \in samples : t.age + gap <= LossWindow}}

Observe(gap, t) ==
  Aged(gap) \cup (IF cc.baseline /\ t # Quiet
                  THEN {[sent |-> IF t.lost > 0 THEN Max({t.sent, 1}) ELSE t.sent,
                         lost |-> t.lost, age |-> 0]}
                  ELSE {})

LossPermille(S) ==
  LET sent == MapThenSumSet(LAMBDA s : s.sent, S)
      lost == MapThenSumSet(LAMBDA s : s.lost, S)
  IN IF sent = 0 THEN 0 ELSE (lost * 1000) \div sent

\* update_loss_ewma: the first loss is taken as it is, a later one only pulls the
\* EWMA its way; the verdict latches after a sustained high and clears on a low.
EwmaAfter(c, pm) ==
  IF c.fresh THEN {BandOf(pm)} ELSE Min({c.ewma, BandOf(pm)}) .. Max({c.ewma, BandOf(pm)})

HighFor(c, band, gap) ==
  IF band # High THEN NoCut
  ELSE IF c.highFor = NoCut THEN 0 ELSE Min({c.highFor + gap, DegradeSustain})

UpdateLossEwma(c, band, gap) ==
  LET since == HighFor(c, band, gap) IN
  [c EXCEPT !.fresh = FALSE, !.ewma = band, !.highFor = since,
            !.degraded = IF band = Low THEN FALSE ELSE c.degraded \/ since = DegradeSustain]

\* update_backoff_efficacy, still with the state of the previous tick.
HoldVerdict(c, pm) ==
  IF c.held + 1 >= RetestTicks
  THEN [c EXCEPT !.uncongestive = FALSE, !.held = 0, !.ticks = 0, !.entryPm = pm]
  ELSE [c EXCEPT !.held = c.held + 1]

JudgeCutsOften(c, pm) == [c EXCEPT !.ticks = 0, !.entryPm = pm]

JudgeCuts(c, pm) ==
  IF c.ticks + 1 < EfficacyTicks THEN [c EXCEPT !.ticks = c.ticks + 1]
  ELSE IF pm * 1000 < c.entryPm * ImprovementPm
       THEN [c EXCEPT !.ticks = 0, !.entryPm = pm]
  ELSE [c EXCEPT !.ticks = c.ticks + 1, !.uncongestive = TRUE, !.held = 0]

UpdateBackoffEfficacy(c, pm) ==
  IF ~(pm > LossBackoffPm)
    THEN [c EXCEPT !.ticks = 0, !.entryPm = 0, !.uncongestive = FALSE, !.held = 0]
  ELSE IF c.uncongestive THEN HoldVerdict(c, pm)
  ELSE IF c.state # "BackingOff" THEN [c EXCEPT !.ticks = 0, !.entryPm = pm]
  ELSE JudgeCuts(c, pm)

-----------------------------------------------------------------------------
\* tick: the throughput with outliers cut, the seed of a target at its floor,
Clamp(x) == Min({Max({x, MinTarget}), MaxTarget})

Sane(c, observed) == Min({observed, OutlierFactor * Max({c.target, InitialTarget})})

Seed(c, sane) ==
  IF c.target = MinTarget THEN [c EXCEPT !.target = Clamp(Max({sane, InitialTarget}))] ELSE c

\* the next state,
NextState(c, pm, sane, rtt) ==
  IF pm > LossBackoffPm /\ sane * 1000 >= c.target * MinLoadPm /\ ~c.uncongestive
    THEN "BackingOff"
  ELSE IF rtt = "bloated" THEN "Drain"
  ELSE IF rtt = "rising" THEN "Holding"
  ELSE "Climbing"

\* pick_climb_mode,
ClimbMode(budget, stable) ==
  IF budget > 0 THEN "FastRecovery" ELSE IF stable THEN "Hai" ELSE "Normal"

StepOf(climb) ==
  IF climb = "FastRecovery" THEN FastStep ELSE IF climb = "Hai" THEN HaiStep ELSE AiStep

\* the growth of a climbing tick, bounded by twice the throughput,
Climb(target, sane, climb) ==
  IF sane = 0 THEN target
  ELSE target + Max({Min({(target * StepOf(climb)) \div 1000, 2 * sane - target}), 0})

\* the decrease of a backoff, floored at the throughput,
BackOffUnfloored(target, sane) == (target * BackoffPm) \div 1000

BackOff(target, sane) == Max({(target * BackoffPm) \div 1000, Min({sane, target})})

\* the budget of fast climbs: armed when a cut is left, spent after its use,
Budget(c, next) ==
  IF c.state \in {"BackingOff", "Drain"} /\ next = "Climbing" THEN FastTicks ELSE c.fast

SpendEarly(budget) == Max({budget - 2, 0})

Spend(budget) == Max({budget - 1, 0})

\* and all of it together.
Move(c, pm, sane, rtt, stable) ==
  LET next   == NextState(c, pm, sane, rtt)
      budget == Budget(c, next)
      climb  == IF next = "Climbing" THEN ClimbMode(budget, stable) ELSE "Normal"
      target == CASE next = "Climbing"   -> Climb(c.target, sane, climb)
                  [] next = "Holding"    -> c.target
                  [] next = "BackingOff" -> BackOff(c.target, sane)
                  [] next = "Drain"      -> IF c.state = "Drain" THEN c.target
                                            ELSE (c.target * DrainPm) \div 1000
  IN [c EXCEPT !.state = next, !.climb = climb, !.target = Clamp(target),
               !.fast = IF next = "Climbing" THEN Spend(budget) ELSE 0]

\* What the history makes of a tick that leads from c to d.
Remember(d, pm, gap) ==
  /\ climbs' = IF d.state # "Climbing" THEN NoCut
               ELSE IF cc.state \in {"BackingOff", "Drain"} THEN 1
               ELSE IF climbs = NoCut THEN NoCut ELSE Min({climbs + 1, FastTicks + 1})
  /\ LET gaveWay == pm * 1000 < entry * ImprovementPm IN
     /\ vain' = IF d.state # "BackingOff" THEN 0
                ELSE IF cc.state # "BackingOff" \/ (vain >= EfficacyTicks /\ gaveWay) THEN 1
                ELSE Min({vain + 1, EfficacyTicks + 1})
     /\ entry' = IF vain' = 1 THEN pm ELSE IF vain' = 0 THEN 0 ELSE entry
  /\ above' = IF d.ewma # High THEN NoCut
              ELSE IF above = NoCut THEN 0 ELSE Min({above + gap, DegradeSustain})

\* tick_all for one connection: RTT, traffic, tick.  Without any round trip yet
\* the controller stays in Bootstrap.
TickBootstrap(gap, t) ==
  /\ cc.state = "Bootstrap"
  /\ samples' = Observe(gap, t)
  /\ cc' = [cc EXCEPT !.baseline = TRUE]
  /\ UNCHANGED <<climbs, vain, entry, above>>

TickActive(gap, t, observed) ==
  \E S \in {Observe(gap, t)}, rtt \in Inflation, stable \in BOOLEAN :
    LET pm == LossPermille(S) IN
    \E band \in EwmaAfter(cc, pm), sane \in {Sane(cc, observed)} :
      \E c \in {UpdateBackoffEfficacy(Seed(UpdateLossEwma(cc, band, gap), sane), pm)} :
        \E d \in {Move(c, pm, sane, rtt, stable)} :
          /\ samples' = S
          /\ cc' = [d EXCEPT !.baseline = TRUE]
          /\ Remember(d, pm, gap)

TickAll(gap, t, observed) ==
  /\ rate' = observed
  /\ TickBootstrap(gap, t) \/ TickActive(gap, t, observed)

Tick == \E gap \in Gaps, t \in Traffic \cup {Quiet}, observed \in Rates : TickAll(gap, t, observed)

Init ==
  /\ cc = Default /\ samples = {} /\ rate = 0
  /\ climbs = NoCut /\ vain = 0 /\ entry = 0 /\ above = NoCut

\* The connection disappears from the list and its entry is dropped; one that
\* joins later starts anew.
Collect ==
  /\ cc' = Default /\ samples' = {} /\ rate' = 0
  /\ climbs' = NoCut /\ vain' = 0 /\ entry' = 0 /\ above' = NoCut

Next == Tick \/ Collect

Spec == Init /\ [][Next]_vars

-----------------------------------------------------------------------------
\* Type invariant; the target stays between its floor and its ceiling.
TypeOK ==
  /\ cc.state \in States /\ cc.climb \in Modes
  /\ cc.target \in MinTarget .. MaxTarget
  /\ cc.fast \in 0 .. FastTicks
  /\ cc.baseline \in BOOLEAN /\ cc.fresh \in BOOLEAN /\ cc.degraded \in BOOLEAN
  /\ cc.uncongestive \in BOOLEAN
  /\ cc.ewma \in Bands /\ cc.highFor \in NoCut .. DegradeSustain
  /\ cc.ticks \in 0 .. EfficacyTicks /\ cc.held \in 0 .. RetestTicks
  /\ \A s \in samples : s.age \in 0 .. LossWindow

\* FAST_RECOVERY_TICKS: of the climbing ticks that follow a backoff or a drain,
\* exactly the first FAST_RECOVERY_TICKS use the fast step, the arming tick
\* included ("the documented 5-tick window would only fire 4").
FastWindowFull ==
  (cc.state = "Climbing" /\ climbs # NoCut) =>
    (cc.climb = "FastRecovery" <=> climbs <= FastTicks)

\* BACKOFF_EFFICACY_TICKS "bounds the duration": the controller does not back
\* off more than that many ticks in a row while the loss stays where it was.
VainCutsStop == vain <= EfficacyTicks

\* The cap moves for its causes only.  "prevents ramp on idle links": a tick raises
\* the target only in Climbing and to no more than twice the throughput it has just
\* read, or from the floor, where it seeds it.  The delivered floor: a backoff never
\* puts the cap of a link under the rate it is carrying, if it was not there before.
\* And loss_degraded is latched only by a loss EWMA that has been above
\* LOSS_DEGRADE_ENTER, without a break, for LOSS_DEGRADE_SUSTAIN_MS.
TargetEarned ==
  [][/\ (cc'.target > cc.target /\ cc.target # MinTarget) =>
          (cc'.state = "Climbing" /\ cc'.target <= 2 * rate')
     /\ cc'.state = "BackingOff" => cc'.target >= Min({rate', cc.target})
     /\ (cc'.degraded /\ ~cc.degraded) => above' = DegradeSustain]_vars

\* "Clamped to prev so a backoff can never raise the cap" (link_cc.rs).
CutNeverRaises ==
  [][cc'.state = "BackingOff" => cc'.target <= cc.target]_vars
=============================================================================
