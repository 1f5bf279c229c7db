------------------------------ MODULE Classifier ------------------------------
(***************************************************************************)
(* The weak-link filter (WeakLinkFilter::classify): once per housekeeping  *)
(* tick it judges every link by its round trip, a forming queue and its    *)
(* share of the throughput, keeps hysteresis and streaks per connection,   *)
(* and re-tests links that are starved of traffic.                         *)
(*                                                                         *)
(* What the links measure in a tick is chosen anew with every Classify.    *)
(* Rates are in kbit/s, delays in ms, shares in permille, and every        *)
(* division truncates as the casts of the code do.                         *)
(***************************************************************************)
EXTENDS Integers, FiniteSets, FiniteSetsExt, Functions

CONSTANTS
  Links, Rates, Rtts,     \* the links and what they may measure
  Latencies,              \* receive buffers the peer may have declared, 0 for none
  MinTotal,               \* MIN_TOTAL_BPS_FOR_CLASSIFICATION
  Sustain,                \* WEAK_SUSTAIN_TICKS
  Interval, Window,       \* PROBATION_INTERVAL_TICKS, PROBATION_WINDOW_TICKS
  BackoffMax,             \* PROBATION_BACKOFF_MAX
  FailCap                 \* bound on the failed re-tests the history counts

ClassifierAssumption ==
  /\ Sustain \in Nat \ {0} /\ Interval \in Nat \ {0} /\ Window \in Nat \ {0}
  /\ BackoffMax \in Nat \ {0, 1} /\ 2 ^ FailCap >= BackoffMax
  /\ Rates \subseteq Nat /\ Rtts \subseteq Nat /\ Latencies \subseteq Nat

\* Facts of arithmetic that the provers do not have: powers of two double, and the
\* round trips of any links have a largest.
FilterFacts ==
  /\ FailCap \in Nat /\ 2 ^ 0 = 1
  /\ \A k \in 0 .. FailCap : 2 ^ k \in Nat \ {0} /\ 2 ^ (k + 1) = 2 * 2 ^ k
  /\ \A S \in SUBSET Rtts : S # {} => \E m \in S : \A r \in S : r <= m

Delay == {"HighRtt", "QueueBuilding"}
Share == {"LowShare", "NoTraffic"}
Reasons == Delay \cup Share \cup {"Healthy", "Bypassed"}

\* What the five maps of the filter hold for a connection; a connection without
\* an entry reads as NoHistory.  Streaks stop counting where no test tells
\* longer ones apart.
History == [weak : BOOLEAN, delayed : 0 .. Sustain, streak : 0 .. Interval * BackoffMax,
            probation : 0 .. Window, backoff : 0 .. BackoffMax]
NoHistory == [weak |-> FALSE, delayed |-> 0, streak |-> 0, probation |-> 0, backoff |-> 0]

Sample == [connected : {TRUE}, rate : Rates, rtt : Rtts, queue : BOOLEAN]
          \cup [connected : {FALSE}, rate : {0}, rtt : {0}, queue : {FALSE}]

VARIABLES
  hist,     \* the filter's maps
  verdict,  \* conn.weak_reason; conn.weak is reason \notin {Healthy, Bypassed}
  late,     \* history: ticks in a row with a delay signal, up to Sustain
  fails,    \* history: re-tests armed since the link last was healthy on its own
  tier      \* history: the tier picked by the last tick, and what it was picked from

vars == <<hist, verdict, late, fails, tier>>

-----------------------------------------------------------------------------
\* derive_max_delay_budget and delay_budget_ms.
Clamp(x, lo, hi) == Min({Max({x, lo}), hi})

DelayBudget(latency, longest) ==
  IF latency = 0 THEN Clamp(longest * 3, 500, 5000) ELSE Clamp(latency * 2, 500, 20000)

\* target_best_delay_ms, target_safe_delay_ms and target_max_delay_ms.
Targets(budget) == [best |-> Min({(budget * 40) \div 100, 2500}),
                    safe |-> Min({(budget * 50) \div 100, 2500}),
                    max  |-> Min({(budget * 60) \div 100, 5000})]

\* The permille of the throughput that links within a delay carry.
Total(view, S) == FoldFunctionOnSet(LAMBDA a, b : a + b, 0, [l \in Links |-> view[l].rate], S)
Within(view, C, delay) ==
  (Total(view, {l \in C : view[l].rtt <= delay}) * 1000) \div Total(view, C)

\* pick_tier.
PickTier(best, safe, max, t) ==
  IF best > 850 THEN t.best
  ELSE IF safe > 850 THEN t.safe
  ELSE IF max > 850
       THEN IF best > 500 THEN t.best
            ELSE IF safe > 500 THEN t.safe
            ELSE IF max > 500 THEN t.max
            ELSE IF best > 250 THEN t.best
            ELSE IF safe > 250 THEN t.safe
            ELSE t.max
  ELSE t.max

-----------------------------------------------------------------------------
\* The delay signal of one link and the streak it makes.
DelaySignal(s, delay) ==
  IF s.rtt > delay THEN "HighRtt" ELSE IF s.queue THEN "QueueBuilding" ELSE "none"

DelayStreak(h, signal) == IF signal = "none" THEN 0 ELSE Min({h.delayed + 1, Sustain})

\* The verdict of the tick before probation; n links are connected.
Judge(h, s, n) ==
  IF DelayStreak(h, s.signal) >= Sustain THEN s.signal
  ELSE IF s.idle THEN "NoTraffic"
  ELSE IF s.share < (IF h.weak THEN 750 ELSE 250) \div n THEN "LowShare"
  ELSE "Healthy"

ShareWeakIdleExempt(reason) == reason = "LowShare"

ShareWeak(reason) == reason \in Share

ProbationBackoffNext(b) == Min({IF b <= 1 THEN 2 ELSE 2 * b, BackoffMax})

\* The probation re-test: what it makes of the verdict, and the history it leaves.
WindowHoldsAlways(h, d) == h.probation > 0

WindowHolds(h, d) == h.probation > 0 /\ d < Sustain

ForgivenBackoffAnyway(h, reason) == 1

ForgivenBackoff(h, reason) == IF reason = "Healthy" THEN 1 ELSE h.backoff

Probation(h, d, reason) ==
  IF WindowHolds(h, d)
    THEN [hist |-> [h EXCEPT !.delayed = d, !.weak = FALSE, !.streak = 0,
                             !.probation = h.probation - 1],
          reason |-> "Healthy"]
  ELSE IF h.probation > 0
    THEN [hist |-> [h EXCEPT !.delayed = d, !.weak = TRUE, !.streak = 0, !.probation = 0],
          reason |-> reason]
  ELSE IF ShareWeak(reason)
    THEN LET due == h.streak + 1 >= Interval * Max({h.backoff, 1}) IN
         [hist |-> [weak |-> TRUE, delayed |-> d,
                    streak |-> IF due THEN 0 ELSE h.streak + 1,
                    probation |-> IF due THEN Window ELSE 0,
                    backoff |-> IF due THEN ProbationBackoffNext(h.backoff) ELSE h.backoff],
          reason |-> reason]
  ELSE [hist |-> [weak |-> reason # "Healthy", delayed |-> d, streak |-> 0, probation |-> 0,
                  backoff |-> ForgivenBackoff(h, reason)],
        reason |-> reason]

ClassifyLink(h, s, n) == Probation(h, DelayStreak(h, s.signal), Judge(h, s, n))

-----------------------------------------------------------------------------
\* The first two passes over the links, which only read what they measure: the
\* tier that is picked, and by it the delay signal and the share of each
\* connected link.  Too little traffic, or no link connected, is a Bypass.
NoTier == [delay |-> 0, latency |-> 0, longest |-> 0]

Assess(view, latency) ==
  LET C       == {l \in Links : view[l].connected}
      longest == Max({view[l].rtt : l \in C})
      targets == Targets(DelayBudget(latency, longest))
      fit     == <<Within(view, C, targets.best), Within(view, C, targets.safe),
                   Within(view, C, targets.max)>>
      delay   == PickTier(fit[1], fit[2], fit[3], targets)
  IN IF C = {} \/ Total(view, C) < MinTotal THEN [bypass |-> TRUE]
     ELSE [bypass |-> FALSE, n |-> Cardinality(C),
           seen |-> [l \in C |-> [signal |-> DelaySignal(view[l], delay),
                                  idle |-> view[l].rate = 0,
                                  share |-> (view[l].rate * 1000) \div Total(view, C)]],
           tier |-> [delay |-> delay, latency |-> latency, longest |-> longest]]

Ticks == {Assess(view, latency) : view \in [Links -> Sample], latency \in Latencies}

\* All links healthy, all history dropped.
Bypass ==
  /\ hist' = [l \in Links |-> NoHistory]
  /\ verdict' = [l \in Links |-> "Bypassed"]
  /\ late' = [l \in Links |-> 0]
  /\ fails' = [l \in Links |-> 0]
  /\ tier' = NoTier

\* The history variables after a link got the record r.
FailsAfter(l, r) ==
  IF r.hist.probation = Window /\ hist[l].probation = 0 THEN Min({fails[l] + 1, FailCap})
  ELSE IF r.reason = "Healthy" /\ hist[l].probation = 0 THEN 0
  ELSE fails[l]

\* The third pass; a link that is not connected is healthy and loses its history.
ClassifyAll(t) ==
  LET C == DOMAIN t.seen IN
  \E out \in {[l \in C |-> ClassifyLink(hist[l], t.seen[l], t.n)]} :
    /\ hist' = [l \in Links |-> IF l \in C THEN out[l].hist ELSE NoHistory]
    /\ verdict' = [l \in Links |-> IF l \in C THEN out[l].reason ELSE "Healthy"]
    /\ late' = [l \in Links |-> IF l \in C /\ t.seen[l].signal # "none"
                                THEN Min({late[l] + 1, Sustain}) ELSE 0]
    /\ fails' = [l \in Links |-> IF l \in C THEN FailsAfter(l, out[l]) ELSE 0]
    /\ tier' = t.tier

ClassifyTick(t) == IF t.bypass THEN Bypass ELSE ClassifyAll(t)

Classify == \E t \in Ticks : ClassifyTick(t)

Init ==
  /\ hist = [l \in Links |-> NoHistory]
  /\ verdict = [l \in Links |-> "Healthy"]
  /\ late = [l \in Links |-> 0] /\ fails = [l \in Links |-> 0]
  /\ tier = NoTier

Spec == Init /\ [][Classify]_vars

\* The housekeeping timer fires again and again.
LiveSpec == Spec /\ WF_vars(Classify)

-----------------------------------------------------------------------------
\* Type invariant.
TypeOK ==
  /\ hist \in [Links -> History]
  /\ verdict \in [Links -> Reasons]
  /\ late \in [Links -> 0 .. Sustain]
  /\ fails \in [Links -> 0 .. FailCap]

\* "A live delay verdict cancels the window outright" (classify): a link that
\* has shown a delay signal for WEAK_SUSTAIN_TICKS ticks in a row is gated as
\* late in that very tick, whatever re-test it is in, and no other link is.  With a
\* budget derived from its own round trips (no latency negotiated yet) the filter
\* calls no link late for a round trip of at most two seconds: the tightest tier is
\* 40% of three times the longest round trip, capped at 5 s.
LateIsGated ==
  /\ \A l \in Links : verdict[l] \in Delay <=> late[l] = Sustain
  /\ (tier.latency = 0 /\ tier.longest > 0 /\ tier.longest <= 2000) => tier.longest <= tier.delay

\* "The wait before each re-test doubles while they keep failing" (classify):
\* the multiplier is 2^k, up to its ceiling, after k re-tests in a row none of
\* which ended in a healthy verdict; delay verdicts in between, cancelled
\* windows and share hysteresis do not forgive it.
FailuresPriced ==
  \A l \in Links :
    IF fails[l] = 0 THEN hist[l].backoff <= 1
    ELSE hist[l].backoff = Min({2 ^ fails[l], BackoffMax})

\* The probation re-test "breaks the share-starvation latch": whatever a link
\* measures, it is not kept gated for its share for ever.
StarvedRetested == \A l \in Links : []<>(verdict[l] \notin Share)

\* "Pick the tightest tier where >=85% of throughput still fits" (classifier.rs).
TightestTier ==
  LET t == Targets(500) IN
  \A best, safe \in 0 .. 1000 :
    /\ best >= 850 => PickTier(best, safe, 1000, t) = t.best
    /\ (best < 850 /\ safe >= 850) => PickTier(best, safe, 1000, t) = t.safe
=============================================================================
