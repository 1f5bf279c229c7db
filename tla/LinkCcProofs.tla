---------------------------- MODULE LinkCcProofs ----------------------------
(***************************************************************************)
(* The congestion controller of a link, for every bound, step, window and  *)
(* number of ticks the constants may have, and for any traffic: the fast   *)
(* window is served in full, vain cuts stop, and the cap moves for its     *)
(* causes only.  After it the weak-link filter over any links: late links  *)
(* are gated and failed re-tests are priced.                               *)
(*                                                                         *)
(* The loss a tick measures is a sum over the loss window; what it comes   *)
(* to plays no part in the argument, so it is never expanded.              *)
(***************************************************************************)
EXTENDS LinkRating, TLAPS

\* A LinkCongestionState with every field in its range, and the loss p at the entry
\* of its backoff: any p, as the argument does not depend on it.
StateWith(c, p) ==
  c \in [state : States, climb : Modes, target : MinTarget .. MaxTarget, fast : 0 .. FastTicks,
         baseline : BOOLEAN, ewma : Bands, fresh : BOOLEAN, highFor : NoCut .. DegradeSustain,
         degraded : BOOLEAN, ticks : 0 .. EfficacyTicks, entryPm : {p},
         uncongestive : BOOLEAN, held : 0 .. RetestTicks]

IsState(c) == StateWith(c, c.entryPm)

\* The budget of fast climbs is what the climbs since the cut have left of it, and
\* there is none outside such a climb.
BudgetLeft ==
  /\ climbs \in {NoCut} \cup 1 .. FastTicks + 1
  /\ climbs # NoCut => cc.state = "Climbing"
  /\ cc.fast = IF climbs = NoCut \/ climbs > FastTicks THEN 0 ELSE FastTicks - climbs

\* The controller's own count of ticks in a backoff is one behind the vain ones, its
\* entry loss is the loss the count began with, and it is not yet at the end.
BackoffCounted ==
  /\ vain \in Nat
  /\ cc.state # "BackingOff" => vain = 0
  /\ cc.state = "BackingOff" =>
       /\ ~cc.uncongestive /\ cc.ticks < EfficacyTicks
       /\ vain = cc.ticks + 1 /\ cc.entryPm = entry

\* The latch's timer is the time the loss has been high.
HighTimed == cc.highFor = above

\* The loss window holds samples that have not expired.
InWindow == samples \subseteq [sent : Nat, lost : Nat, age : 0 .. LossWindow]

IInv ==
  /\ IsState(cc) /\ BudgetLeft /\ FastWindowFull /\ BackoffCounted /\ HighTimed
  /\ InWindow

\* What TargetEarned says of a step.
Earned ==
  /\ (cc'.target > cc.target /\ cc.target # MinTarget) =>
       (cc'.state = "Climbing" /\ cc'.target <= 2 * rate')
  /\ cc'.state = "BackingOff" => cc'.target >= Min({rate', cc.target})
  /\ (cc'.degraded /\ ~cc.degraded) => above' = DegradeSustain

-----------------------------------------------------------------------------
(* Operators *)

(* max and min of the pairs the controller compares.                       *)
LEMMA MaxOfTwo ==
  ASSUME NEW a \in Int, NEW b \in Int
  PROVE  Max({a, b}) = IF a >= b THEN a ELSE b
<1> DEFINE m == IF a >= b THEN a ELSE b
<1>1. m \in {a, b} /\ \A y \in {a, b} : m >= y OBVIOUS
<1>2. \A x \in {a, b} : (\A y \in {a, b} : x >= y) => x = m OBVIOUS
<1> QED BY <1>1, <1>2 DEF Max

LEMMA MinOfTwo ==
  ASSUME NEW a \in Int, NEW b \in Int
  PROVE  Min({a, b}) = IF a <= b THEN a ELSE b
<1> DEFINE m == IF a <= b THEN a ELSE b
<1>1. m \in {a, b} /\ \A y \in {a, b} : m <= y OBVIOUS
<1>2. \A x \in {a, b} : (\A y \in {a, b} : x <= y) => x = m OBVIOUS
<1> QED BY <1>1, <1>2 DEF Min

(* A permille of at most 1000 takes a part: a decrease is one.             *)
Permille == 0 .. 1000
Part(x, p) == (x * p) \div 1000

LEMMA PartOf ==
  ASSUME NEW x \in Nat, NEW p \in Permille
  PROVE  Part(x, p) \in 0 .. x
<1>0. p \in 0 .. 1000 BY DEF Permille
<1>1. x * p \in Nat /\ x * p <= x * 1000
  <2>1. x * (1000 - p) \in Nat BY <1>0
  <2>2. x * (1000 - p) = x * 1000 - x * p BY <1>0, SMTT(30)
  <2>3. x * p \in Nat BY <1>0
  <2> QED BY <2>1, <2>2, <2>3, SMTT(30)
<1> DEFINE y == x * p
<1> HIDE DEF y
<1>2. y \in Nat /\ y <= x * 1000 BY <1>1 DEF y
<1>3. y \div 1000 \in 0 .. x BY <1>2
<1> QED BY <1>3, SMTT(30) DEF y, Part

(* clamp keeps a value between the bounds, moves none that is there, and   *)
(* neither lifts one above the floor nor lowers one under the ceiling.     *)
LEMMA ClampWithin ==
  ASSUME NEW x \in Int
  PROVE  /\ Clamp(x) \in MinTarget .. MaxTarget
         /\ x >= MinTarget => Clamp(x) <= x
         /\ x <= MaxTarget => Clamp(x) >= x
<1>1. MinTarget \in Nat /\ MaxTarget \in Nat /\ MinTarget < MaxTarget BY TargetAssumption
<1>2. Max({x, MinTarget}) = IF x >= MinTarget THEN x ELSE MinTarget BY <1>1, MaxOfTwo
<1>3. Max({x, MinTarget}) \in Int BY <1>1, <1>2
<1>4. Clamp(x) = IF Max({x, MinTarget}) <= MaxTarget THEN Max({x, MinTarget}) ELSE MaxTarget
  BY <1>1, <1>3, MinOfTwo, SMTT(30) DEF Clamp
<1> QED BY <1>1, <1>2, <1>4

(* The throughput a tick works with is at most the one it read, and falls  *)
(* under it only above the target.                                         *)
LEMMA SaneBounds ==
  ASSUME NEW c, IsState(c), NEW observed \in Nat
  PROVE  /\ Sane(c, observed) \in Nat
         /\ Sane(c, observed) <= observed
         /\ Sane(c, observed) = observed \/ Sane(c, observed) >= c.target
<1>1. c.target \in Nat /\ InitialTarget \in Nat /\ OutlierFactor \in Nat \ {0}
  BY TargetAssumption, StepsAssumption DEF IsState, StateWith
<1> DEFINE m == Max({c.target, InitialTarget})
<1>2. m \in Nat /\ m >= c.target BY <1>1, MaxOfTwo
<1> HIDE DEF m
<1>3. OutlierFactor * m \in Nat /\ OutlierFactor * m >= m
  <2>1. (OutlierFactor - 1) * m \in Nat BY <1>1, <1>2
  <2>2. (OutlierFactor - 1) * m = OutlierFactor * m - m BY <1>1, <1>2
  <2>3. OutlierFactor * m \in Nat BY <1>1, <1>2
  <2> QED BY <1>2, <2>1, <2>2, <2>3
<1>4. Sane(c, observed) = IF observed <= OutlierFactor * m THEN observed ELSE OutlierFactor * m
  BY <1>3, MinOfTwo DEF Sane, m
<1> QED BY <1>1, <1>2, <1>3, <1>4

(* A climb never lowers the target, and lifts it to no more than twice the *)
(* throughput.                                                             *)
LEMMA ClimbBounds ==
  ASSUME NEW target \in Nat, NEW sane \in Nat, NEW climb
  PROVE  /\ Climb(target, sane, climb) \in Nat
         /\ Climb(target, sane, climb) >= target
         /\ Climb(target, sane, climb) > target => Climb(target, sane, climb) <= 2 * sane
<1> DEFINE step == (target * StepOf(climb)) \div 1000
           m == Min({step, 2 * sane - target})
           g == Max({m, 0})
<1>1. step \in Nat
  <2>1. StepOf(climb) \in Nat BY StepsAssumption DEF StepOf
  <2>2. target * StepOf(climb) \in Nat BY <2>1
  <2> QED BY <2>2, SMTT(30)
<1> HIDE DEF step
<1>2. m \in Int /\ m <= 2 * sane - target BY <1>1, MinOfTwo
<1> HIDE DEF m
<1>3. g = IF m >= 0 THEN m ELSE 0 BY <1>2, MaxOfTwo
<1>4. Climb(target, sane, climb) = IF sane = 0 THEN target ELSE target + g
  BY DEF Climb, g, m, step
<1> HIDE DEF g
<1> QED BY <1>2, <1>3, <1>4

(* A backoff never raises the target, and stays at the throughput or above *)
(* where the target is.                                                    *)
LEMMA BackOffBounds ==
  ASSUME NEW target \in Nat, NEW sane \in Nat
  PROVE  /\ BackOff(target, sane) \in 0 .. target
         /\ BackOff(target, sane) >= sane \/ BackOff(target, sane) = target
<1> DEFINE p == (target * BackoffPm) \div 1000
           m == Min({sane, target})
<1>1. p \in 0 .. target
  <2>1. BackoffPm \in Permille BY StepsAssumption DEF Permille
  <2>2. Part(target, BackoffPm) \in 0 .. target BY <2>1, PartOf, Zenon
  <2> QED BY <2>2, SMTT(30), Zenon DEF Part
<1> HIDE DEF p
<1>2. m = IF sane <= target THEN sane ELSE target BY MinOfTwo
<1> HIDE DEF m
<1>3. BackOff(target, sane) = Max({p, m}) BY DEF BackOff, p, m
<1>4. m \in Int BY <1>2
<1>5. Max({p, m}) = IF p >= m THEN p ELSE m BY <1>1, <1>4, MaxOfTwo
<1> QED BY <1>1, <1>2, <1>3, <1>5, SMTT(30)

-----------------------------------------------------------------------------
(* The stages of a tick *)

(* update_loss_ewma touches the EWMA, its timer and the latch only, and    *)
(* sets the latch only at the end of the sustained high.                   *)
LEMMA EwmaStage ==
  ASSUME NEW c, IsState(c), NEW band \in Bands, NEW gap \in Nat
  PROVE  LET e == UpdateLossEwma(c, band, gap) IN
         /\ IsState(e)
         /\ e.state = c.state /\ e.target = c.target /\ e.fast = c.fast
         /\ e.ticks = c.ticks /\ e.entryPm = c.entryPm /\ e.uncongestive = c.uncongestive
         /\ e.ewma = band /\ e.highFor = HighFor(c, band, gap)
         /\ e.degraded /\ ~c.degraded => e.highFor = DegradeSustain
<1> DEFINE e == UpdateLossEwma(c, band, gap)
           since == HighFor(c, band, gap)
           latch == IF band = Low THEN FALSE ELSE c.degraded \/ since = DegradeSustain
<1>1. since \in NoCut .. DegradeSustain
  <2>1. c.highFor \in NoCut .. DegradeSustain /\ DegradeSustain \in Nat
    BY StepsAssumption DEF IsState, StateWith
  <2>2. c.highFor # NoCut =>
          Min({c.highFor + gap, DegradeSustain})
            = IF c.highFor + gap <= DegradeSustain THEN c.highFor + gap ELSE DegradeSustain
    BY <2>1, MinOfTwo DEF NoCut
  <2> QED BY <2>1, <2>2 DEF HighFor, NoCut
<1>2. latch \in BOOLEAN BY Zenon DEF IsState, StateWith
<1>3. latch /\ ~c.degraded => since = DegradeSustain OBVIOUS
<1>4. e = [c EXCEPT !.fresh = FALSE, !.ewma = band, !.highFor = since, !.degraded = latch]
  BY DEF UpdateLossEwma
<1> HIDE DEF since, latch, e
<1>5. /\ IsState(e)
      /\ e.state = c.state /\ e.target = c.target /\ e.fast = c.fast
      /\ e.ticks = c.ticks /\ e.entryPm = c.entryPm /\ e.uncongestive = c.uncongestive
      /\ e.ewma = band /\ e.highFor = since /\ e.degraded = latch
  BY <1>1, <1>2, <1>4, Zenon DEF IsState, StateWith
<1> QED BY <1>3, <1>5 DEF e, since

\* What the seed makes of c: it touches a target at its floor only, and never lowers it.
Seeded(c, e) ==
  /\ IsState(e)
  /\ e.target >= c.target /\ (c.target # MinTarget => e.target = c.target)
  /\ e.state = c.state /\ e.fast = c.fast
  /\ e.ticks = c.ticks /\ e.entryPm = c.entryPm /\ e.uncongestive = c.uncongestive
  /\ e.ewma = c.ewma /\ e.highFor = c.highFor /\ e.degraded = c.degraded

(* Seeding a controller.                                                   *)
LEMMA SeedStage ==
  ASSUME NEW c, IsState(c), NEW sane \in Nat
  PROVE  Seeded(c, Seed(c, sane))
<1>1. c.target \in MinTarget .. MaxTarget /\ MinTarget \in Nat /\ MaxTarget \in Nat
  BY TargetAssumption DEF IsState, StateWith
<1> DEFINE seeded == Clamp(Max({sane, InitialTarget}))
<1>2. seeded \in MinTarget .. MaxTarget
  <2>1. Max({sane, InitialTarget}) \in Int BY MaxOfTwo, TargetAssumption
  <2> QED BY <2>1, ClampWithin
<1> HIDE DEF seeded
<1>3. Seed(c, sane) = IF c.target = MinTarget THEN [c EXCEPT !.target = seeded] ELSE c
  BY DEF Seed, seeded
<1>4. CASE c.target = MinTarget BY <1>1, <1>2, <1>3, <1>4 DEF IsState, StateWith, Seeded
<1>5. CASE c.target # MinTarget BY <1>1, <1>3, <1>5 DEF IsState, StateWith, Seeded
<1> QED BY <1>4, <1>5

\* What update_backoff_efficacy leaves alone.
SameButTest(e, c) ==
  /\ e.state = c.state /\ e.target = c.target /\ e.fast = c.fast
  /\ e.ewma = c.ewma /\ e.highFor = c.highFor /\ e.degraded = c.degraded

(* update_backoff_efficacy touches the test of the cuts only.              *)
LEMMA EfficacyStage ==
  ASSUME NEW c, IsState(c), NEW pm,
         c.state = "BackingOff" => c.ticks < EfficacyTicks
  PROVE  LET e == UpdateBackoffEfficacy(c, pm) IN IsState(e) /\ SameButTest(e, c)
<1> DEFINE e == UpdateBackoffEfficacy(c, pm)
<1> HIDE DEF e
<1> SUFFICES IsState(e) /\ SameButTest(e, c) BY SMTT(30) DEF e
<1>1. /\ c.ticks \in 0 .. EfficacyTicks /\ c.held \in 0 .. RetestTicks
      /\ EfficacyTicks \in Nat /\ RetestTicks \in Nat /\ c.uncongestive \in BOOLEAN
  BY StepsAssumption DEF IsState, StateWith
<1>2. 0 \in 0 .. EfficacyTicks /\ 0 \in 0 .. RetestTicks BY <1>1
<1>3. CASE ~(pm > LossBackoffPm)
  <2>1. e = [c EXCEPT !.ticks = 0, !.entryPm = 0, !.uncongestive = FALSE, !.held = 0]
    BY <1>3 DEF UpdateBackoffEfficacy, e
  <2>2. StateWith(e, 0) BY <1>2, <2>1, Zenon DEF IsState, StateWith
  <2>3. e.entryPm = 0 BY <2>1 DEF IsState, StateWith
  <2>4. SameButTest(e, c) BY <2>1 DEF SameButTest, IsState, StateWith
  <2> QED BY <2>2, <2>3, <2>4 DEF IsState
<1>4. CASE pm > LossBackoffPm /\ c.uncongestive /\ c.held + 1 >= RetestTicks
  <2>1. e = [c EXCEPT !.uncongestive = FALSE, !.held = 0, !.ticks = 0, !.entryPm = pm]
    BY <1>4 DEF UpdateBackoffEfficacy, HoldVerdict, e
  <2>2. StateWith(e, pm) BY <1>2, <2>1, Zenon DEF IsState, StateWith
  <2>3. e.entryPm = pm BY <2>1 DEF IsState, StateWith
  <2>4. SameButTest(e, c) BY <2>1 DEF SameButTest, IsState, StateWith
  <2> QED BY <2>2, <2>3, <2>4 DEF IsState
<1>5. CASE pm > LossBackoffPm /\ c.uncongestive /\ ~(c.held + 1 >= RetestTicks)
  <2>0. c.held + 1 \in 0 .. RetestTicks BY <1>1, <1>5
  <2>1. e = [c EXCEPT !.held = c.held + 1]
    BY <1>5 DEF UpdateBackoffEfficacy, HoldVerdict, e
  <2>2. StateWith(e, c.entryPm) BY <2>0, <2>1 DEF IsState, StateWith
  <2>3. e.entryPm = c.entryPm BY <2>1 DEF IsState, StateWith
  <2>4. SameButTest(e, c) BY <2>1 DEF SameButTest, IsState, StateWith
  <2> QED BY <2>2, <2>3, <2>4 DEF IsState
<1>6. CASE pm > LossBackoffPm /\ ~c.uncongestive /\ c.state # "BackingOff"
  <2>1. e = [c EXCEPT !.ticks = 0, !.entryPm = pm]
    BY <1>6 DEF UpdateBackoffEfficacy, e
  <2>2. StateWith(e, pm) BY <1>2, <2>1, Zenon DEF IsState, StateWith
  <2>3. e.entryPm = pm BY <2>1 DEF IsState, StateWith
  <2>4. SameButTest(e, c) BY <2>1 DEF SameButTest, IsState, StateWith
  <2> QED BY <2>2, <2>3, <2>4 DEF IsState
<1>7. CASE pm > LossBackoffPm /\ ~c.uncongestive /\ c.state = "BackingOff"
  <2>1. e = JudgeCuts(c, pm) BY <1>7 DEF UpdateBackoffEfficacy, e
  <2>2. c.ticks + 1 \in 0 .. EfficacyTicks BY <1>1, <1>7, SMTT(30)
  <2>3. CASE c.ticks + 1 < EfficacyTicks
    <3>1. e = [c EXCEPT !.ticks = c.ticks + 1]
      BY <2>1, <2>3 DEF JudgeCuts
    <3>2. StateWith(e, c.entryPm) BY <2>2, <3>1 DEF IsState, StateWith
    <3>3. e.entryPm = c.entryPm BY <3>1 DEF IsState, StateWith
    <3>4. SameButTest(e, c) BY <3>1 DEF SameButTest, IsState, StateWith
    <3> QED BY <3>2, <3>3, <3>4 DEF IsState
  <2>4. CASE ~(c.ticks + 1 < EfficacyTicks) /\ pm * 1000 < c.entryPm * ImprovementPm
    <3>1. e = [c EXCEPT !.ticks = 0, !.entryPm = pm]
      BY <2>1, <2>4, SMTT(30) DEF JudgeCuts
    <3>2. StateWith(e, pm) BY <1>2, <3>1, Zenon DEF IsState, StateWith
    <3>3. e.entryPm = pm BY <3>1 DEF IsState, StateWith
    <3>4. SameButTest(e, c) BY <3>1 DEF SameButTest, IsState, StateWith
    <3> QED BY <3>2, <3>3, <3>4 DEF IsState
  <2>5. CASE ~(c.ticks + 1 < EfficacyTicks) /\ ~(pm * 1000 < c.entryPm * ImprovementPm)
    <3>1. e = [c EXCEPT !.ticks = c.ticks + 1, !.uncongestive = TRUE, !.held = 0]
      BY <2>1, <2>5 DEF JudgeCuts
    <3>2. StateWith(e, c.entryPm) BY <1>2, <2>2, <3>1, Zenon DEF IsState, StateWith
    <3>3. e.entryPm = c.entryPm BY <3>1 DEF IsState, StateWith
    <3>4. SameButTest(e, c) BY <3>1, SMTT(30) DEF SameButTest, IsState, StateWith
    <3> QED BY <3>2, <3>3, <3>4 DEF IsState
  <2> QED BY <2>3, <2>4, <2>5
<1> QED BY <1>3, <1>4, <1>5, <1>6, <1>7

\* What is left of a controller's count of cuts, n of them since the loss p, while it
\* may still back off: the count begins, goes on, or begins anew as the loss gave way.
Counted(state, n, p, ticks, loss, pm) ==
  /\ ticks < EfficacyTicks
  /\ \/ ticks = 0 /\ loss = pm /\ state # "BackingOff"
     \/ /\ state = "BackingOff" /\ n + 1 < EfficacyTicks
        /\ ticks = n + 1 /\ loss = p
     \/ /\ state = "BackingOff" /\ n + 1 >= EfficacyTicks
        /\ pm * 1000 < p * ImprovementPm
        /\ ticks = 0 /\ loss = pm

(* A tick that can lead to a backoff, above the loss threshold and with no *)
(* verdict after the test, has begun the count or has gone on with it.     *)
LEMMA EfficacyCounts ==
  ASSUME NEW c, IsState(c), NEW pm, pm > LossBackoffPm,
         c.state = "BackingOff" => c.ticks < EfficacyTicks /\ ~c.uncongestive,
         ~UpdateBackoffEfficacy(c, pm).uncongestive
  PROVE  LET e == UpdateBackoffEfficacy(c, pm) IN
         Counted(c.state, c.ticks, c.entryPm, e.ticks, e.entryPm, pm)
<1> DEFINE e == UpdateBackoffEfficacy(c, pm)
<1> SUFFICES Counted(c.state, c.ticks, c.entryPm, e.ticks, e.entryPm, pm)
  OBVIOUS
<1>1. c.ticks \in Nat /\ c.held \in Nat /\ EfficacyTicks \in Nat \ {0} /\ RetestTicks \in Nat
  BY StepsAssumption, SMTT(30) DEF IsState, StateWith
<1>3. CASE c.uncongestive
  <2>1. e = HoldVerdict(c, pm) BY <1>3 DEF UpdateBackoffEfficacy
  <2>2. c.state # "BackingOff" BY <1>3
  <2>3. CASE c.held + 1 >= RetestTicks
    <3>1. e.ticks = 0 /\ e.entryPm = pm
      BY <2>1, <2>3 DEF HoldVerdict, IsState, StateWith
    <3> QED BY <1>1, <2>2, <3>1 DEF Counted
  <2>4. CASE ~(c.held + 1 >= RetestTicks)
    <3>1. e.uncongestive = c.uncongestive BY <2>1, <2>4 DEF HoldVerdict, IsState, StateWith
    <3> QED BY <1>3, <3>1
  <2> QED BY <2>3, <2>4
<1>4. CASE ~c.uncongestive /\ c.state # "BackingOff"
  <2>1. e.ticks = 0 /\ e.entryPm = pm
    BY <1>4 DEF UpdateBackoffEfficacy, IsState, StateWith
  <2> QED BY <1>1, <1>4, <2>1 DEF Counted
<1>5. CASE ~c.uncongestive /\ c.state = "BackingOff"
  <2>1. e = JudgeCuts(c, pm) BY <1>5 DEF UpdateBackoffEfficacy
  <2>3. CASE c.ticks + 1 < EfficacyTicks
    <3>1. e.ticks = c.ticks + 1 /\ e.entryPm = c.entryPm
      BY <2>1, <2>3 DEF JudgeCuts, IsState, StateWith
    <3> QED BY <1>1, <1>5, <2>3, <3>1 DEF Counted
  <2>4. CASE ~(c.ticks + 1 < EfficacyTicks) /\ pm * 1000 < c.entryPm * ImprovementPm
    <3>1. e.ticks = 0 /\ e.entryPm = pm
      BY <2>1, <2>4 DEF JudgeCuts, IsState, StateWith
    <3> QED BY <1>1, <1>5, <2>4, <3>1 DEF Counted
  <2>5. CASE ~(c.ticks + 1 < EfficacyTicks) /\ ~(pm * 1000 < c.entryPm * ImprovementPm)
    <3>1. e.uncongestive = TRUE BY <2>1, <2>5 DEF JudgeCuts, IsState, StateWith
    <3> QED BY <3>1
  <2> QED BY <2>3, <2>4, <2>5
<1> QED BY <1>3, <1>4, <1>5, SMTT(30)

(* Spending takes one tick of the budget, and none of an empty one.        *)
LEMMA SpendOne ==
  ASSUME NEW b \in Nat
  PROVE  Spend(b) = IF b = 0 THEN 0 ELSE b - 1
<1>1. Max({b - 1, 0}) = IF b - 1 >= 0 THEN b - 1 ELSE 0 BY MaxOfTwo, SMTT(30)
<1> QED BY <1>1 DEF Spend

\* What the last stage of a tick makes of c.
Moved(c, d, pm, sane, rtt) ==
  /\ IsState(d)
  /\ d.state = NextState(c, pm, sane, rtt)
  /\ d.ticks = c.ticks /\ d.entryPm = c.entryPm /\ d.uncongestive = c.uncongestive
  /\ d.ewma = c.ewma /\ d.highFor = c.highFor /\ d.degraded = c.degraded
  /\ d.target > c.target => d.state = "Climbing" /\ d.target <= 2 * sane
  /\ d.state = "BackingOff" => d.target >= sane \/ d.target >= c.target
  /\ d.fast = IF d.state = "Climbing" THEN Spend(Budget(c, d.state)) ELSE 0
  /\ d.state = "Climbing" => (d.climb = "FastRecovery" <=> Budget(c, d.state) > 0)

(* The last stage of a tick picks the state, moves the target and spends   *)
(* the budget.                                                             *)
LEMMA MoveStage ==
  ASSUME NEW c, IsState(c), NEW pm, NEW sane \in Nat, NEW rtt \in Inflation,
         NEW stable \in BOOLEAN
  PROVE  Moved(c, Move(c, pm, sane, rtt, stable), pm, sane, rtt)
<1> DEFINE d == Move(c, pm, sane, rtt, stable)
           next == NextState(c, pm, sane, rtt)
           b == Budget(c, next)
           climb == IF next = "Climbing" THEN ClimbMode(b, stable) ELSE "Normal"
           fast == IF next = "Climbing" THEN Spend(b) ELSE 0
           target == CASE next = "Climbing"   -> Climb(c.target, sane, climb)
                       [] next = "Holding"    -> c.target
                       [] next = "BackingOff" -> BackOff(c.target, sane)
                       [] next = "Drain"      -> IF c.state = "Drain" THEN c.target
                                                 ELSE (c.target * DrainPm) \div 1000
           cap == Clamp(target)
<1>1. /\ c.target \in MinTarget .. MaxTarget /\ MinTarget \in Nat /\ MaxTarget \in Nat
      /\ c.fast \in 0 .. FastTicks /\ FastTicks \in Nat
  BY TargetAssumption, StepsAssumption DEF IsState, StateWith
<1>2. next \in {"Climbing", "Holding", "BackingOff", "Drain"} BY DEF NextState
<1>3. climb \in Modes /\ (next = "Climbing" => (climb = "FastRecovery" <=> b > 0))
  BY DEF ClimbMode, Modes
<1>4. b \in 0 .. FastTicks BY <1>1 DEF Budget
<1>5. fast \in 0 .. FastTicks BY <1>1, <1>4, SpendOne, SMTT(30)
<1>6. /\ target \in Nat
      /\ target > c.target => next = "Climbing" /\ target <= 2 * sane
      /\ next = "BackingOff" => target >= sane \/ target = c.target
  <2>1. c.target \in Nat BY <1>1
  <2>2. CASE next = "Climbing"
    <3>1. target = Climb(c.target, sane, climb) BY <2>2
    <3> HIDE DEF target, climb, next
    <3> QED BY <2>1, <2>2, <3>1, ClimbBounds
  <2>3. CASE next = "Holding"
    <3>1. target = c.target BY <2>3
    <3> HIDE DEF target, climb, next
    <3> QED BY <2>1, <2>3, <3>1
  <2>4. CASE next = "BackingOff"
    <3>1. target = BackOff(c.target, sane) BY <2>4
    <3>2. /\ BackOff(c.target, sane) \in 0 .. c.target
          /\ BackOff(c.target, sane) >= sane \/ BackOff(c.target, sane) = c.target
      <4> HIDE DEF target, climb, next
      <4> QED BY <2>1, BackOffBounds
    <3> HIDE DEF target, climb, next
    <3> QED BY <2>1, <2>4, <3>1, <3>2
  <2>5. CASE next = "Drain"
    <3>1. target = c.target \/ target = (c.target * DrainPm) \div 1000 BY <2>5
    <3> HIDE DEF target, climb, next
    <3>2. (c.target * DrainPm) \div 1000 \in 0 .. c.target
      <4>1. c.target \in Nat BY <2>1
      <4>2. DrainPm \in Permille BY StepsAssumption DEF Permille
      <4>3. Part(c.target, DrainPm) \in 0 .. c.target BY <4>1, <4>2, PartOf, Zenon
      <4> QED BY <4>3, SMTT(30), Zenon DEF Part
    <3> QED BY <2>1, <2>5, <3>1, <3>2
  <2> QED BY <1>2, <2>2, <2>3, <2>4, <2>5, Zenon
<1> HIDE DEF target
<1>7. /\ cap \in MinTarget .. MaxTarget
      /\ cap > c.target => next = "Climbing" /\ cap <= 2 * sane
      /\ next = "BackingOff" => cap >= sane \/ cap >= c.target
  <2> HIDE DEF next
  <2>1. target \in Int BY <1>6
  <2>2. /\ cap \in MinTarget .. MaxTarget
        /\ target >= MinTarget => cap <= target
        /\ target <= MaxTarget => cap >= target
    BY <2>1, ClampWithin
  <2> HIDE DEF cap
  <2>3. target < MinTarget => cap <= c.target
    <3>1. ASSUME target < MinTarget PROVE cap = MinTarget
      <4>1. Max({target, MinTarget}) = MinTarget BY <1>1, <2>1, <3>1, MaxOfTwo, SMTT(30)
      <4>2. Min({MinTarget, MaxTarget}) = MinTarget BY <1>1, MinOfTwo
      <4> QED BY <4>1, <4>2 DEF Clamp, cap
    <3> QED BY <1>1, <3>1
  <2>4. next # "Climbing" => target <= c.target BY <1>1, <1>6
  <2> QED BY <1>1, <1>6, <2>1, <2>2, <2>3, <2>4
<1>8. d = [c EXCEPT !.state = next, !.climb = climb, !.target = cap, !.fast = fast]
  BY DEF Move, target
<1>9. next \in States BY <1>2 DEF States
<1> HIDE DEF d, next, b, climb, fast, cap
<1>10. StateWith(d, c.entryPm)
  BY <1>3, <1>5, <1>7, <1>8, <1>9, Zenon DEF IsState, StateWith
<1>11. /\ d.state = next /\ d.climb = climb /\ d.target = cap /\ d.fast = fast
       /\ d.ticks = c.ticks /\ d.entryPm = c.entryPm /\ d.uncongestive = c.uncongestive
       /\ d.ewma = c.ewma /\ d.highFor = c.highFor /\ d.degraded = c.degraded
  BY <1>8 DEF IsState, StateWith
<1>12. IsState(d) BY <1>10, <1>11, SMTT(30) DEF IsState
<1>13. Budget(c, d.state) = b BY <1>11, SMTT(30) DEF b
<1>14. d.fast = IF d.state = "Climbing" THEN Spend(Budget(c, d.state)) ELSE 0
  BY <1>11, <1>13, SMTT(30) DEF fast
<1>15. d.state = "Climbing" => (d.climb = "FastRecovery" <=> Budget(c, d.state) > 0)
  BY <1>3, <1>11, <1>13, SMTT(30)
<1>16. d.state = NextState(c, pm, sane, rtt) BY <1>11 DEF next
<1>17. /\ d.target > c.target => d.state = "Climbing" /\ d.target <= 2 * sane
       /\ d.state = "BackingOff" => d.target >= sane \/ d.target >= c.target
  BY <1>7, <1>11, Zenon
<1>18. Moved(c, d, pm, sane, rtt)
  BY <1>11, <1>12, <1>14, <1>15, <1>16, <1>17, Zenon DEF Moved
<1> QED BY <1>18 DEF d

(* The EWMA stays in its bands.                                            *)
LEMMA EwmaInBands ==
  ASSUME NEW c, IsState(c), NEW pm
  PROVE  EwmaAfter(c, pm) \subseteq Bands
<1>1. BandOf(pm) \in {0, 1, 2} /\ c.ewma \in {0, 1, 2} BY DEF BandOf, IsState, StateWith, Bands
<1> DEFINE p == BandOf(pm)
<1> HIDE DEF p
<1>2. p \in 0 .. 2 /\ c.ewma \in 0 .. 2 BY <1>1 DEF p
<1>3. Min({c.ewma, p}) \in 0 .. 2 /\ Max({c.ewma, p}) \in 0 .. 2
  BY <1>2, MinOfTwo, MaxOfTwo
<1>4. Min({c.ewma, p}) .. Max({c.ewma, p}) \subseteq 0 .. 2 BY <1>3, SMTT(30)
<1> QED BY <1>2, <1>4 DEF EwmaAfter, Bands, p

-----------------------------------------------------------------------------
(* The steps *)

(* observe_traffic keeps the window to samples that have not expired.      *)
LEMMA WindowKept ==
  ASSUME InWindow, NEW gap \in Gaps, NEW t \in Traffic \cup {Quiet}
  PROVE  Observe(gap, t) \subseteq [sent : Nat, lost : Nat, age : 0 .. LossWindow]
<1>1. gap \in Nat /\ LossWindow \in Nat BY TargetAssumption, StepsAssumption
<1>2. t.sent \in Nat /\ t.lost \in Nat BY TargetAssumption DEF Quiet
<1>3. Max({t.sent, 1}) \in Nat BY <1>2, MaxOfTwo
<1>4. ASSUME NEW s \in samples, s.age + gap <= LossWindow
      PROVE  [s EXCEPT !.age = s.age + gap] \in [sent : Nat, lost : Nat, age : 0 .. LossWindow]
  <2>1. s \in [sent : Nat, lost : Nat, age : 0 .. LossWindow] BY DEF InWindow
  <2>2. s.age + gap \in 0 .. LossWindow BY <1>1, <1>4, <2>1
  <2> QED BY <2>1, <2>2
<1>5. Aged(gap) \subseteq [sent : Nat, lost : Nat, age : 0 .. LossWindow] BY <1>4, SMTT(30) DEF Aged
<1>6. [sent |-> IF t.lost > 0 THEN Max({t.sent, 1}) ELSE t.sent, lost |-> t.lost, age |-> 0]
        \in [sent : Nat, lost : Nat, age : 0 .. LossWindow]
  BY <1>1, <1>2, <1>3, SMTT(30)
<1> QED BY <1>5, <1>6, SMTT(30) DEF Observe

\* The target of a controller is a number.
LEMMA TargetIsNat ==
  ASSUME NEW c, IsState(c)
  PROVE  c.target \in Nat
BY TargetAssumption DEF IsState, StateWith

\* How Remember moves the two histories.
ClimbsTo(next) ==
  climbs' = IF next # "Climbing" THEN NoCut
            ELSE IF cc.state \in {"BackingOff", "Drain"} THEN 1
            ELSE IF climbs = NoCut THEN NoCut ELSE Min({climbs + 1, FastTicks + 1})

VainTo(next, pm) ==
  /\ vain' = IF next # "BackingOff" THEN 0
             ELSE IF \/ cc.state # "BackingOff"
                     \/ vain >= EfficacyTicks /\ pm * 1000 < entry * ImprovementPm
             THEN 1 ELSE Min({vain + 1, EfficacyTicks + 1})
  /\ entry' = IF vain' = 1 THEN pm ELSE IF vain' = 0 THEN 0 ELSE entry

\* The budget b of fast climbs, armed or carried over, and spent.
LEMMA BudgetStep ==
  ASSUME BudgetLeft, cc.fast \in 0 .. FastTicks, NEW next, ClimbsTo(next), NEW b,
         b = IF cc.state \in {"BackingOff", "Drain"} /\ next = "Climbing"
             THEN FastTicks ELSE cc.fast,
         cc'.state = next, cc'.fast = IF next = "Climbing" THEN Spend(b) ELSE 0,
         next = "Climbing" => (cc'.climb = "FastRecovery" <=> b > 0)
  PROVE  (BudgetLeft /\ FastWindowFull)'
<1>1. FastTicks \in Nat /\ climbs \in {-1} \cup 1 .. FastTicks + 1
  BY StepsAssumption DEF BudgetLeft, NoCut
<1>2. b \in Nat
  BY <1>1
<1>3. CASE next # "Climbing"
  BY <1>1, <1>3 DEF ClimbsTo, BudgetLeft, FastWindowFull, NoCut
<1>4. CASE next = "Climbing"
  <2>1. cc'.fast = IF b = 0 THEN 0 ELSE b - 1
    BY <1>2, <1>4, SpendOne
  <2>2. CASE cc.state \in {"BackingOff", "Drain"}
    <3>1. climbs' = 1 /\ b = FastTicks
      BY <1>4, <2>2 DEF ClimbsTo
    <3> QED
      BY <1>1, <1>4, <2>1, <3>1 DEF BudgetLeft, FastWindowFull, NoCut
  <2>3. CASE cc.state \notin {"BackingOff", "Drain"}
    <3>1. b = cc.fast
      BY <2>3
    <3>2. climbs' = IF climbs = -1 THEN -1
                    ELSE IF climbs + 1 <= FastTicks + 1 THEN climbs + 1 ELSE FastTicks + 1
      BY <1>1, <1>4, <2>3, MinOfTwo DEF ClimbsTo, NoCut
    <3> QED
      BY <1>1, <1>4, <2>1, <3>1, <3>2 DEF BudgetLeft, FastWindowFull, NoCut
  <2> QED
    BY <2>2, <2>3
<1> QED
  BY <1>3, <1>4

\* The count of backoffs in vain.
LEMMA VainStep ==
  ASSUME BackoffCounted, cc.ticks \in Nat, NEW next, NEW pm, VainTo(next, pm),
         cc'.state = next,
         next = "BackingOff" =>
           /\ ~cc'.uncongestive
           /\ Counted(cc.state, cc.ticks, cc.entryPm, cc'.ticks, cc'.entryPm, pm)
  PROVE  BackoffCounted'
<1>1. EfficacyTicks \in Nat \ {0} /\ vain \in Nat
  BY StepsAssumption DEF BackoffCounted
<1>2. CASE next # "BackingOff"
  BY <1>2 DEF VainTo, BackoffCounted
<1>3. CASE next = "BackingOff" /\ cc.state # "BackingOff"
  <2>1. vain' = 1 /\ entry' = pm
    BY <1>3 DEF VainTo
  <2>2. cc'.ticks = 0 /\ cc'.entryPm = pm /\ cc'.ticks < EfficacyTicks /\ ~cc'.uncongestive
    BY <1>3 DEF Counted
  <2> QED
    BY <1>3, <2>1, <2>2 DEF BackoffCounted
<1>4. CASE next = "BackingOff" /\ cc.state = "BackingOff" /\ cc.ticks + 1 < EfficacyTicks
  <2>1. vain = cc.ticks + 1 /\ cc.entryPm = entry
    BY <1>4 DEF BackoffCounted
  <2>2. ~(vain >= EfficacyTicks)
    BY <1>1, <1>4, <2>1
  <2>3. Min({vain + 1, EfficacyTicks + 1}) = vain + 1
    BY <1>1, <2>2, MinOfTwo
  <2>4. vain' = vain + 1
    BY <1>4, <2>2, <2>3 DEF VainTo
  <2>5. entry' = entry
    BY <2>1, <2>4 DEF VainTo
  <2>6. cc'.ticks = cc.ticks + 1 /\ cc'.entryPm = cc.entryPm /\ cc'.ticks < EfficacyTicks
    <3>1. ~(cc.ticks + 1 >= EfficacyTicks)
      BY <1>1, <1>4
    <3> QED
      BY <1>4, <3>1 DEF Counted
  <2> QED
    BY <1>4, <2>1, <2>4, <2>5, <2>6 DEF BackoffCounted
<1>5. CASE next = "BackingOff" /\ cc.state = "BackingOff" /\ ~(cc.ticks + 1 < EfficacyTicks)
  <2>1. vain = cc.ticks + 1 /\ cc.entryPm = entry
    BY <1>5 DEF BackoffCounted
  <2>2. /\ pm * 1000 < entry * ImprovementPm
        /\ cc'.ticks = 0 /\ cc'.entryPm = pm /\ cc'.ticks < EfficacyTicks
    BY <1>5, <2>1 DEF Counted
  <2>3. vain >= EfficacyTicks
    BY <1>1, <1>5, <2>1
  <2>4. vain' = 1 /\ entry' = pm
    BY <1>5, <2>2, <2>3 DEF VainTo
  <2> QED
    BY <1>5, <2>2, <2>4 DEF BackoffCounted
<1> QED
  BY <1>2, <1>3, <1>4, <1>5

\* The cap moves for its causes: the target goes from x by the seed y to z, of a link
\* that carries observed, s of it when outliers are cut.
LEMMA CapStep ==
  ASSUME NEW x \in Nat, NEW y \in Nat, NEW z \in Nat, NEW s \in Nat, NEW observed \in Nat,
         y >= x, x # MinTarget => y = x, s <= observed, s = observed \/ s >= x
  PROVE  /\ z > x /\ x # MinTarget /\ (z > y => z <= 2 * s) => z <= 2 * observed
         /\ z > x /\ x # MinTarget => z > y
         /\ z >= s \/ z >= y => z >= Min({observed, x})
<1>1. Min({observed, x}) = IF observed <= x THEN observed ELSE x
  BY MinOfTwo
<1> QED
  BY <1>1

(* A tick of the controller proper, stage by stage.                        *)
LEMMA ActiveStep ==
  ASSUME IInv, NEW gap \in Gaps, NEW t \in Traffic \cup {Quiet}, NEW observed \in Rates,
         rate' = observed, TickActive(gap, t, observed)
  PROVE  IInv' /\ Earned
<1>1. PICK S \in {Observe(gap, t)}, rtt \in Inflation, stable \in BOOLEAN :
        \E band \in EwmaAfter(cc, LossPermille(S)), sane \in {Sane(cc, observed)} :
          \E c \in {UpdateBackoffEfficacy(Seed(UpdateLossEwma(cc, band, gap), sane),
                                          LossPermille(S))} :
            \E d \in {Move(c, LossPermille(S), sane, rtt, stable)} :
              /\ samples' = S
              /\ cc' = [d EXCEPT !.baseline = TRUE]
              /\ Remember(d, LossPermille(S), gap)
  BY Zenon DEF TickActive
<1> DEFINE pm == LossPermille(S)
           sane == Sane(cc, observed)
<1> HIDE DEF pm, sane
<1>2. PICK band \in EwmaAfter(cc, pm) :
        \E d \in {Move(UpdateBackoffEfficacy(Seed(UpdateLossEwma(cc, band, gap), sane), pm),
                       pm, sane, rtt, stable)} :
          /\ samples' = S
          /\ cc' = [d EXCEPT !.baseline = TRUE]
          /\ Remember(d, pm, gap)
  BY <1>1, Zenon DEF pm, sane
<1> DEFINE e == UpdateLossEwma(cc, band, gap)
           f == Seed(e, sane)
           c == UpdateBackoffEfficacy(f, pm)
           d == Move(c, pm, sane, rtt, stable)
<1>3. /\ samples' = S /\ cc' = [d EXCEPT !.baseline = TRUE] /\ Remember(d, pm, gap) BY <1>2
<1> HIDE DEF e, f, c, d
<1>4. /\ IsState(cc) /\ gap \in Nat /\ observed \in Nat /\ band \in Bands /\ sane \in Nat
      /\ sane <= observed /\ (sane = observed \/ sane >= cc.target)
  <2>1. IsState(cc) /\ gap \in Nat /\ observed \in Nat BY TargetAssumption DEF IInv
  <2>2. band \in Bands BY <2>1, EwmaInBands, SMTT(30)
  <2> QED BY <2>1, <2>2, SaneBounds, SMTT(30) DEF sane
<1>5. /\ IsState(e)
      /\ e.state = cc.state /\ e.target = cc.target /\ e.fast = cc.fast
      /\ e.ticks = cc.ticks /\ e.entryPm = cc.entryPm /\ e.uncongestive = cc.uncongestive
      /\ e.ewma = band /\ e.highFor = HighFor(cc, band, gap)
      /\ e.degraded /\ ~cc.degraded => e.highFor = DegradeSustain
  BY <1>4, EwmaStage, SMTT(30) DEF e
<1>6. /\ IsState(f)
      /\ f.target >= cc.target /\ (cc.target # MinTarget => f.target = cc.target)
      /\ f.state = cc.state /\ f.fast = cc.fast
      /\ f.ticks = cc.ticks /\ f.entryPm = cc.entryPm /\ f.uncongestive = cc.uncongestive
      /\ f.ewma = band /\ f.highFor = e.highFor /\ f.degraded = e.degraded
  <2>1. Seeded(e, f)
    BY <1>4, <1>5, SeedStage, Zenon DEF f
  <2> QED BY <1>5, <2>1, Zenon DEF Seeded
<1>7. f.state = "BackingOff" => f.ticks < EfficacyTicks /\ ~f.uncongestive
  BY <1>6, Zenon DEF IInv, BackoffCounted
<1>8. /\ IsState(c)
      /\ c.state = cc.state /\ c.target = f.target /\ c.fast = cc.fast
      /\ c.ewma = band /\ c.highFor = e.highFor /\ c.degraded = e.degraded
  <2>1. IsState(c) /\ SameButTest(c, f)
    BY <1>6, <1>7, EfficacyStage, Zenon DEF c
  <2> QED BY <1>6, <2>1, Zenon DEF SameButTest
<1>9. /\ IsState(d)
      /\ d.state = NextState(c, pm, sane, rtt)
      /\ d.ticks = c.ticks /\ d.entryPm = c.entryPm /\ d.uncongestive = c.uncongestive
      /\ d.ewma = band /\ d.highFor = e.highFor /\ d.degraded = e.degraded
      /\ d.target > f.target => d.state = "Climbing" /\ d.target <= 2 * sane
      /\ d.state = "BackingOff" => d.target >= sane \/ d.target >= f.target
      /\ d.fast = IF d.state = "Climbing" THEN Spend(Budget(c, d.state)) ELSE 0
      /\ d.state = "Climbing" => (d.climb = "FastRecovery" <=> Budget(c, d.state) > 0)
  <2>1. Moved(c, d, pm, sane, rtt)
    BY <1>4, <1>8, MoveStage, Zenon DEF d
  <2> QED BY <1>8, <2>1, Zenon DEF Moved
<1>10. /\ IsState(cc)'
       /\ cc'.state = d.state /\ cc'.climb = d.climb /\ cc'.target = d.target
       /\ cc'.fast = d.fast /\ cc'.ticks = d.ticks /\ cc'.entryPm = d.entryPm
       /\ cc'.uncongestive = d.uncongestive /\ cc'.highFor = d.highFor
       /\ cc'.degraded = d.degraded
  <2>1. StateWith(cc', d.entryPm) BY <1>3, <1>9, Zenon DEF IsState, StateWith
  <2>2. /\ cc'.state = d.state /\ cc'.climb = d.climb /\ cc'.target = d.target
        /\ cc'.fast = d.fast /\ cc'.ticks = d.ticks /\ cc'.entryPm = d.entryPm
        /\ cc'.uncongestive = d.uncongestive /\ cc'.highFor = d.highFor
        /\ cc'.degraded = d.degraded
    BY <1>3, <1>9, SMTT(30) DEF IsState, StateWith
  <2> QED BY <2>1, <2>2, Zenon DEF IsState
<1>11. /\ Budget(c, d.state) = IF cc.state \in {"BackingOff", "Drain"} /\ d.state = "Climbing"
                               THEN FastTicks ELSE cc.fast
  BY <1>8, Zenon DEF Budget
<1>12. (BudgetLeft /\ FastWindowFull)'
  <2>1. BudgetLeft /\ cc.fast \in 0 .. FastTicks
    BY DEF IInv, IsState, StateWith
  <2>2. ClimbsTo(d.state)
    BY <1>3, Zenon DEF Remember, ClimbsTo
  <2>3. /\ cc'.state = d.state
        /\ cc'.fast = IF d.state = "Climbing" THEN Spend(Budget(c, d.state)) ELSE 0
        /\ d.state = "Climbing" => (cc'.climb = "FastRecovery" <=> Budget(c, d.state) > 0)
    BY <1>9, <1>10, Zenon
  <2> QED
    BY <1>11, <2>1, <2>2, <2>3, BudgetStep, Zenon
<1>13. BackoffCounted'
  <2>1. BackoffCounted /\ cc.ticks \in Nat
    BY StepsAssumption DEF IInv, IsState, StateWith
  <2>2. VainTo(d.state, pm)
    BY <1>3, Zenon DEF Remember, VainTo
  <2>3. ASSUME d.state = "BackingOff"
        PROVE  /\ ~cc'.uncongestive
               /\ Counted(cc.state, cc.ticks, cc.entryPm, cc'.ticks, cc'.entryPm, pm)
    <3>1. d.state = NextState(c, pm, sane, rtt)
      BY <1>9, Zenon
    <3>2. pm > LossBackoffPm /\ ~c.uncongestive
      BY <2>3, <3>1 DEF NextState
    <3>3. IsState(f)
      BY <1>6, Zenon
    <3>4. Counted(f.state, f.ticks, f.entryPm, c.ticks, c.entryPm, pm)
      BY <1>7, <3>2, <3>3, EfficacyCounts DEF c
    <3>5. f.state = cc.state /\ f.ticks = cc.ticks /\ f.entryPm = cc.entryPm
      BY <1>6, Zenon
    <3>6. /\ cc'.ticks = c.ticks /\ cc'.entryPm = c.entryPm
          /\ cc'.uncongestive = c.uncongestive
      BY <1>9, <1>10, Zenon
    <3> QED
      BY <3>2, <3>4, <3>5, <3>6, Zenon
  <2>4. cc'.state = d.state
    BY <1>10, Zenon
  <2> QED
    BY <2>1, <2>2, <2>3, <2>4, VainStep, Zenon
<1>14. HighTimed'
  <2>1. above' = IF d.ewma # High THEN NoCut
                 ELSE IF above = NoCut THEN 0 ELSE Min({above + gap, DegradeSustain})
    BY <1>3 DEF Remember
  <2>2. cc.highFor = above BY DEF IInv, HighTimed
  <2>3. cc'.highFor = HighFor(cc, band, gap) /\ d.ewma = band
    BY <1>5, <1>9, <1>10, Zenon
  <2> QED BY <2>1, <2>2, <2>3, Zenon DEF HighTimed, HighFor
<1>15. InWindow' BY <1>1, <1>3, WindowKept, SMTT(30) DEF IInv, InWindow
<1>16. Earned
  <2>1. /\ cc.target \in Nat /\ f.target \in Nat /\ d.target \in Nat
        /\ sane \in Nat /\ observed \in Nat
    BY <1>4, <1>6, <1>9, TargetIsNat, Zenon
  <2>2. /\ f.target >= cc.target /\ (cc.target # MinTarget => f.target = cc.target)
        /\ sane <= observed /\ (sane = observed \/ sane >= cc.target)
    BY <1>4, <1>6, Zenon
  <2>3. /\ d.target > f.target => d.state = "Climbing" /\ d.target <= 2 * sane
        /\ d.state = "BackingOff" => d.target >= sane \/ d.target >= f.target
    BY <1>9, Zenon
  <2>4. rate' = observed /\ cc'.state = d.state /\ cc'.target = d.target
    BY <1>10, Zenon
  <2>5. /\ d.target > cc.target /\ cc.target # MinTarget
             /\ (d.target > f.target => d.target <= 2 * sane) => d.target <= 2 * observed
        /\ d.target > cc.target /\ cc.target # MinTarget => d.target > f.target
        /\ d.target >= sane \/ d.target >= f.target => d.target >= Min({observed, cc.target})
    BY <2>1, <2>2, CapStep, Zenon
  <2>6. (cc'.target > cc.target /\ cc.target # MinTarget) =>
          (cc'.state = "Climbing" /\ cc'.target <= 2 * rate')
    BY <2>3, <2>4, <2>5, Zenon
  <2>7. cc'.state = "BackingOff" => cc'.target >= Min({rate', cc.target})
    BY <2>3, <2>4, <2>5, Zenon
  <2>8. (cc'.degraded /\ ~cc.degraded) => above' = DegradeSustain
    BY <1>5, <1>9, <1>10, <1>14, Zenon DEF HighTimed
  <2> QED BY <2>6, <2>7, <2>8, Zenon DEF Earned
<1> QED BY <1>10, <1>12, <1>13, <1>14, <1>15, <1>16, SMTT(30) DEF IInv

(* A tick without a round trip yet leaves the controller in Bootstrap.     *)
LEMMA BootstrapStep ==
  ASSUME IInv, NEW gap \in Gaps, NEW t \in Traffic \cup {Quiet}, TickBootstrap(gap, t)
  PROVE  IInv' /\ Earned
<1>1. /\ cc' = [cc EXCEPT !.baseline = TRUE] /\ cc.state = "Bootstrap"
      /\ samples' = Observe(gap, t)
      /\ climbs' = climbs /\ vain' = vain /\ entry' = entry /\ above' = above
  BY SMTT(30) DEF TickBootstrap
<1>2. /\ IsState(cc)'
      /\ cc'.state = cc.state /\ cc'.climb = cc.climb /\ cc'.target = cc.target
      /\ cc'.fast = cc.fast /\ cc'.ticks = cc.ticks /\ cc'.entryPm = cc.entryPm
      /\ cc'.uncongestive = cc.uncongestive /\ cc'.highFor = cc.highFor
      /\ cc'.degraded = cc.degraded
  <2>1. StateWith(cc', cc.entryPm) BY <1>1, Zenon DEF IInv, IsState, StateWith
  <2>2. /\ cc'.state = cc.state /\ cc'.climb = cc.climb /\ cc'.target = cc.target
        /\ cc'.fast = cc.fast /\ cc'.ticks = cc.ticks /\ cc'.entryPm = cc.entryPm
        /\ cc'.uncongestive = cc.uncongestive /\ cc'.highFor = cc.highFor
        /\ cc'.degraded = cc.degraded
    BY <1>1 DEF IInv, IsState, StateWith
  <2> QED BY <2>1, <2>2 DEF IsState
<1>3. (BudgetLeft /\ FastWindowFull)' BY <1>1, <1>2 DEF IInv, BudgetLeft, FastWindowFull
<1>4. (BackoffCounted /\ HighTimed)' BY <1>1, <1>2 DEF IInv, BackoffCounted, HighTimed
<1>5. InWindow' BY <1>1, WindowKept DEF IInv, InWindow
<1>6. Earned
  <2>1. cc.target \in Nat BY TargetAssumption, SMTT(30) DEF IInv, IsState, StateWith
  <2> QED BY <1>1, <1>2, <2>1, SMTT(30) DEF Earned
<1> QED BY <1>2, <1>3, <1>4, <1>5, <1>6, SMTT(30) DEF IInv

(* A controller starts out in every one of these invariants.               *)
LEMMA DefaultIsState == Default.entryPm = 0 /\ StateWith(Default, 0)
<1>1. /\ MinTarget \in MinTarget .. MaxTarget /\ NoCut \in NoCut .. DegradeSustain
      /\ 0 \in 0 .. FastTicks /\ 0 \in 0 .. EfficacyTicks /\ 0 \in 0 .. RetestTicks
  BY TargetAssumption, StepsAssumption DEF NoCut
<1> QED
  BY <1>1 DEF Default, StateWith, States, Modes, Bands, Low

LEMMA DefaultHolds ==
  ASSUME cc = Default, samples = {}, climbs = NoCut, vain = 0, entry = 0, above = NoCut
  PROVE  IInv
<1>1. Default.entryPm = 0 BY DefaultIsState, Zenon
<1>2. StateWith(Default, 0) BY DefaultIsState, Zenon
<1>3. /\ cc.state = "Bootstrap" /\ cc.fast = 0 /\ cc.highFor = NoCut BY DEF Default
<1> QED BY <1>1, <1>2, <1>3, SMTT(30) DEF IInv, IsState, BudgetLeft, FastWindowFull, BackoffCounted,
                                HighTimed, InWindow

(* Every step keeps the invariant, and moves the cap for its causes only.  *)
LEMMA StepKeeps ==
  IInv /\ [Next]_vars => IInv' /\ [Earned]_vars
<1> SUFFICES ASSUME IInv, [Next]_vars PROVE IInv' /\ [Earned]_vars OBVIOUS
<1>1. CASE Tick
  <2>1. PICK gap \in Gaps, t \in Traffic \cup {Quiet}, observed \in Rates :
          TickAll(gap, t, observed)
    BY <1>1, SMTT(30) DEF Tick
  <2>2. CASE TickBootstrap(gap, t) BY <2>2, BootstrapStep, SMTT(30)
  <2>3. CASE TickActive(gap, t, observed)
    <3>1. rate' = observed BY <2>1 DEF TickAll
    <3> QED BY <2>3, <3>1, ActiveStep, SMTT(30)
  <2> QED BY <2>1, <2>2, <2>3 DEF TickAll
<1>2. CASE Collect
  <2>1. /\ cc' = Default /\ samples' = {} /\ climbs' = NoCut /\ vain' = 0 /\ entry' = 0
        /\ above' = NoCut
    BY <1>2, SMTT(30) DEF Collect
  <2>2. IInv'
    <3>1. Default.entryPm = 0 BY DefaultIsState, Zenon
    <3>2. StateWith(Default, 0) BY DefaultIsState, Zenon
    <3>3. cc'.state = "Bootstrap" /\ cc'.fast = 0 /\ cc'.highFor = NoCut
      BY <2>1, SMTT(30) DEF Default
    <3> QED BY <2>1, <3>1, <3>2, <3>3, SMTT(30)
         DEF IInv, IsState, BudgetLeft, FastWindowFull, BackoffCounted, HighTimed, InWindow
  <2>3. Earned
    <3>1. cc.target \in MinTarget .. MaxTarget /\ MinTarget \in Nat
      BY TargetAssumption, SMTT(30) DEF IInv, IsState, StateWith
    <3>2. cc'.target = MinTarget /\ cc'.state = "Bootstrap" /\ cc'.degraded = FALSE
      BY <2>1, SMTT(30) DEF Default
    <3> QED BY <3>1, <3>2, SMTT(30) DEF Earned
  <2> QED BY <2>2, <2>3
<1>3. CASE UNCHANGED vars
  BY <1>3 DEF vars, IInv, BudgetLeft, FastWindowFull, BackoffCounted, HighTimed, InWindow
<1> QED BY <1>1, <1>2, <1>3 DEF Next

-----------------------------------------------------------------------------
(* The inductive invariant.                                                *)
LEMMA Invariant == Spec => []IInv
<1>1. Init => IInv BY DefaultHolds DEF Init
<1> QED BY <1>1, StepKeeps, PTL DEF Spec

(* Type correctness: the cap of a link stays between its floor and its     *)
(* ceiling, and every timer and counter of the controller in its range.    *)
THEOREM ControllerTyped == Spec => []TypeOK
<1>1. IInv => TypeOK
  <2> SUFFICES ASSUME IInv PROVE TypeOK OBVIOUS
  <2>1. \A s \in samples : s.age \in 0 .. LossWindow BY DEF IInv, InWindow
  <2> QED BY <2>1 DEF IInv, IsState, StateWith, TypeOK
<1> QED BY <1>1, Invariant, PTL

(* pick_climb_mode serves exactly FAST_RECOVERY_TICKS fast climbs after a  *)
(* cut, the arming tick included, however the cut came about.              *)
THEOREM FastWindowServed == Spec => []FastWindowFull
<1>1. IInv => FastWindowFull BY SMTT(30) DEF IInv
<1> QED BY <1>1, Invariant, PTL

(* update_backoff_efficacy stops a backoff that does not help after        *)
(* BACKOFF_EFFICACY_TICKS, for any loss and any improvement asked for.     *)
THEOREM VainCutsEnd == Spec => []VainCutsStop
<1>1. IInv => VainCutsStop
  BY StepsAssumption DEF IInv, IsState, StateWith, BackoffCounted, VainCutsStop
<1> QED BY <1>1, Invariant, PTL

(* tick raises the cap only when climbing and to at most twice what the    *)
(* link carried, cuts it to no less than what it carried, and latches      *)
(* loss_degraded only at the end of a sustained high.                      *)
THEOREM CapMovesForCause == Spec => TargetEarned
<1>1. IInv /\ [Next]_vars => [Earned]_vars BY StepKeeps
<1>2. Spec => [][Earned]_vars BY <1>1, Invariant, PTL DEF Spec
<1> QED BY <1>2 DEF TargetEarned, Earned

-----------------------------------------------------------------------------
\* The weak-link filter.

\* The lesser of two.
LEMMA FilterMin ==
  ASSUME NEW a \in Int, NEW b \in Int
  PROVE  Filter!Min({a, b}) = IF a <= b THEN a ELSE b
<1>1. \E x \in {a, b} : \A y \in {a, b} : x =< y
  OBVIOUS
<1>2. /\ Filter!Min({a, b}) \in {a, b}
      /\ \A y \in {a, b} : Filter!Min({a, b}) =< y
  BY <1>1 DEF Filter!Min
<1> QED
  BY <1>2

\* The greater of two.
LEMMA FilterMax ==
  ASSUME NEW a \in Int, NEW b \in Int
  PROVE  Filter!Max({a, b}) = IF a >= b THEN a ELSE b
<1>1. \E x \in {a, b} : \A y \in {a, b} : x >= y
  OBVIOUS
<1>2. /\ Filter!Max({a, b}) \in {a, b}
      /\ \A y \in {a, b} : Filter!Max({a, b}) >= y
  BY <1>1, SMTT(30) DEF Filter!Max
<1> QED
  BY <1>2

\* A value clamped to bounds.
LEMMA ClampBetween ==
  ASSUME NEW x \in Int, NEW lo \in Int, NEW hi \in Int
  PROVE  Filter!Clamp(x, lo, hi) = IF x >= lo THEN IF x <= hi THEN x ELSE hi
                                   ELSE IF lo <= hi THEN lo ELSE hi
<1>1. Filter!Max({x, lo}) = IF x >= lo THEN x ELSE lo
  BY FilterMax, SMTT(30)
<1> QED
  BY <1>1, FilterMin, SMTT(30) DEF Filter!Clamp

\* The three tiers lie in order, and when no latency is negotiated the tightest admits
\* the longest round trip, up to two seconds.
LEMMA TiersAdmit ==
  ASSUME NEW longest \in Nat, NEW latency \in Nat
  PROVE  LET t == Filter!Targets(Filter!DelayBudget(latency, longest)) IN
         (latency = 0 /\ longest > 0 /\ longest <= 2000)
           => longest <= t.best /\ longest <= t.safe /\ longest <= t.max
<1> DEFINE b == Filter!DelayBudget(latency, longest)
<1> SUFFICES ASSUME latency = 0, longest > 0, longest <= 2000
             PROVE  /\ longest <= Filter!Targets(b).best
                    /\ longest <= Filter!Targets(b).safe
                    /\ longest <= Filter!Targets(b).max
  OBVIOUS
<1>1. b = Filter!Clamp(longest * 3, 500, 5000)
  BY DEF Filter!DelayBudget
<1>2. /\ b \in Nat
      /\ longest <= (b * 40) \div 100
      /\ (b * 40) \div 100 <= (b * 50) \div 100
      /\ (b * 50) \div 100 <= (b * 60) \div 100
  <2>1. longest * 3 \in Int
    OBVIOUS
  <2>2. b = IF longest * 3 >= 500 THEN IF longest * 3 <= 5000 THEN longest * 3 ELSE 5000
            ELSE 500
    BY <1>1, <2>1, ClampBetween, SMTT(30)
  <2> HIDE DEF b
  <2> QED
    BY <2>2
<1> HIDE DEF b
<1>3. /\ Filter!Targets(b).best = Filter!Min({(b * 40) \div 100, 2500})
      /\ Filter!Targets(b).safe = Filter!Min({(b * 50) \div 100, 2500})
      /\ Filter!Targets(b).max = Filter!Min({(b * 60) \div 100, 5000})
  BY SMTT(30) DEF Filter!Targets
<1>4. /\ Filter!Targets(b).best = IF (b * 40) \div 100 <= 2500 THEN (b * 40) \div 100 ELSE 2500
      /\ Filter!Targets(b).safe = IF (b * 50) \div 100 <= 2500 THEN (b * 50) \div 100 ELSE 2500
      /\ Filter!Targets(b).max = IF (b * 60) \div 100 <= 5000 THEN (b * 60) \div 100 ELSE 5000
  BY <1>2, <1>3, FilterMin, SMTT(30)
<1> QED
  BY <1>2, <1>4, SMTT(30)

\* pick_tier returns one of the tiers, whatever fits them.
LEMMA PickTierPicks ==
  ASSUME NEW best, NEW safe, NEW max, NEW t
  PROVE  Filter!PickTier(best, safe, max, t) \in {t.best, t.safe, t.max}
BY SMTT(30) DEF Filter!PickTier

\* What the filter remembers of a link.
Kept == [weak : BOOLEAN, delayed : 0 .. Sustain, streak : Nat, probation : 0 .. Window,
         backoff : 0 .. BackoffMax]

TierMeant(t) ==
  (t.latency = 0 /\ t.longest > 0 /\ t.longest <= 2000) => t.longest <= t.delay

\* What a tick that is no bypass hands to the third pass.
LEMMA AssessMeans ==
  ASSUME NEW view \in [Links -> Filter!Sample], NEW latency \in Latencies,
         ~Filter!Assess(view, latency).bypass
  PROVE  LET t == Filter!Assess(view, latency) IN
         /\ DOMAIN t.seen \subseteq Links
         /\ \A l \in DOMAIN t.seen : t.seen[l].signal \in Filter!Delay \cup {"none"}
         /\ TierMeant(t.tier)
<1> DEFINE C == {l \in Links : view[l].connected}
           longest == Filter!Max({view[l].rtt : l \in C})
           targets == Filter!Targets(Filter!DelayBudget(latency, longest))
           fit == <<Filter!Within(view, C, targets.best), Filter!Within(view, C, targets.safe),
                    Filter!Within(view, C, targets.max)>>
           delay == Filter!PickTier(fit[1], fit[2], fit[3], targets)
           seen == [l \in C |-> [signal |-> Filter!DelaySignal(view[l], delay),
                                 idle |-> view[l].rate = 0,
                                 share |-> (view[l].rate * 1000) \div Filter!Total(view, C)]]
           tr == [delay |-> delay, latency |-> latency, longest |-> longest]
           full == [bypass |-> FALSE, n |-> Filter!Cardinality(C), seen |-> seen, tier |-> tr]
           low == C = {} \/ Filter!Total(view, C) < MinTotal
<1>1. Filter!Assess(view, latency) = IF low THEN [bypass |-> TRUE] ELSE full
  BY Zenon DEF Filter!Assess
<1>2. ~low /\ Filter!Assess(view, latency) = full
  <2> HIDE DEF low, full
  <2>1. [bypass |-> TRUE].bypass
    BY SMTT(30)
  <2> QED
    BY <1>1, <2>1, SMTT(30)
<1>3. C # {}
  BY <1>2, ZenonT(40)
<1>4. longest \in Nat
  <2> DEFINE S == {view[l].rtt : l \in C}
  <2>1. S # {} /\ S \subseteq Rtts
    <3>1. ASSUME NEW l \in C PROVE view[l].rtt \in Rtts
      <4>1. view[l] \in Filter!Sample /\ view[l].connected
        OBVIOUS
      <4> QED
        BY <4>1, Zenon DEF Filter!Sample
    <3> HIDE DEF C
    <3> QED
      BY <1>3, <3>1, SMTT(30)
  <2>2. PICK m \in S : \A r \in S : r <= m
    BY <2>1, FilterAssumption, Zenon DEF Filter!FilterFacts
  <2>3. S \subseteq Nat
    BY <2>1, FilterAssumption, Zenon DEF Filter!ClassifierAssumption
  <2> HIDE DEF S
  <2>4. \A r \in S : m >= r
    BY <2>2, <2>3
  <2>5. Filter!Max(S) \in S
    BY <2>2, <2>4 DEF Filter!Max
  <2> QED
    BY <2>3, <2>5, SMTT(30) DEF S
<1>5. latency \in Nat
  BY FilterAssumption DEF Filter!ClassifierAssumption
<1>6. delay \in {targets.best, targets.safe, targets.max}
  <2> HIDE DEF targets, fit
  <2> QED
    BY PickTierPicks, Zenon
<1>7. TierMeant(tr)
  <2>1. (latency = 0 /\ longest > 0 /\ longest <= 2000)
          => longest <= targets.best /\ longest <= targets.safe /\ longest <= targets.max
    <3> HIDE DEF longest
    <3> QED
      BY <1>4, <1>5, TiersAdmit, SMTT(30)
  <2> HIDE DEF longest, targets, fit, delay
  <2>2. tr.latency = latency /\ tr.longest = longest /\ tr.delay = delay
    BY SMTT(30)
  <2> HIDE DEF tr
  <2> QED
    BY <1>6, <2>1, <2>2 DEF TierMeant
<1>8. DOMAIN seen = C /\ C \subseteq Links
  BY ZenonT(40)
<1>9. ASSUME NEW l \in C
      PROVE  seen[l].signal \in Filter!Delay \cup {"none"}
  <2> HIDE DEF C, delay
  <2>1. seen[l].signal = Filter!DelaySignal(view[l], delay)
    BY SMTT(30)
  <2> QED
    BY <2>1, SMTT(30) DEF Filter!DelaySignal, Filter!Delay
<1>10. full.seen = seen /\ full.tier = tr
  <2> HIDE DEF seen, tr, C
  <2> QED
    BY SMTT(30)
<1> HIDE DEF full, seen, tr, C
<1> QED
  BY <1>2, <1>7, <1>8, <1>9, <1>10, SMTT(30)

\* The verdict before the re-test is a delay verdict exactly when the streak is full.
LEMMA JudgeMeans ==
  ASSUME NEW h \in Kept, NEW s, NEW n, s.signal \in Filter!Delay \cup {"none"}
  PROVE  LET d == Filter!DelayStreak(h, s.signal)
             reason == Filter!Judge(h, s, n)
         IN /\ d \in 0 .. Sustain
            /\ reason \in Filter!Delay \cup Filter!Share \cup {"Healthy"}
            /\ reason \in Filter!Delay <=> d = Sustain
<1> DEFINE d == Filter!DelayStreak(h, s.signal)
<1> SUFFICES /\ d \in 0 .. Sustain
             /\ Filter!Judge(h, s, n) \in Filter!Delay \cup Filter!Share \cup {"Healthy"}
             /\ Filter!Judge(h, s, n) \in Filter!Delay <=> d = Sustain
  BY SMTT(30)
<1>1. Sustain \in Nat \ {0} /\ h.delayed \in 0 .. Sustain
  BY FilterAssumption, SMTT(30) DEF Filter!ClassifierAssumption, Kept
<1>2. d \in 0 .. Sustain /\ (d = Sustain => s.signal # "none")
  <2>1. d = IF s.signal = "none" THEN 0 ELSE Filter!Min({h.delayed + 1, Sustain})
    BY DEF Filter!DelayStreak
  <2>2. Filter!Min({h.delayed + 1, Sustain}) \in 0 .. Sustain
    BY <1>1, FilterMin, SMTT(30)
  <2> HIDE DEF d
  <2> QED
    BY <1>1, <2>1, <2>2, SMTT(30)
<1>3. CASE d = Sustain
  <2>1. Filter!Judge(h, s, n) = s.signal
    <3>1. d >= Sustain
      BY <1>1, <1>3, SMTT(30)
    <3> QED
      BY <3>1, SMTT(30) DEF Filter!Judge
  <2> HIDE DEF d
  <2> QED
    BY <1>2, <1>3, <2>1, SMTT(30)
<1>4. CASE d # Sustain
  <2>1. Filter!Judge(h, s, n) \in {"NoTraffic", "LowShare", "Healthy"}
    <3>1. ~(d >= Sustain)
      BY <1>1, <1>2, <1>4, SMTT(30)
    <3> QED
      BY <3>1, SMTT(30) DEF Filter!Judge
  <2> HIDE DEF d
  <2> QED
    BY <1>2, <1>4, <2>1, SMTT(30) DEF Filter!Delay, Filter!Share
<1> QED
  BY <1>3, <1>4, SMTT(30)

\* How a tick prices the re-tests of a link: it arms one and doubles the wait, forgives
\* them all, or leaves the price alone.
Armed(h, r) == h.probation = 0 /\ r.hist.probation = Window
Forgiven(h, r) == ~Armed(h, r) /\ h.probation = 0 /\ r.reason = "Healthy"

Priced(h, r) ==
  r.hist.backoff = IF Armed(h, r) THEN Filter!ProbationBackoffNext(h.backoff)
                   ELSE IF Forgiven(h, r) THEN 1 ELSE h.backoff

\* The record r tells the truth about a link that now has the delay streak d.
Judged(h, d, r) ==
  /\ r.hist \in Kept /\ r.hist.delayed = d
  /\ r.reason \in Filter!Reasons
  /\ r.reason \in Filter!Delay <=> d = Sustain
  /\ Priced(h, r)

\* probation_backoff stays below its ceiling.
LEMMA BackoffNextKept ==
  ASSUME NEW b \in 0 .. BackoffMax
  PROVE  Filter!ProbationBackoffNext(b) \in 0 .. BackoffMax
<1>1. BackoffMax \in Nat \ {0, 1}
  BY FilterAssumption DEF Filter!ClassifierAssumption
<1> QED
  BY <1>1, FilterMin, SMTT(30) DEF Filter!ProbationBackoffNext

\* The history of a link in a re-test.
Windowed(h, d, w, p) == [h EXCEPT !.delayed = d, !.weak = w, !.streak = 0, !.probation = p]

\* A window or its end changes nothing of the price.
LEMMA RetestKept ==
  ASSUME NEW h \in Kept, NEW d \in 0 .. Sustain, NEW w \in BOOLEAN, NEW p \in 0 .. Window
  PROVE  /\ Windowed(h, d, w, p) \in Kept
         /\ Windowed(h, d, w, p).delayed = d /\ Windowed(h, d, w, p).backoff = h.backoff
BY Zenon DEF Kept, Windowed

\* Every branch of the re-test leaves a true record.
LEMMA ProbationMeans ==
  ASSUME NEW h \in Kept, NEW d \in 0 .. Sustain,
         NEW reason \in Filter!Delay \cup Filter!Share \cup {"Healthy"},
         reason \in Filter!Delay <=> d = Sustain
  PROVE  Judged(h, d, Filter!Probation(h, d, reason))
<1> DEFINE r == Filter!Probation(h, d, reason)
<1> SUFFICES Judged(h, d, r)
  OBVIOUS
<1>1. /\ Sustain \in Nat \ {0} /\ Window \in Nat \ {0} /\ BackoffMax \in Nat \ {0, 1}
      /\ h.weak \in BOOLEAN /\ h.delayed \in 0 .. Sustain /\ h.streak \in Nat
      /\ h.probation \in 0 .. Window /\ h.backoff \in 0 .. BackoffMax
  BY FilterAssumption DEF Filter!ClassifierAssumption, Kept
<1>2. reason \in Filter!Reasons
  BY DEF Filter!Reasons
<1>3. CASE Filter!WindowHolds(h, d)
  <2> DEFINE k == Windowed(h, d, FALSE, h.probation - 1)
  <2>1. r.hist = k /\ r.reason = "Healthy"
    BY <1>3 DEF Filter!Probation, Windowed
  <2>2. h.probation > 0 /\ d < Sustain
    BY <1>3, SMTT(30) DEF Filter!WindowHolds
  <2>3. k \in Kept /\ k.delayed = d /\ k.backoff = h.backoff
    <3>1. h.probation - 1 \in 0 .. Window
      BY <1>1, <2>2
    <3> QED
      BY <3>1, RetestKept, ZenonT(40)
  <2> HIDE DEF r, k
  <2>4. Priced(h, r)
    BY <1>1, <2>1, <2>2, <2>3 DEF Priced, Armed, Forgiven
  <2>5. d # Sustain /\ "Healthy" \notin Filter!Delay /\ "Healthy" \in Filter!Reasons
    BY <1>1, <2>2 DEF Filter!Delay, Filter!Reasons
  <2> QED
    BY <2>1, <2>3, <2>4, <2>5 DEF Judged
<1>4. CASE ~Filter!WindowHolds(h, d) /\ h.probation > 0
  <2> DEFINE k == Windowed(h, d, TRUE, 0)
  <2>1. r.hist = k /\ r.reason = reason
    BY <1>4 DEF Filter!Probation, Windowed
  <2>2. k \in Kept /\ k.delayed = d /\ k.backoff = h.backoff
    <3>1. 0 \in 0 .. Window
      BY <1>1
    <3> QED
      BY <3>1, RetestKept, ZenonT(40)
  <2> HIDE DEF r, k
  <2>3. Priced(h, r)
    BY <1>1, <1>4, <2>1, <2>2 DEF Priced, Armed, Forgiven
  <2> QED
    BY <1>2, <2>1, <2>2, <2>3 DEF Judged
<1>5. CASE ~Filter!WindowHolds(h, d) /\ ~(h.probation > 0) /\ Filter!ShareWeak(reason)
  <2> DEFINE due == h.streak + 1 >= Interval * Filter!Max({h.backoff, 1})
             k == [weak |-> TRUE, delayed |-> d,
                   streak |-> IF due THEN 0 ELSE h.streak + 1,
                   probation |-> IF due THEN Window ELSE 0,
                   backoff |-> IF due THEN Filter!ProbationBackoffNext(h.backoff)
                               ELSE h.backoff]
  <2>1. r.hist = k /\ r.reason = reason
    BY <1>5 DEF Filter!Probation
  <2> HIDE DEF due
  <2>2. k \in Kept /\ k.delayed = d
    BY <1>1, BackoffNextKept, SMTT(30) DEF Kept
  <2>3. /\ k.probation = IF due THEN Window ELSE 0
        /\ k.backoff = IF due THEN Filter!ProbationBackoffNext(h.backoff) ELSE h.backoff
    OBVIOUS
  <2>4. reason # "Healthy"
    BY <1>5, SMTT(30) DEF Filter!ShareWeak, Filter!Share
  <2>5. h.probation = 0
    BY <1>1, <1>5, SMTT(30)
  <2> HIDE DEF r, k
  <2>6. Priced(h, r)
    BY <1>1, <2>1, <2>3, <2>4, <2>5, Zenon DEF Priced, Armed, Forgiven
  <2> QED
    BY <1>2, <2>1, <2>2, <2>6 DEF Judged
<1>6. CASE ~Filter!WindowHolds(h, d) /\ ~(h.probation > 0) /\ ~Filter!ShareWeak(reason)
  <2> DEFINE k == [weak |-> reason # "Healthy", delayed |-> d, streak |-> 0, probation |-> 0,
                   backoff |-> Filter!ForgivenBackoff(h, reason)]
  <2>1. r.hist = k /\ r.reason = reason
    BY <1>6 DEF Filter!Probation
  <2>2. Filter!ForgivenBackoff(h, reason) = IF reason = "Healthy" THEN 1 ELSE h.backoff
    BY SMTT(30) DEF Filter!ForgivenBackoff
  <2>3. k \in Kept /\ k.delayed = d
    BY <1>1, <2>2, SMTT(30) DEF Kept
  <2>4. k.probation = 0 /\ k.backoff = IF reason = "Healthy" THEN 1 ELSE h.backoff
    BY <2>2, SMTT(30)
  <2>5. h.probation = 0
    BY <1>1, <1>6, SMTT(30)
  <2> HIDE DEF r, k
  <2>6. Priced(h, r)
    BY <1>1, <2>1, <2>4, <2>5, Zenon DEF Priced, Armed, Forgiven
  <2> QED
    BY <1>2, <2>1, <2>3, <2>6 DEF Judged
<1> QED
  BY <1>3, <1>4, <1>5, <1>6

\* The wait after f failed re-tests.
Price(f, b) == IF f = 0 THEN b <= 1 ELSE b = Filter!Min({2 ^ f, BackoffMax})

\* One more failed re-test doubles the wait, up to its ceiling.
LEMMA PriceDoubles ==
  ASSUME NEW f \in 0 .. FailCap, NEW b \in 0 .. BackoffMax, Price(f, b)
  PROVE  /\ Filter!Min({f + 1, FailCap}) \in 0 .. FailCap
         /\ Price(Filter!Min({f + 1, FailCap}), Filter!ProbationBackoffNext(b))
<1>1. /\ BackoffMax \in Nat \ {0, 1} /\ FailCap \in Nat
      /\ 2 ^ 0 = 1 /\ 2 ^ FailCap >= BackoffMax
      /\ \A k \in 0 .. FailCap : 2 ^ k \in Nat \ {0} /\ 2 ^ (k + 1) = 2 * 2 ^ k
  BY FilterAssumption, SMTT(30) DEF Filter!ClassifierAssumption, Filter!FilterFacts
<1> DEFINE P(k) == 2 ^ k
<1>2. /\ P(0) = 1 /\ P(FailCap) >= BackoffMax
      /\ \A k \in 0 .. FailCap : P(k) \in Nat \ {0} /\ P(k + 1) = 2 * P(k)
  BY <1>1, SMTT(30)
<1>3. \A k : Price(k, b) <=> IF k = 0 THEN b <= 1 ELSE b = Filter!Min({P(k), BackoffMax})
  BY SMTT(30) DEF Price
<1> DEFINE c == Filter!ProbationBackoffNext(b)
<1>4. \A k : Price(k, c) <=> IF k = 0 THEN c <= 1 ELSE c = Filter!Min({P(k), BackoffMax})
  BY SMTT(30) DEF Price
<1>5. c = IF b <= 1 THEN 2 ELSE IF 2 * b <= BackoffMax THEN 2 * b ELSE BackoffMax
  <2>1. CASE b <= 1
    BY <1>1, <2>1, FilterMin, SMTT(30) DEF Filter!ProbationBackoffNext
  <2>2. CASE ~(b <= 1)
    BY <1>1, <2>2, FilterMin, SMTT(30) DEF Filter!ProbationBackoffNext
  <2> QED
    BY <2>1, <2>2, SMTT(30)
<1> HIDE DEF P, c
<1>6. FailCap > 0
  BY <1>1, <1>2, SMTT(30)
<1>7. CASE f < FailCap
  <2>1. Filter!Min({f + 1, FailCap}) = f + 1
    BY <1>1, <1>7, FilterMin, SMTT(30)
  <2>2. P(f + 1) = 2 * P(f) /\ P(f) \in Nat \ {0} /\ P(f + 1) \in Nat
    BY <1>2, SMTT(30)
  <2>3. Filter!Min({P(f + 1), BackoffMax})
          = IF P(f + 1) <= BackoffMax THEN P(f + 1) ELSE BackoffMax
    BY <1>1, <2>2, FilterMin, SMTT(30)
  <2>4. c = Filter!Min({P(f + 1), BackoffMax})
    <3>1. CASE f = 0
      <4>1. b <= 1
        BY <1>3, <3>1, Zenon
      <4>2. P(f + 1) = 2
        BY <1>2, <2>2, <3>1
      <4> QED
        BY <1>1, <1>5, <2>3, <4>1, <4>2, SMTT(30)
    <3>2. CASE f # 0
      <4>1. b = Filter!Min({P(f), BackoffMax})
        BY <1>3, <3>2
      <4>2. b = IF P(f) <= BackoffMax THEN P(f) ELSE BackoffMax
        BY <1>1, <2>2, <4>1, FilterMin, SMTT(30)
      <4>3. P(f) >= 2
        <5>1. f - 1 \in 0 .. FailCap /\ (f - 1) + 1 = f
          BY <1>1, <3>2, SMTT(30)
        <5>2. P(f - 1) \in Nat \ {0} /\ P((f - 1) + 1) = 2 * P(f - 1)
          BY <1>2, <5>1, SMTT(30)
        <5>3. P(f) = 2 * P(f - 1)
          BY <5>1, <5>2, SMTT(30)
        <5> QED
          BY <5>2, <5>3, SMTT(30)
      <4> QED
        BY <1>1, <1>5, <2>2, <2>3, <4>2, <4>3
    <3> QED
      BY <3>1, <3>2, SMTT(30)
  <2> QED
    BY <1>1, <1>4, <1>7, <2>1, <2>4, SMTT(30) DEF c
<1>8. CASE f = FailCap
  <2>1. Filter!Min({f + 1, FailCap}) = FailCap
    BY <1>1, <1>8, FilterMin, SMTT(30)
  <2>2. P(FailCap) \in Nat /\ Filter!Min({P(FailCap), BackoffMax}) = BackoffMax
    <3>1. P(FailCap) \in Nat
      BY <1>1, <1>2, SMTT(30)
    <3> QED
      BY <1>1, <1>2, <3>1, FilterMin, SMTT(30)
  <2>3. b = BackoffMax
    BY <1>3, <1>6, <1>8, <2>2, SMTT(30)
  <2>4. c = BackoffMax
    BY <1>1, <1>5, <2>3, SMTT(30)
  <2> QED
    BY <1>1, <1>4, <1>6, <2>1, <2>2, <2>4, SMTT(30) DEF c
<1> QED
  BY <1>1, <1>7, <1>8, SMTT(30)

-----------------------------------------------------------------------------
\* The inductive invariant: what is remembered of a link, and what the histories say.
Rated(h, v, n, f) ==
  /\ h \in Kept /\ v \in Filter!Reasons /\ f \in 0 .. FailCap
  /\ n = h.delayed
  /\ v \in Filter!Delay <=> n = Sustain
  /\ Price(f, h.backoff)

FilterInv ==
  /\ DOMAIN hist = Links /\ DOMAIN verdict = Links
  /\ DOMAIN late = Links /\ DOMAIN fails = Links
  /\ \A l \in Links : Rated(hist[l], verdict[l], late[l], fails[l])
  /\ TierMeant(tier)

\* A link without history, whether bypassed or not connected.
LEMMA FreshRated ==
  ASSUME NEW v \in {"Healthy", "Bypassed"}
  PROVE  Rated(Filter!NoHistory, v, 0, 0)
<1>1. Sustain \in Nat \ {0} /\ Window \in Nat \ {0} /\ BackoffMax \in Nat \ {0, 1}
      /\ FailCap \in Nat
  BY FilterAssumption, SMTT(30) DEF Filter!ClassifierAssumption, Filter!FilterFacts
<1>2. Filter!NoHistory \in Kept /\ Filter!NoHistory.delayed = 0 /\ Filter!NoHistory.backoff = 0
  BY <1>1, SMTT(30) DEF Filter!NoHistory, Kept
<1>3. v \in Filter!Reasons /\ v \notin Filter!Delay
  BY DEF Filter!Reasons, Filter!Delay
<1>4. Price(0, 0)
  BY SMTT(30) DEF Price
<1> QED
  BY <1>1, <1>2, <1>3, <1>4, SMTT(30) DEF Rated

\* A connected link after the third pass.
FailsNext(h, f, r) ==
  IF Armed(h, r) THEN Filter!Min({f + 1, FailCap}) ELSE IF Forgiven(h, r) THEN 0 ELSE f

\* Classifying a link keeps what is known of it.
LEMMA ClassifyRated ==
  ASSUME NEW h, NEW v, NEW n, NEW f, NEW s, NEW m, Rated(h, v, n, f),
         s.signal \in Filter!Delay \cup {"none"}
  PROVE  LET r == Filter!ClassifyLink(h, s, m) IN
         Rated(r.hist, r.reason,
               IF s.signal # "none" THEN Filter!Min({n + 1, Sustain}) ELSE 0,
               FailsNext(h, f, r))
<1> DEFINE d == Filter!DelayStreak(h, s.signal)
           r == Filter!ClassifyLink(h, s, m)
           g == FailsNext(h, f, r)
<1> SUFFICES Rated(r.hist, r.reason,
                   IF s.signal # "none" THEN Filter!Min({n + 1, Sustain}) ELSE 0, g)
  BY SMTT(30)
<1>1. /\ h \in Kept /\ n = h.delayed /\ f \in 0 .. FailCap /\ Price(f, h.backoff)
      /\ h.backoff \in 0 .. BackoffMax /\ FailCap \in Nat
  BY FilterAssumption, SMTT(30) DEF Rated, Kept, Filter!FilterFacts
<1>2. d = IF s.signal # "none" THEN Filter!Min({n + 1, Sustain}) ELSE 0
  BY <1>1, SMTT(30) DEF Filter!DelayStreak
<1>3. Judged(h, d, r)
  <2> DEFINE reason == Filter!Judge(h, s, m)
  <2>1. /\ d \in 0 .. Sustain
        /\ reason \in Filter!Delay \cup Filter!Share \cup {"Healthy"}
        /\ reason \in Filter!Delay <=> d = Sustain
    BY <1>1, JudgeMeans, SMTT(30)
  <2>2. r = Filter!Probation(h, d, reason)
    BY SMTT(30) DEF Filter!ClassifyLink
  <2> HIDE DEF d, r, reason
  <2> QED
    BY <1>1, <2>1, <2>2, ProbationMeans, SMTT(30)
<1>4. g \in 0 .. FailCap /\ Price(g, r.hist.backoff)
  <2> HIDE DEF d, r
  <2>1. CASE Armed(h, r)
    BY <1>1, <1>3, <2>1, PriceDoubles, ZenonT(40) DEF Judged, Priced, FailsNext
  <2>2. CASE ~Armed(h, r) /\ Forgiven(h, r)
    <3>1. 0 \in 0 .. FailCap /\ Price(0, 1)
      BY <1>1 DEF Price
    <3> QED
      BY <1>3, <2>2, <3>1, Zenon DEF Judged, Priced, FailsNext
  <2>3. CASE ~Armed(h, r) /\ ~Forgiven(h, r)
    BY <1>1, <1>3, <2>3, Zenon DEF Judged, Priced, FailsNext
  <2> QED
    BY <2>1, <2>2, <2>3, SMTT(30)
<1> HIDE DEF d, r, g
<1> QED
  BY <1>2, <1>3, <1>4, SMTT(30) DEF Judged, Rated

\* A fresh filter knows nothing.
LEMMA FilterInit == Filter!Init => FilterInv
<1> SUFFICES ASSUME Filter!Init PROVE FilterInv
  BY SMTT(30)
<1>1. TierMeant(tier)
  BY SMTT(30) DEF Filter!Init, Filter!NoTier, TierMeant
<1>2. ASSUME NEW l \in Links
      PROVE  Rated(hist[l], verdict[l], late[l], fails[l])
  BY FreshRated, SMTT(30) DEF Filter!Init
<1> QED
  BY <1>1, <1>2 DEF FilterInv, Filter!Init

\* A bypass forgets everything.
LEMMA BypassKeeps == Filter!Bypass => FilterInv'
<1> SUFFICES ASSUME Filter!Bypass PROVE FilterInv'
  BY SMTT(30)
<1>1. TierMeant(tier')
  BY SMTT(30) DEF Filter!Bypass, Filter!NoTier, TierMeant
<1>2. ASSUME NEW l \in Links
      PROVE  Rated(hist'[l], verdict'[l], late'[l], fails'[l])
  BY FreshRated, SMTT(30) DEF Filter!Bypass
<1> QED
  BY <1>1, <1>2 DEF FilterInv, Filter!Bypass

\* The third pass, over what the first two found.
LEMMA ClassifyAllKeeps ==
  ASSUME FilterInv, NEW t, Filter!ClassifyAll(t), DOMAIN t.seen \subseteq Links,
         \A l \in DOMAIN t.seen : t.seen[l].signal \in Filter!Delay \cup {"none"},
         TierMeant(t.tier)
  PROVE  FilterInv'
<1> DEFINE C == DOMAIN t.seen
           out == [l \in C |-> Filter!ClassifyLink(hist[l], t.seen[l], t.n)]
<1>1. /\ hist' = [l \in Links |-> IF l \in C THEN out[l].hist ELSE Filter!NoHistory]
      /\ verdict' = [l \in Links |-> IF l \in C THEN out[l].reason ELSE "Healthy"]
      /\ late' = [l \in Links |-> IF l \in C /\ t.seen[l].signal # "none"
                                  THEN Filter!Min({late[l] + 1, Sustain}) ELSE 0]
      /\ fails' = [l \in Links |-> IF l \in C THEN Filter!FailsAfter(l, out[l]) ELSE 0]
      /\ tier' = t.tier
  BY ZenonT(40) DEF Filter!ClassifyAll
<1>2. ASSUME NEW l \in Links, l \in C
      PROVE  Rated(hist'[l], verdict'[l], late'[l], fails'[l])
  <2> DEFINE r == Filter!ClassifyLink(hist[l], t.seen[l], t.n)
             n == IF t.seen[l].signal # "none" THEN Filter!Min({late[l] + 1, Sustain}) ELSE 0
  <2>1. out[l] = r
    BY <1>2, Zenon
  <2> HIDE DEF r, out, C
  <2>2. Filter!FailsAfter(l, r) = FailsNext(hist[l], fails[l], r)
    BY Zenon DEF Filter!FailsAfter, FailsNext, Armed, Forgiven
  <2>3. /\ hist'[l] = r.hist /\ verdict'[l] = r.reason /\ late'[l] = n
        /\ fails'[l] = FailsNext(hist[l], fails[l], r)
    BY <1>1, <1>2, <2>1, <2>2, ZenonT(40)
  <2>4. Rated(r.hist, r.reason, n, FailsNext(hist[l], fails[l], r))
    BY <1>2, ClassifyRated, ZenonT(40) DEF FilterInv, r, C
  <2> HIDE DEF n
  <2> QED
    BY <2>3, <2>4, ZenonT(40)
<1>3. ASSUME NEW l \in Links, l \notin C
      PROVE  Rated(hist'[l], verdict'[l], late'[l], fails'[l])
  <2> HIDE DEF C, out
  <2>1. hist'[l] = Filter!NoHistory /\ verdict'[l] = "Healthy" /\ late'[l] = 0 /\ fails'[l] = 0
    BY <1>1, <1>3, ZenonT(40)
  <2> QED
    BY <2>1, FreshRated, Zenon
<1>4. /\ DOMAIN hist' = Links /\ DOMAIN verdict' = Links
      /\ DOMAIN late' = Links /\ DOMAIN fails' = Links
  <2> HIDE DEF C, out
  <2> QED
    BY <1>1, Zenon
<1> QED
  BY <1>1, <1>2, <1>3, <1>4, ZenonT(40) DEF FilterInv

\* One call of classify keeps the invariant.
LEMMA FilterStep == FilterInv /\ [Filter!Classify]_Filter!vars => FilterInv'
<1> SUFFICES ASSUME FilterInv, [Filter!Classify]_Filter!vars PROVE FilterInv'
  BY SMTT(30)
<1>1. CASE UNCHANGED Filter!vars
  BY <1>1, Zenon DEF Filter!vars, FilterInv
<1>2. CASE Filter!Classify
  <2>1. PICK view \in [Links -> Filter!Sample], latency \in Latencies :
          Filter!ClassifyTick(Filter!Assess(view, latency))
    BY <1>2, SMTT(30) DEF Filter!Classify, Filter!Ticks
  <2> DEFINE t == Filter!Assess(view, latency)
  <2>2. CASE t.bypass
    BY <2>1, <2>2, BypassKeeps, SMTT(30) DEF Filter!ClassifyTick
  <2>3. CASE ~t.bypass
    <3>1. Filter!ClassifyAll(t)
      BY <2>1, <2>3, SMTT(30) DEF Filter!ClassifyTick
    <3>2. /\ DOMAIN t.seen \subseteq Links
          /\ \A l \in DOMAIN t.seen : t.seen[l].signal \in Filter!Delay \cup {"none"}
          /\ TierMeant(t.tier)
      BY <2>3, AssessMeans, Zenon
    <3> HIDE DEF t
    <3> QED
      BY <3>1, <3>2, ClassifyAllKeeps, Zenon
  <2> QED
    BY <2>2, <2>3, SMTT(30)
<1> QED
  BY <1>1, <1>2, SMTT(30)

\* What classify remembers of a link agrees at every tick with what happened to it: its
\* delay streak, its verdict, and the price of its failed re-tests.
THEOREM FilterInductive == Filter!Spec => []FilterInv
<1> QED
  BY FilterInit, FilterStep, PTL DEF Filter!Spec

\* "A live delay verdict cancels the window outright" (classify): for any links, rates and
\* round trips, a link is gated as late exactly when it has been late for
\* WEAK_SUSTAIN_TICKS ticks, re-test or not, and a budget derived from the links' own
\* round trips calls none of at most two seconds late.
THEOREM LateLinksGated == Filter!Spec => []LateIsGated
<1>1. FilterInv => LateIsGated
  BY DEF FilterInv, Rated, TierMeant, LateIsGated, Filter!LateIsGated
<1> QED
  BY <1>1, FilterInductive, PTL

\* "The wait before each re-test doubles while they keep failing" (classify): for any
\* ceiling, the multiplier is two to the number of failed re-tests, whatever delay
\* verdicts, cancelled windows and bypasses come in between.
THEOREM FailedRetestsPriced == Filter!Spec => []FailuresPriced
<1>1. FilterInv => FailuresPriced
  BY Zenon DEF FilterInv, Rated, Price, FailuresPriced, Filter!FailuresPriced
<1> QED
  BY <1>1, FilterInductive, PTL
=============================================================================
