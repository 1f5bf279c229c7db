-------------------------- MODULE LinkHealthProofs --------------------------
(***************************************************************************)
(* The congestion window stays in its range, the burst counter counts a    *)
(* run of NAKs, and early NAKs do not degrade a link, for every window,    *)
(* increment, wait and grace period, and for any number of NAKs and resets.*)
(***************************************************************************)
EXTENDS LinkHealth, TLAPS

\* Recent NAKs that are no burst yet are a single one: only then may the next one
\* start the count at two.
LoneNak == nakAge # Never /\ nakAge < BurstWindow /\ burst = 0 => run = 1

\* No pass of the scheduler marks a link in its grace period, which includes the time
\* before it was established.
GraceKeepsQuality == established < Grace => ~low

\* A loss verdict in force has been set since the last REG3.
VerdictRemembered == loss => wasLossy

IInv ==
  /\ TypeOK /\ BurstCountsRun /\ LoneNak
  /\ GraceProtects /\ GraceKeepsQuality /\ VerdictRemembered

-----------------------------------------------------------------------------
(* Operators *)

(* max and min of i32 pairs, as the code calls them.                       *)
LEMMA MaxOfTwo ==
  ASSUME NEW a \in Int, NEW b \in Int
  PROVE  Max({a, b}) = IF a >= b THEN a ELSE b
<1> DEFINE m == IF a >= b THEN a ELSE b
<1>1. m \in {a, b} /\ \A y \in {a, b} : m >= y OBVIOUS
<1>2. \A x \in {a, b} : (\A y \in {a, b} : x >= y) => x = m OBVIOUS
<1> QED BY <1>1, <1>2 DEF Max

LEMMA MinOfTwo ==
  ASSUME NEW a \in Int, NEW b \in Int
  PROVE  Min({a, b}) = IF a <= b THEN a ELSE b
<1> DEFINE m == IF a <= b THEN a ELSE b
<1>1. m \in {a, b} /\ \A y \in {a, b} : m <= y OBVIOUS
<1>2. \A x \in {a, b} : (\A y \in {a, b} : x <= y) => x = m OBVIOUS
<1> QED BY <1>1, <1>2 DEF Min

(* perform_window_recovery never shrinks the window.                       *)
LEMMA IncrementIsNat ==
  ASSUME TypeOK, NEW rising \in BOOLEAN
  PROVE  RecoveryIncrement(rising) \in Nat
<1> DEFINE bonus == IF fast THEN 2 ELSE 1
           base == IF SinceNak > AggressiveAfter THEN WIncr * 2 * bonus
                   ELSE IF SinceNak > ModerateAfter THEN WIncr * bonus
                   ELSE IF SinceNak > SlowAfter THEN (WIncr * bonus) \div 2
                   ELSE (WIncr * bonus) \div 4
<1>1. WIncr \in Nat BY WindowAssumption
<1>2. WIncr * bonus \in Nat /\ WIncr * 2 * bonus \in Nat BY <1>1
<1>3. base \in Nat BY <1>2
<1>4. base \div 2 \in Nat BY <1>3
<1> QED BY <1>3, <1>4 DEF RecoveryIncrement

(* A clamped step of the window stays in the range.                        *)
LEMMA GrowthInRange ==
  ASSUME NEW w \in WMin .. WMax, NEW d \in Nat
  PROVE  Min({w + d, WMax}) \in WMin .. WMax
BY MinOfTwo, WindowAssumption

LEMMA NakInRange ==
  ASSUME window \in WMin .. WMax
  PROVE  WindowAfterNak \in WMin .. WMax
BY MaxOfTwo, WindowAssumption DEF WindowAfterNak

LEMMA OlderAge ==
  ASSUME NEW a \in Ages
  PROVE  /\ Older(a) \in Ages /\ Older(a) >= a
         /\ Older(a) = Never <=> a = Never
         /\ a # Never => Older(a) \in 0 .. AgeCap
BY AgeAssumption DEF Older, Ages, Never

-----------------------------------------------------------------------------
LEMMA InitIInv == Init => IInv
<1> SUFFICES ASSUME Init PROVE IInv OBVIOUS
<1>1. TypeOK
  <2>1. window \in WMin .. WMax BY WindowAssumption DEF Init
  <2>2. nakAge \in Ages /\ established \in Ages BY DEF Init, Ages
  <2>3. incAge \in 0 .. AgeCap /\ phaseAge \in 0 .. AgeCap BY AgeAssumption DEF Init
  <2>4. naks \in 0 .. MaxNaks /\ resets \in 0 .. MaxResets BY ChoicesAssumption DEF Init
  <2> QED BY <2>1, <2>2, <2>3, <2>4, Zenon DEF Init, TypeOK, Phases
<1>2. BurstCountsRun /\ LoneNak BY DEF Init, BurstCountsRun, LoneNak
<1>3. GraceProtects /\ GraceKeepsQuality /\ VerdictRemembered
  BY DEF Init, GraceProtects, GraceKeepsQuality, VerdictRemembered
<1> QED BY <1>1, <1>2, <1>3 DEF IInv

(* handle_nak: a NAK within BurstWindow of the last one finds either the   *)
(* count of the run or, by LoneNak, a run of one.                          *)
LEMMA NakStep == IInv /\ Nak => IInv'
<1> SUFFICES ASSUME IInv, Nak PROVE IInv' OBVIOUS
<1> USE DEF IInv
<1>1. TypeOK'
  <2>1. window' \in WMin .. WMax BY NakInRange DEF Nak, TypeOK
  <2>2. nakAge' \in Ages BY AgeAssumption DEF Nak, Ages
  <2>3. burst' \in Nat /\ run' \in Nat /\ naks' \in 0 .. MaxNaks
    BY ChoicesAssumption DEF Nak, TypeOK, BurstAfterNak
  <2>4. fast' \in BOOLEAN BY DEF Nak
  <2> QED BY <2>1, <2>2, <2>3, <2>4 DEF Nak, TypeOK, life
<1>2. BurstCountsRun' /\ LoneNak'
  <2>1. burst \in Nat /\ run \in Nat BY DEF TypeOK
  <2>2. CASE nakAge # Never /\ nakAge < BurstWindow
    BY <2>1, <2>2 DEF Nak, BurstAfterNak, BurstCountsRun, LoneNak
  <2>3. CASE ~(nakAge # Never /\ nakAge < BurstWindow)
    BY <2>3 DEF Nak, BurstAfterNak, BurstCountsRun, LoneNak
  <2> QED BY <2>2, <2>3
<1>3. GraceProtects' /\ GraceKeepsQuality' /\ VerdictRemembered'
  BY DEF Nak, life, GraceProtects, GraceKeepsQuality, VerdictRemembered
<1> QED BY <1>1, <1>2, <1>3

(* ACKs grow the window alone.                                             *)
LEMMA AckStep == IInv /\ (AckSpecific \/ AckGlobal) => IInv'
<1> SUFFICES ASSUME IInv, AckSpecific \/ AckGlobal PROVE IInv' OBVIOUS
<1> USE DEF IInv
<1>1. window' \in WMin .. WMax
  <2>1. window \in WMin .. WMax /\ WIncr - 1 \in Nat /\ WIncr \in Nat
    BY WindowAssumption DEF TypeOK
  <2>2. Min({window + (WIncr - 1), WMax}) \in WMin .. WMax BY <2>1, GrowthInRange, Zenon
  <2>3. Min({window + 1, WMax}) \in WMin .. WMax BY <2>1, GrowthInRange
  <2>4. window + (WIncr - 1) = window + WIncr - 1 BY <2>1, WindowAssumption
  <2> QED BY <2>1, <2>2, <2>3, <2>4 DEF AckSpecific, AckGlobal
<1>2. /\ UNCHANGED <<connected, nakAge, incAge, burst, low, life, loss, mode, run, wasLossy>>
      /\ UNCHANGED <<naks, resets>> /\ fast' \in BOOLEAN
  BY Zenon DEF AckSpecific, AckGlobal, TypeOK
<1>3. TypeOK' BY <1>1, <1>2 DEF TypeOK, life
<1>4. BurstCountsRun' /\ LoneNak' BY <1>2 DEF BurstCountsRun, LoneNak
<1>5. GraceProtects' /\ GraceKeepsQuality' /\ VerdictRemembered'
  BY <1>2 DEF life, GraceProtects, GraceKeepsQuality, VerdictRemembered
<1> QED BY <1>3, <1>4, <1>5

(* Housekeeping: the recovery clears a burst only when its window is over, *)
(* and a link in its grace period is degraded only by a loss verdict.      *)
LEMMA HousekeepingStep == IInv /\ Housekeeping => IInv'
<1> SUFFICES ASSUME IInv, Housekeeping PROVE IInv' OBVIOUS
<1> USE DEF IInv
<1>1. PICK rising \in BOOLEAN :
        IF mode = "classic" THEN UNCHANGED cc ELSE PerformWindowRecovery(rising)
  BY DEF Housekeeping
<1>2. RecoveryIncrement(rising) \in Nat BY IncrementIsNat
<1> HIDE DEF RecoveryIncrement
<1>3. /\ window' \in WMin .. WMax /\ incAge' \in 0 .. AgeCap /\ fast' \in BOOLEAN
      /\ nakAge' = nakAge
      /\ burst' = burst \/ (burst' = 0 /\ SinceNak >= BurstWindow)
  <2>1. window \in WMin .. WMax /\ incAge \in 0 .. AgeCap /\ fast \in BOOLEAN BY DEF TypeOK
  <2>2. CASE UNCHANGED cc BY <2>1, <2>2 DEF cc
  <2>3. CASE ~UNCHANGED cc
    <3>1. PerformWindowRecovery(rising) /\ ~(~connected \/ window >= WMax)
      BY <1>1, <2>3 DEF PerformWindowRecovery
    <3>2. Min({window + RecoveryIncrement(rising), WMax}) \in WMin .. WMax
      BY <1>2, <2>1, GrowthInRange, SMTT(30)
    <3>3. 0 \in 0 .. AgeCap BY AgeAssumption
    <3>4. window' \in WMin .. WMax /\ incAge' \in 0 .. AgeCap /\ fast' \in BOOLEAN
      BY <2>1, <3>1, <3>2, <3>3, Zenon DEF PerformWindowRecovery
    <3>5. nakAge' = nakAge /\ (burst' = burst \/ (burst' = 0 /\ SinceNak >= BurstWindow))
      BY <3>1 DEF PerformWindowRecovery
    <3> QED BY <3>4, <3>5
  <2> QED BY <2>2, <2>3
<1>4. /\ UNCHANGED <<connected, low, probes, phaseAge, established, mode, run, naks, resets>>
      /\ loss' \in BOOLEAN /\ wasLossy' = (wasLossy \/ loss')
  BY ChoicesAssumption DEF Housekeeping
<1>5. /\ phase' \in Phases
      /\ phase' = "degraded" => phase = "degraded" \/ low \/ loss
  BY DEF Housekeeping, UpdatePhase, TypeOK, Phases
<1>6. TypeOK'
  <2>1. burst' \in Nat BY <1>3 DEF TypeOK
  <2>2. wasLossy' \in BOOLEAN BY <1>4
  <2> QED BY <1>3, <1>4, <1>5, <2>1, <2>2 DEF TypeOK
<1>7. BurstCountsRun' BY <1>3, <1>4 DEF BurstCountsRun
<1>8. LoneNak'
  <2>1. CASE burst' = burst BY <1>3, <1>4, <2>1 DEF LoneNak
  <2>2. CASE SinceNak >= BurstWindow
    BY <1>3, <2>2, AgeAssumption DEF LoneNak, SinceNak, TypeOK, Ages
  <2> QED BY <1>3, <2>1, <2>2
<1>9. GraceProtects' BY <1>4, <1>5, Zenon DEF GraceProtects, GraceKeepsQuality, VerdictRemembered
<1>10. GraceKeepsQuality' /\ VerdictRemembered'
  BY <1>4 DEF GraceKeepsQuality, VerdictRemembered
<1> QED BY <1>6, <1>7, <1>8, <1>9, <1>10

(* A pass of Enhanced selection ranks the link: in its grace period the    *)
(* multiplier is 980 at worst.                                             *)
LEMMA RankStep == IInv /\ Rank => IInv'
<1> SUFFICES ASSUME IInv, Rank PROVE IInv' OBVIOUS
<1> USE DEF IInv
<1>1. /\ UNCHANGED <<connected, cc, life, loss, mode, run, wasLossy, naks, resets>>
      /\ low' \in BOOLEAN
  BY DEF Rank
<1>2. established < Grace => ~low'
  <2> SUFFICES ASSUME established < Grace PROVE ~low' OBVIOUS
  <2>1. PICK bonus \in {1000, 1030} : low' = (QualityMultiplier(bonus) < 500) BY DEF Rank
  <2>2. QualityMultiplier(bonus) \in {1100, 980} BY DEF QualityMultiplier
  <2>3. ~(QualityMultiplier(bonus) < 500) BY <2>2
  <2> DEFINE q == QualityMultiplier(bonus) < 500
  <2>4. low' = q /\ q = FALSE BY <2>1, <2>3
  <2> HIDE DEF q
  <2> QED BY <2>4
<1>3. TypeOK' BY <1>1 DEF TypeOK, cc, life
<1>4. BurstCountsRun' /\ LoneNak' BY <1>1 DEF BurstCountsRun, LoneNak, cc
<1>5. GraceProtects' /\ GraceKeepsQuality' /\ VerdictRemembered'
  BY <1>1, <1>2 DEF life, GraceProtects, GraceKeepsQuality, VerdictRemembered
<1> QED BY <1>3, <1>4, <1>5

(* Keepalive echoes, registration, resets and the switch of modes.         *)
LEMMA LifecycleStep == IInv /\ (RecordRttProbe \/ Reg3 \/ Reset \/ SetMode) => IInv'
<1> SUFFICES ASSUME IInv, RecordRttProbe \/ Reg3 \/ Reset \/ SetMode PROVE IInv' OBVIOUS
<1> USE DEF IInv
<1>1. CASE RecordRttProbe
  <2>1. probes' \in Nat /\ phase' \in {"warming", "live"} BY <1>1 DEF RecordRttProbe, TypeOK
  <2>2. UNCHANGED <<connected, cc, low, phaseAge, established, loss, mode, run, wasLossy, naks, resets>>
    BY <1>1 DEF RecordRttProbe
  <2>3. TypeOK' BY <2>1, <2>2 DEF TypeOK, cc, Phases
  <2>4. BurstCountsRun' /\ LoneNak' BY <2>2 DEF BurstCountsRun, LoneNak, cc
  <2>5. GraceProtects' /\ GraceKeepsQuality' /\ VerdictRemembered'
    BY <2>1, <2>2, SMTT(30) DEF GraceProtects, GraceKeepsQuality, VerdictRemembered
  <2> QED BY <2>3, <2>4, <2>5
<1>2. CASE Reg3
  <2>1. established' \in Ages /\ 0 \in 0 .. AgeCap /\ AgeCap \in 0 .. AgeCap /\ nakAge' \in Ages
    BY <1>2, AgeAssumption, SMTT(30) DEF Reg3, ResetCongestion, TypeOK, Ages
  <2>2. TypeOK' BY <1>2, <2>1, Zenon DEF Reg3, ResetCongestion, TypeOK, Phases
  <2>3. BurstCountsRun' /\ LoneNak' BY <1>2 DEF Reg3, ResetCongestion, BurstCountsRun, LoneNak
  <2>4. GraceProtects' /\ GraceKeepsQuality' /\ VerdictRemembered'
    BY <1>2 DEF Reg3, GraceProtects, GraceKeepsQuality, VerdictRemembered
  <2> QED BY <2>2, <2>3, <2>4
<1>3. CASE Reset
  <2>1. /\ UNCHANGED <<low, probes, phaseAge, established, loss, mode, wasLossy, naks>>
        /\ connected' = FALSE /\ phase' = "registering"
    BY <1>3, SMTT(30) DEF Reset
  <2>2. window' \in WMin .. WMax /\ resets' \in 0 .. MaxResets
    BY <1>3, WindowAssumption, ChoicesAssumption, SMTT(30) DEF Reset, TypeOK
  <2>3. /\ nakAge' \in Ages /\ incAge' \in 0 .. AgeCap /\ fast' \in BOOLEAN
        /\ burst' \in Nat /\ run' \in Nat
    <3>1. CASE UNCHANGED <<nakAge, incAge, fast, burst, run>> BY <3>1 DEF TypeOK
    <3>2. CASE ResetCongestion
      <4>1. AgeCap \in 0 .. AgeCap BY AgeAssumption
      <4> QED BY <3>2, <4>1, Zenon DEF ResetCongestion, Ages
    <3> QED BY <1>3, <3>1, <3>2 DEF Reset
  <2>4. TypeOK' BY <2>1, <2>2, <2>3, Zenon DEF TypeOK, Phases
  <2>5. BurstCountsRun' /\ LoneNak' BY <1>3 DEF Reset, ResetCongestion, BurstCountsRun, LoneNak
  <2>6. GraceProtects' /\ GraceKeepsQuality' /\ VerdictRemembered'
    BY <2>1 DEF GraceProtects, GraceKeepsQuality, VerdictRemembered
  <2> QED BY <2>4, <2>5, <2>6
<1>4. CASE SetMode
  <2>1. /\ UNCHANGED <<connected, cc, low, life, loss, run, wasLossy, naks, resets>>
        /\ mode' \in Modes
    BY <1>4 DEF SetMode
  <2>2. TypeOK' BY <2>1 DEF TypeOK, cc, life
  <2>3. BurstCountsRun' /\ LoneNak' BY <2>1 DEF BurstCountsRun, LoneNak, cc
  <2>4. GraceProtects' /\ GraceKeepsQuality' /\ VerdictRemembered'
    BY <2>1 DEF life, GraceProtects, GraceKeepsQuality, VerdictRemembered
  <2> QED BY <2>2, <2>3, <2>4
<1> QED BY <1>1, <1>2, <1>3, <1>4

(* Time only ages: what is recent after a tick was recent before it.       *)
LEMMA TickStep == IInv /\ Tick => IInv'
<1> SUFFICES ASSUME IInv, Tick PROVE IInv' OBVIOUS
<1> USE DEF IInv
<1>1. UNCHANGED <<connected, window, fast, burst, low, phase, probes, loss, mode, run, wasLossy, naks, resets>>
  BY SMTT(30) DEF Tick
<1>2. nakAge \in Ages /\ established \in Ages /\ incAge \in Ages /\ phaseAge \in Ages
      /\ incAge # Never /\ phaseAge # Never
  BY AgeAssumption, SMTT(30) DEF TypeOK, Ages, Never
<1>3. /\ nakAge' \in Ages /\ nakAge' >= nakAge /\ (nakAge' = Never <=> nakAge = Never)
      /\ established' \in Ages /\ established' >= established
      /\ incAge' \in 0 .. AgeCap /\ Older(phaseAge) \in 0 .. AgeCap
  BY <1>2, OlderAge, SMTT(30) DEF Tick
<1>4. phaseAge' \in 0 .. AgeCap BY <1>3, SMTT(30) DEF Tick, TypeOK
<1>5. TypeOK' BY <1>1, <1>3, <1>4 DEF TypeOK
<1>6. BurstCountsRun' BY <1>1 DEF BurstCountsRun
<1>7. /\ nakAge \in Int /\ nakAge' \in Int /\ established \in Int /\ established' \in Int
      /\ BurstWindow \in Int /\ Grace \in Int
  BY <1>2, <1>3, AgeAssumption DEF Ages, Never
<1>8. (nakAge' < BurstWindow => nakAge < BurstWindow) /\ (established' < Grace => established < Grace)
  BY <1>3, <1>7, SMTT(30)
<1>9. LoneNak' BY <1>1, <1>3, <1>8 DEF LoneNak
<1>10. GraceProtects' /\ GraceKeepsQuality' /\ VerdictRemembered'
  BY <1>1, <1>8 DEF GraceProtects, GraceKeepsQuality, VerdictRemembered
<1> QED BY <1>5, <1>6, <1>9, <1>10

LEMMA StepIInv == IInv /\ [Next]_vars => IInv'
<1> SUFFICES ASSUME IInv, [Next]_vars PROVE IInv' BY SMTT(30)
<1>1. CASE UNCHANGED vars
  BY <1>1 DEF vars, cc, life, IInv, TypeOK, BurstCountsRun, LoneNak, GraceProtects,
              GraceKeepsQuality, VerdictRemembered
<1> QED
  BY <1>1, NakStep, AckStep, HousekeepingStep, RankStep, LifecycleStep, TickStep DEF Next

LEMMA Inductive == Spec => []IInv
BY InitIInv, StepIInv, PTL DEF Spec

-----------------------------------------------------------------------------
(* The window stays between its floor and its ceiling in whatever order    *)
(* handle_nak, the two ACK rules, perform_window_recovery and resets run.  *)
THEOREM WindowInRange == Spec => []TypeOK
<1>1. IInv => TypeOK BY DEF IInv
<1> QED BY <1>1, Inductive, PTL

(* nak_burst_count charges a link only for NAKs that followed one another  *)
(* within NAK_BURST_WINDOW_MS, across recoveries and re-registrations.     *)
THEOREM BurstsAreRuns == Spec => []BurstCountsRun
<1>1. IInv => BurstCountsRun BY DEF IInv
<1> QED BY <1>1, Inductive, PTL

(* In its grace period a link is degraded only under a loss verdict,       *)
(* however many NAKs calculate_quality_multiplier and update_phase see.    *)
THEOREM EarlyNaksDoNotDegrade == Spec => []GraceProtects
<1>1. IInv => GraceProtects BY DEF IInv
<1> QED BY <1>1, Inductive, PTL
=============================================================================
