-------------------------- MODULE StallGateProofs --------------------------
(***************************************************************************)
(* The stalled-link guard, for any uplinks and any windows, dwell and      *)
(* backoff.  A stall latch releases only after a run of delivery proof as  *)
(* long as the dwell that the failed rejoins before it have priced, and    *)
(* the silence pull is given up only to a link that has spoken, whatever   *)
(* happens between two passes, as long as the stream flows; and the gate   *)
(* never takes the last usable link.                                       *)
(***************************************************************************)
EXTENDS StallGate, TLAPS

(* What the assumptions say of the constants one by one.                   *)
LEMMA Settings ==
  /\ Rtts \subseteq Nat
  /\ StaleFloor \in Nat /\ StaleFloor > 0 /\ StaleCeiling \in Nat /\ StaleCeiling > 0
  /\ ProofFloor \in Nat /\ ProofFloor > 0 /\ DwellMult \in Nat /\ DwellMult > 0
  /\ ProbationMult \in Nat /\ ProbationMult > 0 /\ BackoffMax \in Nat /\ BackoffMax > 0
  /\ SilenceFloor \in Nat /\ SilenceFloor > 0 /\ ConnTimeout \in Nat /\ IdleTime \in Nat
  /\ IdleTime > 0 /\ AgeCap \in Nat /\ AgeCap > 0
  /\ StaleRttMult \in Nat /\ SilenceRttMult \in Nat /\ Budget \in Nat /\ MaxFaults \in Nat
  /\ GuardSettings \subseteq BOOLEAN
<1>1. \A n \in {StaleFloor, StaleCeiling, ProofFloor, DwellMult, ProbationMult, BackoffMax,
                SilenceFloor, ConnTimeout, IdleTime, AgeCap} : n \in Nat \ {0}
  BY SettingsAssumption
<1>2. \A n \in {StaleRttMult, SilenceRttMult, Budget, MaxFaults} : n \in Nat
  BY SettingsAssumption
<1>3. \A n \in Nat \ {0} : n > 0 OBVIOUS
<1>4. Rtts \subseteq Nat /\ GuardSettings \subseteq BOOLEAN BY SettingsAssumption
<1> QED BY <1>1, <1>2, <1>3, <1>4


-----------------------------------------------------------------------------
(* One link *)

(* The windows are positive numbers.                                       *)
LEMMA Windows ==
  ASSUME NEW c \in LinkState
  PROVE  /\ EffectiveStale(c) \in Nat /\ EffectiveStale(c) > 0
         /\ ProofWindow(c) \in Nat /\ ProofWindow(c) > 0
         /\ SilenceWindow(c) \in Nat /\ SilenceWindow(c) > 0
<1>1. c.rtt \in Rtts \cup {NoRtt} BY DEF LinkState
<1>2. CASE c.rtt = NoRtt
  BY <1>2, Settings DEF EffectiveStale, ProofWindow, SilenceWindow, Least, Most
<1>3. CASE c.rtt # NoRtt
  <2>1. c.rtt \in Nat BY <1>1, <1>3, Settings, Zenon
  <2>2. c.rtt * StaleRttMult \in Nat /\ c.rtt * SilenceRttMult \in Nat BY <2>1, Settings
  <2> QED BY <1>3, <2>2, Settings DEF EffectiveStale, ProofWindow, SilenceWindow, Least, Most
<1> QED BY <1>2, <1>3

(* They depend on the round trip alone.                                    *)
LEMMA SameWindows ==
  ASSUME NEW c, NEW d, c.rtt = d.rtt
  PROVE  /\ EffectiveStale(c) = EffectiveStale(d) /\ ProofWindow(c) = ProofWindow(d)
         /\ SilenceWindow(c) = SilenceWindow(d)
BY DEF EffectiveStale, ProofWindow, SilenceWindow

(* The silence pull of a pass.                                             *)
LEMMA PullIs ==
  ASSUME NEW c \in LinkState
  PROVE  LET d == UpdateSilencePull(c) IN
         /\ d \in LinkState
         /\ d.up = c.up /\ d.loaded = c.loaded /\ d.rtt = c.rtt /\ d.proof = c.proof
         /\ d.heard = c.heard /\ d.latched = c.latched /\ d.run = c.run
         /\ d.released = c.released /\ d.backoff = c.backoff
         /\ d.pulled <=> IsBrieflySilent(c) \/ (c.pulled /\ ~Spoke(c) /\ c.up)
<1>1. (IsBrieflySilent(c) \/ (c.pulled /\ ~Spoke(c) /\ c.up)) \in BOOLEAN
  BY DEF IsBrieflySilent, Spoke, LinkState
<1> QED BY <1>1, ZenonT(40) DEF UpdateSilencePull, LinkState

\* The multiplier that the failed rejoins in a row have earned.
Price(fails) == Least(2 ^ fails, BackoffMax)

(* One more failure doubles the price up to its ceiling.                   *)
LEMMA PriceDoubles ==
  ASSUME NEW k \in 0 .. BackoffMax
  PROVE  /\ Price(k) \in 1 .. BackoffMax /\ Price(0) = 1
         /\ Price(Least(k + 1, BackoffMax)) = Least(Most(2 * Price(k), 2), BackoffMax)
<1>1. /\ 2 ^ k \in Nat /\ 2 ^ k > k /\ 2 ^ (k + 1) = 2 * 2 ^ k
  BY PowersAssumption
<1>2. BackoffMax \in 0 .. BackoffMax /\ BackoffMax \in Nat /\ BackoffMax > 0 BY Settings
<1>3. 2 ^ BackoffMax \in Nat /\ 2 ^ BackoffMax > BackoffMax BY <1>2, PowersAssumption
<1>4. 2 ^ 0 = 1 OBVIOUS
<1>5. CASE k + 1 <= BackoffMax BY <1>1, <1>2, <1>4, <1>5 DEF Price, Least, Most
<1>6. CASE k = BackoffMax BY <1>1, <1>2, <1>3, <1>4, <1>6 DEF Price, Least, Most
<1> QED BY <1>2, <1>5, <1>6

\* What every step keeps of a link c and its history g; p: a pass has run since
\* the last unit of time.  A run of proof is within what the history has seen, and
\* from a pass on its proof is inside the window; the backoff is the price of the
\* failures; a link that is mute has not spoken.
Kept(c, g, p) ==
  /\ c.run # Never => c.latched /\ c.run <= g.fresh
  /\ p /\ c.run # Never => c.proof # Never /\ c.proof < ProofWindow(c)
  /\ c.latched \/ c.released # Never => c.backoff = Price(g.fails)
  /\ g.mute => c.up /\ c.pulled /\ ~Spoke(c)

(* The five things a pass can do to the latch.                             *)
LEMMA LatchIs ==
  ASSUME NEW c \in LinkState
  PROVE  LET e == UpdateStallLatch(c) IN
         /\ e \in LinkState
         /\ e.up = c.up /\ e.rtt = c.rtt /\ e.proof = c.proof /\ e.heard = c.heard
         /\ e.pulled = c.pulled
         /\ \/ /\ e.latched /\ e.run = Never /\ e.released = c.released
               /\ e.backoff = IF c.latched THEN c.backoff ELSE RejoinBackoffNext(c)
            \/ ~c.latched /\ e = c
            \/ /\ c.latched /\ e.latched /\ e.run = Never
               /\ e.released = c.released /\ e.backoff = c.backoff
            \/ /\ c.latched /\ DwellServed(c) /\ ~e.latched /\ e.run = Never
               /\ e.released = 0 /\ e.backoff = c.backoff
            \/ /\ c.latched /\ ProofFresh(c) /\ e.latched /\ e.run = Most(c.run, 0)
               /\ e.released = c.released /\ e.backoff = c.backoff
<1> DEFINE e == UpdateStallLatch(c)
<1>1. /\ c.backoff \in 0 .. BackoffMax /\ c.run \in Ages /\ c.released \in Ages
      /\ c.latched \in BOOLEAN
  BY DEF LinkState
<1>2. Never \in Ages /\ 0 \in Ages /\ Most(c.run, 0) \in Ages
  BY <1>1, Settings DEF Ages, Never, Most
<1>3. RejoinBackoffNext(c) \in 0 .. BackoffMax
  BY <1>1, Settings DEF RejoinBackoffNext, Least, Most
<1>4. CASE Engages(c)
  <2> DEFINE b == IF c.latched THEN c.backoff ELSE RejoinBackoffNext(c)
  <2>1. b \in 0 .. BackoffMax BY <1>1, <1>3
  <2>2. e = [c EXCEPT !.latched = TRUE, !.run = Never, !.backoff = b]
    BY <1>4 DEF UpdateStallLatch, Engage
  <2> HIDE DEF b, e
  <2>3. /\ e \in LinkState /\ e.up = c.up /\ e.rtt = c.rtt /\ e.proof = c.proof
        /\ e.heard = c.heard /\ e.pulled = c.pulled /\ e.latched /\ e.run = Never
        /\ e.released = c.released /\ e.backoff = b
    BY <1>2, <2>1, <2>2, Zenon DEF LinkState
  <2> QED BY <2>3 DEF b, e
<1>5. CASE ~Engages(c) /\ ~c.latched BY <1>5 DEF UpdateStallLatch
<1>6. CASE ~Engages(c) /\ c.latched /\ ~ProofFresh(c)
  <2>1. e = [c EXCEPT !.run = Never] BY <1>6 DEF UpdateStallLatch
  <2> QED BY <1>2, <1>6, <2>1 DEF LinkState
<1>7. CASE ~Engages(c) /\ c.latched /\ ProofFresh(c) /\ DwellServed(c)
  <2>1. e = [c EXCEPT !.latched = FALSE, !.run = Never, !.released = 0]
    BY <1>7 DEF UpdateStallLatch, Release
  <2> HIDE DEF e
  <2>2. /\ e \in LinkState /\ e.up = c.up /\ e.rtt = c.rtt /\ e.proof = c.proof
        /\ e.heard = c.heard /\ e.pulled = c.pulled /\ ~e.latched /\ e.run = Never
        /\ e.released = 0 /\ e.backoff = c.backoff
    BY <1>2, <2>1, Zenon DEF LinkState
  <2> QED BY <1>7, <2>2 DEF e
<1>8. CASE ~Engages(c) /\ c.latched /\ ProofFresh(c) /\ ~DwellServed(c)
  <2>1. e = [c EXCEPT !.run = Most(@, 0)] BY <1>8 DEF UpdateStallLatch
  <2> HIDE DEF e
  <2>2. /\ e \in LinkState /\ e.up = c.up /\ e.rtt = c.rtt /\ e.proof = c.proof
        /\ e.heard = c.heard /\ e.pulled = c.pulled /\ e.latched /\ e.run = Most(c.run, 0)
        /\ e.released = c.released /\ e.backoff = c.backoff
    BY <1>2, <1>8, <2>1 DEF LinkState
  <2> QED BY <1>8, <2>2 DEF e
<1> QED BY <1>4, <1>5, <1>6, <1>7, <1>8

\* What a pass under the guard leaves of a link.
Barred(c, gate) == [Judged(c) EXCEPT !.gated = gate]

\* What a pass that makes d of it, c, owes to a link.
EarnedBy(c, g, d) ==
  /\ c.latched /\ ~d.latched => g.fresh >= DwellMult * EffectiveStale(c) * Price(g.fails)
  /\ c.up /\ g.mute => d.pulled

(* A pass keeps the invariant of a link, and what it gives up was earned.  *)
LEMMA PassKeeps ==
  ASSUME NEW c \in LinkState, NEW g \in GhostState, NEW p, Steady => Kept(c, g, p),
         NEW gate \in BOOLEAN, NEW d, d = Barred(c, gate)
  PROVE  /\ d \in LinkState /\ Witnessed(g, c, d) \in GhostState
         /\ d.up = c.up /\ d.heard = c.heard
         /\ Steady => Kept(d, Witnessed(g, c, d), TRUE) /\ EarnedBy(c, g, d)
<1> DEFINE b == UpdateSilencePull(c)
           e == UpdateStallLatch(b)
           h == Witnessed(g, c, d)
<1>1. /\ b \in LinkState
      /\ b.up = c.up /\ b.rtt = c.rtt /\ b.proof = c.proof /\ b.heard = c.heard
      /\ b.latched = c.latched /\ b.run = c.run /\ b.released = c.released
      /\ b.backoff = c.backoff
      /\ b.pulled <=> IsBrieflySilent(c) \/ (c.pulled /\ ~Spoke(c) /\ c.up)
  BY PullIs
<1>2. /\ EffectiveStale(b) = EffectiveStale(c) /\ ProofWindow(b) = ProofWindow(c)
      /\ SilenceWindow(b) = SilenceWindow(c)
  BY <1>1, SameWindows, SMTT(30)
<1>3. /\ e \in LinkState
      /\ e.up = b.up /\ e.rtt = b.rtt /\ e.proof = b.proof /\ e.heard = b.heard
      /\ e.pulled = b.pulled
      /\ \/ /\ e.latched /\ e.run = Never /\ e.released = b.released
            /\ e.backoff = IF b.latched THEN b.backoff ELSE RejoinBackoffNext(b)
         \/ ~b.latched /\ e = b
         \/ /\ b.latched /\ e.latched /\ e.run = Never
            /\ e.released = b.released /\ e.backoff = b.backoff
         \/ /\ b.latched /\ DwellServed(b) /\ ~e.latched /\ e.run = Never
            /\ e.released = 0 /\ e.backoff = b.backoff
         \/ /\ b.latched /\ ProofFresh(b) /\ e.latched /\ e.run = Most(b.run, 0)
            /\ e.released = b.released /\ e.backoff = b.backoff
  <2> HIDE DEF b
  <2> QED BY <1>1, LatchIs
<1>4. d = [e EXCEPT !.gated = gate] BY DEF Barred, Judged
<1> HIDE DEF b, e
<1>5. /\ d \in LinkState /\ d.up = e.up /\ d.rtt = e.rtt /\ d.proof = e.proof
      /\ d.heard = e.heard /\ d.pulled = e.pulled /\ d.latched = e.latched /\ d.run = e.run
      /\ d.released = e.released /\ d.backoff = e.backoff
  BY <1>3, <1>4 DEF LinkState
<1>6. /\ EffectiveStale(d) = EffectiveStale(c) /\ ProofWindow(d) = ProofWindow(c)
      /\ SilenceWindow(d) = SilenceWindow(c)
  <2>1. d.rtt = c.rtt BY <1>1, <1>3, <1>5
  <2> QED BY <2>1, SameWindows, Zenon
<1>7. /\ c.run \in Never .. AgeCap /\ c.released \in Never .. AgeCap
      /\ c.backoff \in 0 .. BackoffMax /\ c.latched \in BOOLEAN /\ c.up \in BOOLEAN
      /\ c.pulled \in BOOLEAN /\ c.heard \in Never .. AgeCap /\ c.proof \in Never .. AgeCap
      /\ g.fresh \in 0 .. AgeCap /\ g.fails \in 0 .. BackoffMax /\ g.mute \in BOOLEAN
      /\ AgeCap \in Nat /\ BackoffMax \in Nat /\ BackoffMax > 0
  BY Settings DEF LinkState, GhostState, Ages
<1>8. /\ EffectiveStale(c) \in Nat /\ EffectiveStale(c) > 0 /\ ProofWindow(c) \in Nat
      /\ SilenceWindow(c) \in Nat
  BY Windows
<1>9. /\ h \in GhostState /\ h.fresh = g.fresh
      /\ h.mute <=> d.pulled /\ (g.mute \/ ~c.pulled)
      /\ h.fails = IF ~d.latched \/ c.latched THEN g.fails
                   ELSE IF c.released # Never /\ c.released < EffectiveStale(c) * ProbationMult
                        THEN Least(g.fails + 1, BackoffMax) ELSE 0
  <2> DEFINE n == IF ~d.latched \/ c.latched THEN g.fails
                  ELSE IF c.released # Never /\ c.released < EffectiveStale(c) * ProbationMult
                       THEN Least(g.fails + 1, BackoffMax) ELSE 0
             m == d.pulled /\ (g.mute \/ ~c.pulled)
  <2>1. n \in 0 .. BackoffMax BY <1>7 DEF Least
  <2>2. m \in BOOLEAN OBVIOUS
  <2>3. h = [g EXCEPT !.fails = n, !.mute = m] BY DEF Witnessed
  <2> HIDE DEF n, m, h
  <2>4. h \in GhostState /\ h.fresh = g.fresh /\ h.mute = m /\ h.fails = n
    BY <2>1, <2>2, <2>3, Zenon DEF GhostState
  <2> QED BY <2>4, Zenon DEF n, m
<1> SUFFICES ASSUME Steady PROVE Kept(d, h, TRUE) /\ EarnedBy(c, g, d)
  BY <1>1, <1>3, <1>5, <1>9, Zenon
<1> HIDE DEF h
<1>10. h.mute => d.up /\ d.pulled /\ ~Spoke(d)
  BY <1>1, <1>3, <1>5, <1>6, <1>7, <1>8, <1>9 DEF Kept, Spoke, IsBrieflySilent
<1>11. c.up /\ g.mute => d.pulled BY <1>1, <1>3, <1>5 DEF Kept
<1>12. /\ d.run # Never => d.latched /\ d.run <= h.fresh
       /\ d.run # Never => d.proof # Never /\ d.proof < ProofWindow(d)
  BY <1>1, <1>2, <1>3, <1>5, <1>6, <1>7, <1>9 DEF Kept, ProofFresh, Most, Never
<1>13. d.latched \/ d.released # Never => d.backoff = Price(h.fails)
  <2>1. CASE c.latched
    BY <1>1, <1>3, <1>5, <1>9, <2>1 DEF Kept
  <2>2. CASE ~c.latched /\ ~d.latched BY <1>1, <1>3, <1>5, <1>9, <2>2 DEF Kept
  <2>3. CASE ~c.latched /\ d.latched
    <3>1. d.backoff = RejoinBackoffNext(b) BY <1>1, <1>3, <1>5, <2>3, Zenon
    <3>2. CASE c.released # Never /\ c.released < EffectiveStale(c) * ProbationMult
      <4>1. c.backoff = Price(g.fails) BY <3>2 DEF Kept
      <4>2. h.fails = Least(g.fails + 1, BackoffMax) BY <1>9, <2>3, <3>2
      <4>3. d.backoff = Least(Most(2 * c.backoff, 2), BackoffMax)
        BY <1>1, <1>2, <1>7, <1>8, <3>1, <3>2, Settings DEF RejoinBackoffNext
      <4> QED BY <1>7, <4>1, <4>2, <4>3, PriceDoubles
    <3>3. CASE ~(c.released # Never /\ c.released < EffectiveStale(c) * ProbationMult)
      <4>1. h.fails = 0 BY <1>9, <2>3, <3>3
      <4>2. EffectiveStale(c) * ProbationMult \in Nat BY <1>8, Settings
      <4>3. d.backoff = 1
        BY <1>1, <1>2, <1>7, <3>1, <3>3, <4>2 DEF RejoinBackoffNext, Never
      <4> QED BY <1>7, <4>1, <4>3, PriceDoubles
    <3> QED BY <3>2, <3>3
  <2> QED BY <1>7, <2>1, <2>2, <2>3
<1>14. c.latched /\ ~d.latched => g.fresh >= DwellMult * EffectiveStale(c) * Price(g.fails)
  <2> SUFFICES ASSUME c.latched, ~d.latched
               PROVE  g.fresh >= DwellMult * EffectiveStale(c) * Price(g.fails)
    BY SMTT(30)
  <2>1. DwellServed(b) BY <1>1, <1>3, <1>5
  <2>2. c.backoff = Price(g.fails) /\ Price(g.fails) \in 1 .. BackoffMax
    BY <1>7, PriceDoubles DEF Kept
  <2>3. Most(c.backoff, 1) = Price(g.fails) BY <2>2, <1>7 DEF Most
  <2>4. (IF c.run = Never THEN 0 ELSE c.run) >= EffectiveStale(c) * DwellMult * Price(g.fails)
    BY <1>1, <1>2, <2>1, <2>3 DEF DwellServed, Dwell
  <2>5. EffectiveStale(c) * DwellMult * Price(g.fails) > 0
    <3>1. EffectiveStale(c) * DwellMult \in Nat /\ EffectiveStale(c) * DwellMult > 0
      BY <1>8, Settings, SMTT(30)
    <3> QED BY <1>7, <2>2, <3>1
  <2>6. EffectiveStale(c) * DwellMult * Price(g.fails)
          = DwellMult * EffectiveStale(c) * Price(g.fails)
    BY <1>7, <1>8, <2>2, Settings, SMTT(30)
  <2>7. c.run # Never BY <2>4, <2>5, Settings, <1>8, <2>2, <1>7
  <2>8. c.run <= g.fresh BY <2>7 DEF Kept
  <2> QED BY <1>7, <1>8, <2>2, <2>4, <2>6, <2>7, <2>8, Settings
<1> QED BY <1>10, <1>11, <1>12, <1>13, <1>14 DEF Kept, EarnedBy

\* The history of a link whose latch is cleared.
Forgotten(g) == [g EXCEPT !.fails = 0, !.mute = FALSE]

(* Without the guard a pass clears the latch.                              *)
LEMMA ClearKeeps ==
  ASSUME NEW c \in LinkState, NEW g \in GhostState, NEW d, d = ClearStallLatch(c),
         NEW h, h = Forgotten(g)
  PROVE  /\ d \in LinkState /\ h \in GhostState /\ Kept(d, h, TRUE)
         /\ d.gated = FALSE /\ d.up = c.up /\ d.heard = c.heard
<1>1. Never \in Ages /\ 0 \in 0 .. BackoffMax BY Settings DEF Ages, Never
<1>2. d \in LinkState BY <1>1, Zenon DEF ClearStallLatch, LinkState
<1>3. /\ d.latched = FALSE /\ d.run = Never /\ d.released = Never /\ d.gated = FALSE
      /\ d.up = c.up /\ d.heard = c.heard
  BY DEF ClearStallLatch, LinkState
<1>4. h \in GhostState /\ h.mute = FALSE BY <1>1, Zenon DEF Forgotten, GhostState
<1>5. Kept(d, h, TRUE) BY <1>3, <1>4 DEF Kept
<1> QED BY <1>2, <1>3, <1>4, <1>5, Zenon

(* A unit of time.                                                         *)
LEMMA AgeKeeps ==
  ASSUME NEW l \in Links, NEW c \in LinkState, c = link[l],
         NEW g \in GhostState, Steady => Kept(c, g, TRUE), NEW d, d = Aged(l), NEW h,
         h = [g EXCEPT !.fresh = IF Lapsed(c) \/ Lapsed(d) THEN 0 ELSE Least(@ + 1, AgeCap),
                       !.mute = @ /\ ~Answered(l)]
  PROVE  d \in LinkState /\ h \in GhostState /\ (Steady => Kept(d, h, FALSE))
<1> DEFINE fr == IF Lapsed(c) \/ Lapsed(d) THEN 0 ELSE Least(g.fresh + 1, AgeCap)
           mu == g.mute /\ ~Answered(l)
           proof == IF Answered(l) THEN 0 ELSE Older(c.proof)
           heard == IF Answered(l) THEN 0 ELSE Older(c.heard)
           ping == IF PingDue(c) \/ ~c.up THEN 0 ELSE c.ping + 1
<1>1. \A a \in Ages : Older(a) \in Ages BY Settings DEF Ages, Older, Least, Never
<1>2. /\ c.proof \in Ages /\ c.heard \in Ages /\ c.run \in Ages /\ c.released \in Ages
      /\ c.ping \in 0 .. IdleTime /\ 0 \in Ages /\ c.up \in BOOLEAN
      /\ g.fresh \in 0 .. AgeCap /\ g.mute \in BOOLEAN
  BY Settings DEF LinkState, GhostState, Ages, Never
<1>3. ping \in 0 .. IdleTime BY <1>2, Settings DEF PingDue
<1>4. proof \in Ages /\ heard \in Ages /\ Older(c.run) \in Ages /\ Older(c.released) \in Ages
  BY <1>1, <1>2
<1>5. d = [c EXCEPT !.proof = proof, !.heard = heard, !.ping = ping,
                    !.run = Older(c.run), !.released = Older(c.released)]
  BY DEF Aged
<1>6. fr \in 0 .. AgeCap /\ mu \in BOOLEAN BY <1>2, Settings DEF Least
<1> HIDE DEF fr, mu, proof, heard, ping
<1>7. /\ d \in LinkState /\ d.proof = proof /\ d.heard = heard /\ d.run = Older(c.run)
      /\ d.released = Older(c.released) /\ d.rtt = c.rtt /\ d.up = c.up
      /\ d.latched = c.latched /\ d.backoff = c.backoff /\ d.pulled = c.pulled
  BY <1>3, <1>4, <1>5, ZenonT(40) DEF LinkState
<1>8. h \in GhostState /\ h.fresh = fr /\ h.mute = mu /\ h.fails = g.fails
  <2>1. h = [g EXCEPT !.fresh = fr, !.mute = mu] BY DEF fr, mu
  <2> QED BY <1>6, <2>1, Zenon DEF GhostState
<1> SUFFICES ASSUME Steady PROVE Kept(d, h, FALSE) BY <1>7, <1>8, Zenon
<1>9. /\ ProofWindow(d) = ProofWindow(c) /\ SilenceWindow(d) = SilenceWindow(c)
      /\ ProofWindow(c) \in Nat /\ ProofWindow(c) > 0 /\ SilenceWindow(c) \in Nat
  BY <1>7, SameWindows, Windows
<1>10. Kept(c, g, TRUE) BY Zenon
<1>11. d.run # Never => d.latched /\ d.run <= h.fresh
  <2> SUFFICES ASSUME d.run # Never PROVE d.latched /\ d.run <= h.fresh OBVIOUS
  <2>1. c.run # Never BY <1>7 DEF Older
  <2>2. c.latched /\ c.run <= g.fresh /\ c.proof # Never /\ c.proof < ProofWindow(c)
    BY <1>10, <2>1 DEF Kept
  <2>3. ~Lapsed(c) BY <1>2, <1>9, <2>2, SMTT(30) DEF Lapsed, Ages, Never
  <2>4. d.proof # Never /\ d.proof <= ProofWindow(d)
    BY <1>2, <1>7, <1>9, <2>2, Settings DEF proof, Older, Least, Ages, Never
  <2>5. ~Lapsed(d) BY <1>4, <1>7, <1>9, <2>4 DEF Lapsed, Ages, Never
  <2>6. fr = Least(g.fresh + 1, AgeCap) BY <2>3, <2>5 DEF fr
  <2> QED BY <1>2, <1>7, <1>8, <2>1, <2>2, <2>6, Settings DEF Older, Least, Ages, Never
<1>12. d.latched \/ d.released # Never => d.backoff = Price(h.fails)
  BY <1>7, <1>8, <1>10 DEF Kept, Older
<1>13. h.mute => d.up /\ d.pulled /\ ~Spoke(d)
  <2> SUFFICES ASSUME h.mute PROVE d.up /\ d.pulled /\ ~Spoke(d) OBVIOUS
  <2>1. g.mute /\ ~Answered(l) BY <1>8, Zenon DEF mu
  <2>2. c.up /\ c.pulled /\ ~Spoke(c) BY <1>10, <2>1 DEF Kept
  <2>3. d.heard = Older(c.heard) BY <1>7, <2>1 DEF heard
  <2>4. ~Spoke(d)
    BY <1>2, <1>9, <2>2, <2>3, Settings DEF Spoke, Older, Least, Ages, Never
  <2> QED BY <1>7, <2>2, <2>4
<1> QED BY <1>11, <1>12, <1>13 DEF Kept

(* A link that is new, or that has lost all but its round trip.            *)
LEMMA NewKeeps ==
  ASSUME NEW r \in Rtts \cup {NoRtt}, NEW p
  PROVE  /\ [NewLink EXCEPT !.rtt = r] \in LinkState /\ NewLink \in LinkState
         /\ NewGhost \in GhostState
         /\ Kept([NewLink EXCEPT !.rtt = r], NewGhost, p) /\ Kept(NewLink, NewGhost, p)
<1> DEFINE d == [NewLink EXCEPT !.rtt = r]
<1>1. Never \in Ages BY Settings DEF Ages, Never
<1>2. NewLink \in LinkState BY <1>1, Settings DEF NewLink, LinkState
<1>3. /\ ~NewLink.latched /\ NewLink.run = Never /\ NewLink.released = Never
      /\ ~d.latched /\ d.run = Never /\ d.released = Never
  BY DEF NewLink
<1>4. d \in LinkState BY <1>2 DEF LinkState
<1>5. NewGhost \in GhostState /\ ~NewGhost.mute BY Settings DEF NewGhost, GhostState
<1>6. Kept(d, NewGhost, p) /\ Kept(NewLink, NewGhost, p) BY <1>3, <1>5 DEF Kept
<1> QED BY <1>2, <1>4, <1>5, <1>6

(* A measured round trip.                                                  *)
LEMMA SampleKeeps ==
  ASSUME NEW c \in LinkState, NEW g \in GhostState, NEW p, Steady => Kept(c, g, p), NEW r \in Rtts
  PROVE  LET d == [c EXCEPT !.rtt = r, !.proof = 0, !.heard = 0]
             h == [g EXCEPT !.mute = FALSE]
         IN  d \in LinkState /\ h \in GhostState /\ (Steady => Kept(d, h, p))
<1> DEFINE d == [c EXCEPT !.rtt = r, !.proof = 0, !.heard = 0]
           h == [g EXCEPT !.mute = FALSE]
<1>1. 0 \in Ages BY Settings DEF Ages, Never
<1>2. /\ d \in LinkState /\ d.proof = 0 /\ d.run = c.run /\ d.latched = c.latched
      /\ d.released = c.released /\ d.backoff = c.backoff
  BY <1>1, Zenon DEF LinkState
<1>3. h \in GhostState /\ ~h.mute /\ h.fresh = g.fresh /\ h.fails = g.fails BY Zenon DEF GhostState
<1> HIDE DEF d, h
<1>4. 0 < ProofWindow(d) BY <1>2, Windows
<1>5. Steady => Kept(d, h, p) BY <1>2, <1>3, <1>4 DEF Kept, Never
<1> QED BY <1>2, <1>3, <1>5 DEF d, h

(* The backlog, and the registration of a link that is down.               *)
LEMMA BacklogKeeps ==
  ASSUME NEW c \in LinkState, NEW g \in GhostState, NEW p, Steady => Kept(c, g, p), NEW b \in BOOLEAN
  PROVE  LET d == [c EXCEPT !.loaded = b] IN d \in LinkState /\ (Steady => Kept(d, g, p))
<1> DEFINE d == [c EXCEPT !.loaded = b]
<1>1. /\ d \in LinkState /\ d.proof = c.proof /\ d.run = c.run /\ d.latched = c.latched
      /\ d.released = c.released /\ d.backoff = c.backoff /\ d.up = c.up /\ d.rtt = c.rtt
      /\ d.pulled = c.pulled /\ d.heard = c.heard
  BY DEF LinkState
<1> HIDE DEF d
<1>2. ProofWindow(d) = ProofWindow(c) /\ SilenceWindow(d) = SilenceWindow(c)
  BY <1>1, SameWindows
<1>3. Steady => Kept(d, g, p) BY <1>1, <1>2 DEF Kept, Spoke
<1> QED BY <1>1, <1>3 DEF d

LEMMA Reg3Keeps ==
  ASSUME NEW c \in LinkState, NEW g \in GhostState, NEW p, Steady => Kept(c, g, p), ~c.up
  PROVE  LET d == [c EXCEPT !.up = TRUE, !.heard = 0, !.loaded = FALSE]
         IN  d \in LinkState /\ (Steady => Kept(d, g, p))
<1> DEFINE d == [c EXCEPT !.up = TRUE, !.heard = 0, !.loaded = FALSE]
<1>1. 0 \in Ages BY Settings DEF Ages, Never
<1>2. /\ d \in LinkState /\ d.proof = c.proof /\ d.run = c.run /\ d.latched = c.latched
      /\ d.released = c.released /\ d.backoff = c.backoff /\ d.rtt = c.rtt
  BY <1>1, Zenon DEF LinkState
<1> HIDE DEF d
<1>3. ProofWindow(d) = ProofWindow(c) BY <1>2, SameWindows
<1>4. Steady => Kept(d, g, p) BY <1>2, <1>3 DEF Kept
<1> QED BY <1>2, <1>4 DEF d

-----------------------------------------------------------------------------
(* The system *)

IInv ==
  /\ TypeOK
  /\ Steady => \A l \in Links : Kept(link[l], ghost[l], passed)

LEMMA InitHolds == Init => IInv
<1> SUFFICES ASSUME Init PROVE IInv OBVIOUS
<1>1. NoRtt \in Rtts \cup {NoRtt} OBVIOUS
<1>2. NewLink \in LinkState /\ NewGhost \in GhostState /\ Kept(NewLink, NewGhost, passed)
  BY <1>1, NewKeeps, Zenon
<1>3. guard \in GuardSettings BY DEF Init
<1>4. (~Steady) \in BOOLEAN OBVIOUS
<1>5. link \in [Links -> LinkState] /\ ghost \in [Links -> GhostState] BY <1>2 DEF Init
<1>6. path \in [Links -> BOOLEAN] BY DEF Init
<1>7. passed \in BOOLEAN BY <1>4, Zenon DEF Init
<1>8. faults \in 0 .. MaxFaults BY Settings DEF Init
<1>9. TypeOK BY <1>3, <1>5, <1>6, <1>7, <1>8 DEF TypeOK
<1> QED BY <1>2, <1>9 DEF Init, IInv

LEMMA GateIs ==
  ASSUME NEW cs, NEW l \in Links
  PROVE  \E gate \in BOOLEAN : ApplyStallGate(cs)[l] = Barred(cs[l], gate)
<1> DEFINE judged == [k \in Links |-> Judged(cs[k])]
           held(c) == c.latched \/ c.pulled
           anyHealthy == Reserve \/ \E k \in Usable(judged) : ~held(judged[k])
           gate == anyHealthy /\ held(judged[l])
<1>1. ApplyStallGate(cs)[l] = [judged[l] EXCEPT !.gated = gate] BY DEF ApplyStallGate
<1>2. gate \in BOOLEAN OBVIOUS
<1>3. judged[l] = Judged(cs[l]) OBVIOUS
<1> QED BY <1>1, <1>2, <1>3, Zenon DEF Barred

LEMMA SelectStep ==
  ASSUME IInv, Select
  PROVE  /\ IInv' /\ \A l \in Links : link'[l].up = link[l].up /\ link'[l].heard = link[l].heard
         /\ Steady /\ guard => \A l \in Links : EarnedBy(link[l], ghost[l], link'[l])
<1>1. /\ link \in [Links -> LinkState] /\ ghost \in [Links -> GhostState]
      /\ \A l \in Links : Steady => Kept(link[l], ghost[l], passed)
  BY DEF IInv, TypeOK
<1>2. passed' = TRUE /\ path' = path /\ guard' = guard /\ faults' = faults BY Zenon DEF Select
<1>3. CASE guard
  <2>1. /\ link' = ApplyStallGate(link)
        /\ ghost' = [l \in Links |-> Witnessed(ghost[l], link[l], link'[l])]
    BY <1>3 DEF Select
  <2>2. ASSUME NEW l \in Links
        PROVE  /\ link'[l] \in LinkState /\ ghost'[l] \in GhostState
               /\ link'[l].up = link[l].up /\ link'[l].heard = link[l].heard
               /\ Steady => Kept(link'[l], ghost'[l], TRUE) /\ EarnedBy(link[l], ghost[l], link'[l])
    <3>1. PICK gate \in BOOLEAN : link'[l] = Barred(link[l], gate)
      BY <2>1, GateIs
    <3>2. ghost'[l] = Witnessed(ghost[l], link[l], link'[l]) BY <2>1
    <3>3. link[l] \in LinkState /\ ghost[l] \in GhostState BY <1>1
    <3>4. Steady => Kept(link[l], ghost[l], passed) BY <1>1
    <3> DEFINE c == link[l]
               g == ghost[l]
               d == link'[l]
               h == ghost'[l]
    <3>5. /\ d \in LinkState /\ h \in GhostState /\ d.up = c.up /\ d.heard = c.heard
          /\ Steady => Kept(d, h, TRUE) /\ EarnedBy(c, g, d)
      <4> HIDE DEF c, g, d, h
      <4>1. c \in LinkState /\ g \in GhostState BY <3>3 DEF c, g
      <4>2. Steady => Kept(c, g, passed) BY <3>4 DEF c, g
      <4>3. d = Barred(c, gate) /\ h = Witnessed(g, c, d) BY <3>1, <3>2 DEF c, d, g, h
      <4> QED BY <4>1, <4>2, <4>3, PassKeeps, ZenonT(40)
    <3> QED BY <3>5, Zenon
  <2>3. DOMAIN link' = Links /\ link' = [l \in Links |-> link'[l]]
    BY <2>1 DEF ApplyStallGate
  <2>4. link' \in [Links -> LinkState] /\ ghost' \in [Links -> GhostState]
    BY <2>1, <2>2, <2>3, Zenon
  <2>5. TypeOK' BY <1>2, <2>4, SMTT(30) DEF IInv, TypeOK
  <2> QED BY <1>2, <2>2, <2>5, Zenon DEF IInv
<1>4. CASE ~guard
  <2>1. /\ link' = [l \in Links |-> ClearStallLatch(link[l])]
        /\ ghost' = [l \in Links |-> [ghost[l] EXCEPT !.fails = 0, !.mute = FALSE]]
    BY <1>4, Zenon DEF Select
  <2>2. ASSUME NEW l \in Links
        PROVE  /\ link'[l] \in LinkState /\ ghost'[l] \in GhostState
               /\ link'[l].up = link[l].up /\ link'[l].heard = link[l].heard
               /\ Kept(link'[l], ghost'[l], TRUE)
    <3>1. link[l] \in LinkState /\ ghost[l] \in GhostState BY <1>1
    <3>2. /\ link'[l] = ClearStallLatch(link[l])
          /\ ghost'[l] = [ghost[l] EXCEPT !.fails = 0, !.mute = FALSE]
      BY <2>1, Zenon
    <3> DEFINE c == link[l]
               g == ghost[l]
               d == link'[l]
               h == ghost'[l]
    <3> HIDE DEF c, g, d, h
    <3>3. /\ c \in LinkState /\ g \in GhostState /\ d = ClearStallLatch(c)
          /\ h = Forgotten(g)
      BY <3>1, <3>2 DEF c, g, d, h, Forgotten
    <3>4. /\ d \in LinkState /\ h \in GhostState /\ d.up = c.up /\ d.heard = c.heard
          /\ Kept(d, h, TRUE)
      BY <3>3, ClearKeeps, Zenon
    <3> QED BY <3>4, Zenon DEF c, g, d, h
  <2>3. link' \in [Links -> LinkState] /\ ghost' \in [Links -> GhostState]
    BY <2>1, <2>2, Zenon
  <2>4. TypeOK' BY <1>2, <2>3 DEF IInv, TypeOK
  <2> QED BY <1>2, <1>4, <2>2, <2>4, Zenon DEF IInv
<1> QED BY <1>3, <1>4

LEMMA TickStep ==
  ASSUME IInv, Tick
  PROVE  IInv'
<1>1. /\ link \in [Links -> LinkState] /\ ghost \in [Links -> GhostState]
      /\ \A l \in Links : Steady => Kept(link[l], ghost[l], passed)
  BY DEF IInv, TypeOK
<1>2. /\ passed = TRUE /\ passed' = (~Steady) /\ path' = path /\ guard' = guard /\ faults' = faults
      /\ link' = [l \in Links |-> Aged(l)]
  BY SettingsAssumption, Zenon DEF Tick, IInv, TypeOK
<1>3. ghost' = [l \in Links |->
         [ghost[l] EXCEPT !.fresh = IF Lapsed(link[l]) \/ Lapsed(link'[l]) THEN 0
                                    ELSE Least(@ + 1, AgeCap),
                          !.mute = @ /\ ~Answered(l)]]
  BY ZenonT(40) DEF Tick
<1>4. ASSUME NEW l \in Links
      PROVE  link'[l] \in LinkState /\ ghost'[l] \in GhostState /\ (Steady => Kept(link'[l], ghost'[l], FALSE))
  <2>1. link[l] \in LinkState /\ ghost[l] \in GhostState /\ (Steady => Kept(link[l], ghost[l], TRUE))
    BY <1>1, <1>2, ZenonT(40)
  <2>2. link'[l] = Aged(l) BY <1>2
  <2>3. ghost'[l] = [ghost[l] EXCEPT !.fresh = IF Lapsed(link[l]) \/ Lapsed(Aged(l)) THEN 0
                                               ELSE Least(@ + 1, AgeCap),
                                     !.mute = @ /\ ~Answered(l)]
    BY <1>3, <2>2, Zenon
  <2> QED BY <2>1, <2>2, <2>3, AgeKeeps, Zenon
<1>5. link' \in [Links -> LinkState] /\ ghost' \in [Links -> GhostState] BY <1>2, <1>3, <1>4, Zenon
<1>6. passed' \in BOOLEAN BY <1>2, Zenon
<1>7. TypeOK' BY <1>2, <1>5, <1>6 DEF IInv, TypeOK
<1>8. Steady => passed' = FALSE BY <1>2, Zenon
<1> QED BY <1>4, <1>7, <1>8, ZenonT(40) DEF IInv

(* The steps of one link leave the others alone.                           *)
LEMMA OneLink ==
  ASSUME IInv, NEW l \in Links, NEW d \in LinkState, NEW g \in GhostState,
         Steady => Kept(d, g, passed),
         link' = [link EXCEPT ![l] = d], ghost' = [ghost EXCEPT ![l] = g],
         path' \in [Links -> BOOLEAN], guard' = guard, passed' = passed,
         faults' \in 0 .. MaxFaults
  PROVE  IInv'
<1>1. /\ link \in [Links -> LinkState] /\ ghost \in [Links -> GhostState]
      /\ guard \in GuardSettings /\ passed \in BOOLEAN
      /\ \A k \in Links : Steady => Kept(link[k], ghost[k], passed)
  BY DEF IInv, TypeOK
<1>2. TypeOK' BY <1>1 DEF TypeOK
<1>3. ASSUME NEW k \in Links PROVE Steady => Kept(link'[k], ghost'[k], passed')
  <2>1. CASE k = l BY <1>1, <2>1
  <2>2. CASE k # l
    <3>1. link'[k] = link[k] /\ ghost'[k] = ghost[k] BY <1>1, <2>2
    <3> QED BY <1>1, <3>1
  <2> QED BY <2>1, <2>2
<1> QED BY <1>2, <1>3 DEF IInv

LEMMA LinkStep ==
  ASSUME IInv, NEW l \in Links,
         \/ RttSample(l) \/ Load(l) \/ DrainBacklog(l) \/ Reconnect(l)
         \/ MarkForRecovery(l) \/ Reg3(l) \/ BreakPath(l) \/ MendPath(l)
  PROVE  IInv'
<1> DEFINE c == link[l]
           g == ghost[l]
<1>1. /\ link \in [Links -> LinkState] /\ ghost \in [Links -> GhostState]
      /\ path \in [Links -> BOOLEAN] /\ faults \in 0 .. MaxFaults
      /\ c \in LinkState /\ g \in GhostState /\ (Steady => Kept(c, g, passed))
  BY DEF IInv, TypeOK
<1>2. ghost = [ghost EXCEPT ![l] = g] /\ link = [link EXCEPT ![l] = c] BY <1>1
<1>3. CASE RttSample(l)
  <2>1. PICK r \in Rtts : link' = [link EXCEPT ![l].rtt = r, ![l].proof = 0, ![l].heard = 0]
    BY <1>3, Zenon DEF RttSample
  <2> DEFINE d == [c EXCEPT !.rtt = r, !.proof = 0, !.heard = 0]
             h == [g EXCEPT !.mute = FALSE]
  <2>2. link' = [link EXCEPT ![l] = d] /\ ghost' = [ghost EXCEPT ![l] = h]
    BY <1>1, <1>3, <2>1, ZenonT(40) DEF RttSample
  <2>3. d \in LinkState /\ h \in GhostState /\ (Steady => Kept(d, h, passed))
    BY <1>1, SampleKeeps, ZenonT(40)
  <2>4. path' = path /\ guard' = guard /\ passed' = passed /\ faults' = faults
    BY <1>3, Zenon DEF RttSample
  <2> HIDE DEF c, g, d, h
  <2> QED BY <1>1, <2>2, <2>3, <2>4, OneLink, ZenonT(40)
<1>4. CASE Load(l) \/ DrainBacklog(l)
  <2>1. PICK b \in BOOLEAN : link' = [link EXCEPT ![l].loaded = b]
    BY <1>4, Zenon DEF Load, DrainBacklog
  <2> DEFINE d == [c EXCEPT !.loaded = b]
  <2>2. link' = [link EXCEPT ![l] = d] BY <1>1, <2>1
  <2>3. d \in LinkState /\ (Steady => Kept(d, g, passed)) BY <1>1, BacklogKeeps, SMTT(30)
  <2>4. /\ path' = path /\ guard' = guard /\ passed' = passed /\ faults' = faults
        /\ ghost' = ghost
    BY <1>4 DEF Load, DrainBacklog
  <2> HIDE DEF c, g, d
  <2> QED BY <1>1, <1>2, <2>2, <2>3, <2>4, OneLink, Zenon
<1>5. CASE Reconnect(l) \/ MarkForRecovery(l)
  <2> DEFINE e == [NewLink EXCEPT !.rtt = c.rtt]
  <2>1. c.rtt \in Rtts \cup {NoRtt} BY <1>1 DEF LinkState
  <2>2. /\ e \in LinkState /\ NewLink \in LinkState /\ NewGhost \in GhostState
        /\ Kept(e, NewGhost, passed) /\ Kept(NewLink, NewGhost, passed)
    BY <2>1, NewKeeps
  <2>3. PICK d \in {e, NewLink} : link' = [link EXCEPT ![l] = d]
    BY <1>5 DEF Reconnect, MarkForRecovery
  <2>4. /\ path' = path /\ guard' = guard /\ passed' = passed
        /\ ghost' = [ghost EXCEPT ![l] = NewGhost] /\ faults' \in 0 .. MaxFaults
    BY <1>1, <1>5, Settings DEF Reconnect, MarkForRecovery
  <2> HIDE DEF c, g, e
  <2> QED BY <1>1, <2>2, <2>3, <2>4, OneLink, Zenon
<1>6. CASE Reg3(l)
  <2> DEFINE d == [c EXCEPT !.up = TRUE, !.heard = 0, !.loaded = FALSE]
  <2>1. /\ link' = [link EXCEPT ![l].up = TRUE, ![l].heard = 0, ![l].loaded = FALSE] /\ ~c.up
        /\ path' = path /\ guard' = guard /\ passed' = passed /\ faults' = faults
        /\ ghost' = ghost
    BY <1>6 DEF Reg3
  <2>2. link' = [link EXCEPT ![l] = d] BY <1>1, <2>1, Zenon
  <2>3. d \in LinkState /\ (Steady => Kept(d, g, passed)) BY <1>1, <2>1, Reg3Keeps, Zenon
  <2>4. path' \in [Links -> BOOLEAN] /\ faults' \in 0 .. MaxFaults BY <1>1, <2>1
  <2>5. /\ ghost' = [ghost EXCEPT ![l] = g] /\ g \in GhostState
        /\ guard' = guard /\ passed' = passed
    BY <1>1, <1>2, <2>1, SMTT(30)
  <2> HIDE DEF c, g, d
  <2> QED BY <2>2, <2>3, <2>4, <2>5, OneLink, Zenon
<1>7. CASE BreakPath(l) \/ MendPath(l)
  <2>1. /\ link' = link /\ ghost' = ghost /\ guard' = guard /\ passed' = passed
        /\ path' \in [Links -> BOOLEAN] /\ faults' \in 0 .. MaxFaults
    <3>1. MaxFaults \in Nat BY Settings, SMTT(30)
    <3>2. CASE BreakPath(l) BY <1>1, <3>1, <3>2, SMTT(30) DEF BreakPath
    <3>3. CASE MendPath(l) BY <1>1, <3>3 DEF MendPath
    <3> QED BY <1>7, <3>2, <3>3
  <2> HIDE DEF c, g
  <2> QED BY <1>1, <1>2, <2>1, OneLink, SMTT(30)
<1> QED BY <1>3, <1>4, <1>5, <1>6, <1>7

LEMMA StepKeeps ==
  ASSUME IInv, [Next]_vars
  PROVE  IInv'
<1>1. CASE Select BY <1>1, SelectStep
<1>2. CASE Tick BY <1>2, TickStep, SMTT(30)
<1>3. CASE SetGuard
  BY <1>3 DEF SetGuard, IInv, TypeOK
<1>4. CASE \E l \in Links : \/ RttSample(l) \/ Load(l) \/ DrainBacklog(l) \/ Reconnect(l)
                            \/ MarkForRecovery(l) \/ Reg3(l) \/ BreakPath(l) \/ MendPath(l)
  BY <1>4, LinkStep, SMTT(30)
<1>5. CASE UNCHANGED vars BY <1>5 DEF vars, IInv, TypeOK
<1> QED BY <1>1, <1>2, <1>3, <1>4, <1>5, SMTT(30) DEF Next

LEMMA Invariant == Spec => []IInv
<1>1. IInv /\ [Next]_vars => IInv' BY StepKeeps
<1> QED BY <1>1, InitHolds, PTL DEF Spec

(* Type correctness: ages stay under their cap, backoffs under theirs.     *)
THEOREM GuardTyped == Spec => []TypeOK
<1>1. IInv => TypeOK BY DEF IInv
<1> QED BY <1>1, Invariant, PTL

(* update_stall_latch and update_silence_pull: under a stream that flows   *)
(* (a pass in every unit of time, Steady), a latch releases only after an  *)
(* uninterrupted run of delivery proof as long as the dwell that the       *)
(* failed rejoins in a row have priced, and no pass gives up the pull of a *)
(* link that has been mute since.                                          *)
THEOREM ReleasesAreEarned ==
  ASSUME Steady
  PROVE  Spec => ReleaseEarned
<1>1. IInv /\ [Next]_vars =>
        [Select /\ guard =>
           \A l \in Links :
             /\ (link[l].latched /\ ~link'[l].latched)
                  => ghost[l].fresh >= DwellMult * EffectiveStale(link[l])
                                       * Least(2 ^ ghost[l].fails, BackoffMax)
             /\ (link[l].up /\ ghost[l].mute) => link'[l].pulled]_vars
  <2> SUFFICES ASSUME IInv, Select, guard
               PROVE  \A l \in Links : EarnedBy(link[l], ghost[l], link'[l])
    BY DEF EarnedBy, Price
  <2> QED BY SelectStep, SMTT(30)
<1> QED BY <1>1, Invariant, PTL DEF Spec, ReleaseEarned

(* apply_stall_gate: whatever is latched or pulled, a pass that finds a    *)
(* usable link leaves one ungated, with the guard on or off and however    *)
(* long the stream has paused.                                             *)
THEOREM LastUsableStays == Spec => LastUsableKept
<1>1. ASSUME IInv, Select
      PROVE  \/ Reserve \/ Usable(link') = {} \/ \E l \in Usable(link') : ~link'[l].gated
  <2> DEFINE judged == [l \in Links |-> Judged(link[l])]
             held(c) == c.latched \/ c.pulled
             anyHealthy == Reserve \/ \E l \in Usable(judged) : ~held(judged[l])
  <2>1. CASE guard /\ ~Reserve
    <3>1. link' = [l \in Links |-> [judged[l] EXCEPT !.gated = anyHealthy /\ held(judged[l])]]
      BY <1>1, <2>1, SMTT(30) DEF Select, ApplyStallGate
    <3>2. ASSUME NEW l \in Links
          PROVE  /\ judged[l] \in LinkState
                 /\ link'[l].gated <=> anyHealthy /\ held(judged[l])
                 /\ IsTimedOut(link'[l]) <=> IsTimedOut(judged[l])
      <4>1. judged[l] \in LinkState
        <5>1. link[l] \in LinkState BY <1>1 DEF IInv, TypeOK
        <5>2. UpdateSilencePull(link[l]) \in LinkState BY <5>1, PullIs
        <5> QED BY <5>2, LatchIs DEF Judged
      <4>2. (anyHealthy /\ held(judged[l])) \in BOOLEAN OBVIOUS
      <4>3. link'[l] = [judged[l] EXCEPT !.gated = anyHealthy /\ held(judged[l])] BY <3>1
      <4> HIDE DEF judged, held, anyHealthy
      <4>4. /\ link'[l].gated = (anyHealthy /\ held(judged[l]))
            /\ link'[l].up = judged[l].up /\ link'[l].heard = judged[l].heard
        BY <4>1, <4>2, <4>3 DEF LinkState
      <4> QED BY <4>1, <4>4, Zenon DEF IsTimedOut
    <3> HIDE DEF judged, held, anyHealthy
    <3>3. Usable(link') = Usable(judged) BY <3>2 DEF Usable
    <3>4. CASE \E l \in Usable(judged) : ~held(judged[l])
      <4>1. PICK l \in Usable(judged) : ~held(judged[l]) BY <3>4
      <4>2. l \in Links BY DEF Usable
      <4> QED BY <3>2, <3>3, <4>1, <4>2
    <3>5. CASE ~(\E l \in Usable(judged) : ~held(judged[l]))
      <4>1. ~anyHealthy BY <2>1, <3>5 DEF anyHealthy
      <4>2. \A l \in Links : ~link'[l].gated BY <3>2, <4>1, SMTT(30)
      <4> QED BY <4>2 DEF Usable
    <3> QED BY <3>4, <3>5
  <2>2. CASE ~guard
    <3>1. link' = [l \in Links |-> ClearStallLatch(link[l])] BY <1>1, <2>2, Zenon DEF Select
    <3>2. \A l \in Links : link[l] \in LinkState BY <1>1, SMTT(30) DEF IInv, TypeOK
    <3>3. \A l \in Links : ~link'[l].gated BY <3>1, <3>2, Zenon DEF ClearStallLatch, LinkState
    <3> QED BY <3>3 DEF Usable
  <2> QED BY <2>1, <2>2
<1>2. IInv /\ [Next]_vars =>
        [Select => \/ Reserve \/ Usable(link') = {}
                   \/ \E l \in Usable(link') : ~link'[l].gated]_vars
  BY <1>1
<1> QED BY <1>2, Invariant, PTL DEF Spec, LastUsableKept
=============================================================================
