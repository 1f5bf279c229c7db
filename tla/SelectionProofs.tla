-------------------------- MODULE SelectionProofs ---------------------------
(***************************************************************************)
(* Proofs about Selection, for any number of uplinks: whatever a pass sees,*)
(* it returns a usable link that it does not hold out, one link carries    *)
(* the stream when every link is quality gated, and a link that comes back *)
(* does so at a reduced share.                                             *)
(***************************************************************************)
EXTENDS Selection, WellFoundedInduction, TLAPS

(* What the settings give.                                                 *)
LEMMA Settings ==
  /\ NLinks \in Nat \ {0} /\ Margin \in Nat \ {0} /\ AgeCap \in Nat
  /\ RampLen \in 1 .. AgeCap /\ StallRampLen \in 1 .. AgeCap
  /\ RampFloor \in 0 .. 999 /\ GatePenalty \in 0 .. 999
  /\ Rtts \subseteq Nat /\ Scores \subseteq Nat
BY ScaleAssumption

-----------------------------------------------------------------------------
(* The best of a set of links *)

(* A non-empty set of naturals has a least element.                        *)
LEMMA LeastNatural ==
  ASSUME NEW T, T \subseteq Nat, T # {}
  PROVE  \E x \in T : \A y \in T : x <= y
<1> DEFINE R == OpToRel(<, Nat)
<1>1. IsWellFoundedOn(R, Nat) BY NatLessThanWellFounded, Zenon
<1>2. ASSUME NEW x \in Nat, NEW y \in Nat PROVE <<y, x>> \in R <=> y < x BY DEF OpToRel
<1> HIDE DEF R
<1>3. PICK x \in T : \A y \in T : ~(<<y, x>> \in R) BY <1>1, WFMin, Zenon
<1>4. \A y \in T : ~(y < x) BY <1>2, <1>3, Zenon
<1> QED BY <1>4

\* No link of S outranks l, the first winning a tie.
Tops(S, rank, l) ==
  \A k \in S : rank[l] > rank[k] \/ (rank[l] = rank[k] /\ l <= k)

(* Among any links there is one that none outranks.                        *)
LEMMA SomeTops ==
  ASSUME NEW S \in SUBSET Links, S # {}, NEW rank \in [S -> Int]
  PROVE  \E l \in S : Tops(S, rank, l)
<1> DEFINE Upto(n) == {l \in S : l <= n}
           Fails(n) == Upto(n) # {} /\ \A l \in Upto(n) : ~Tops(Upto(n), rank, l)
           T == {n \in Nat : Fails(n)}
<1>1. NLinks \in Nat /\ \A l \in S : l \in Nat /\ 1 <= l /\ l <= NLinks
  BY Settings DEF Links
<1>2. Upto(NLinks) = S BY <1>1
<1>3. T = {}
  <2> SUFFICES ASSUME T # {} PROVE FALSE OBVIOUS
  <2>1. T \subseteq Nat OBVIOUS
  <2> HIDE DEF T
  <2>2. PICK n \in T : \A y \in T : n <= y BY <2>1, LeastNatural, Zenon
  <2> USE DEF T
  <2>3. n \in Nat /\ Fails(n) BY <2>2
  <2>4. n # 0 BY <1>1, <2>3
  <2>5. n - 1 \in Nat /\ n - 1 \notin T BY <2>2, <2>3, <2>4
  <2>6. ~Fails(n - 1) BY <2>5
  <2>7. n \in S
    <3> SUFFICES ASSUME n \notin S PROVE FALSE OBVIOUS
    <3>1. Upto(n) = Upto(n - 1) BY <1>1, <2>3
    <3> HIDE DEF Upto
    <3> QED BY <2>3, <2>6, <3>1
  <2>8. Upto(n) = Upto(n - 1) \union {n}
    <3>1. \A l \in S : l <= n <=> l <= n - 1 \/ l = n BY <1>1, <2>3
    <3> QED BY <2>3, <2>7, <3>1, Zenon
  <2>9. CASE Upto(n - 1) = {}
    <3>1. Upto(n) = {n} BY <2>8, <2>9
    <3>2. Tops({n}, rank, n) BY <2>3, <2>7 DEF Tops
    <3> HIDE DEF Upto
    <3> QED BY <2>3, <3>1, <3>2
  <2>10. CASE Upto(n - 1) # {}
    <3>1. PICK b \in Upto(n - 1) : Tops(Upto(n - 1), rank, b) BY <2>6, <2>10, Zenon
    <3>2. /\ b \in S /\ b \in Int /\ b < n /\ b \in Upto(n) /\ n \in Upto(n)
          /\ \A k \in Upto(n - 1) : k \in S /\ k \in Int /\ k < n
      BY <1>1, <2>3, <2>8
    <3>3. \A k \in S : rank[k] \in Int OBVIOUS
    <3> HIDE DEF Upto
    <3>4. CASE rank[n] > rank[b]
      <4>1. Tops(Upto(n), rank, n)
        BY <2>3, <2>7, <2>8, <3>1, <3>2, <3>3, <3>4, SMTT(30) DEF Tops
      <4> QED BY <2>3, <3>2, <4>1
    <3>5. CASE ~(rank[n] > rank[b])
      <4>1. Tops(Upto(n), rank, b)
        BY <2>3, <2>7, <2>8, <3>1, <3>2, <3>3, <3>5 DEF Tops
      <4> QED BY <2>3, <3>2, <4>1
    <3> QED BY <3>4, <3>5
  <2> QED BY <2>9, <2>10
<1>4. ~Fails(NLinks) BY <1>1, <1>3, Zenon
<1> HIDE DEF Upto
<1> QED BY <1>2, <1>4, SMTT(30)

(* The ranking returns a link of those ranked whenever there is one.       *)
LEMMA HighestIs ==
  ASSUME NEW S \in SUBSET Links, NEW rank \in [S -> Int]
  PROVE  /\ S # {} => HighestOf(rank) \in S
         /\ S = {} => HighestOf(rank) = None
<1>1. DOMAIN rank = S OBVIOUS
<1>2. CASE S # {}
  <2>1. \E l \in S : Tops(S, rank, l) BY <1>2, SomeTops
  <2>2. \E l \in S : \A k \in S : rank[l] > rank[k] \/ (rank[l] = rank[k] /\ l <= k)
    BY <2>1 DEF Tops
  <2>3. HighestOf(rank) =
          CHOOSE l \in S : \A k \in S : rank[l] > rank[k] \/ (rank[l] = rank[k] /\ l <= k)
    BY <1>1, <1>2 DEF HighestOf
  <2> QED BY <1>2, <2>2, <2>3
<1>3. CASE S = {} BY <1>1, <1>3 DEF HighestOf
<1> QED BY <1>2, <1>3

-----------------------------------------------------------------------------
(* What a pass sees *)

\* A view, as far as its types go.
IsView(see) ==
  \A l \in Links :
    see[l].rtt \in Nat /\ see[l].score \in Nat /\ see[l].capped \in BOOLEAN

LEMMA ViewIs ==
  ASSUME NEW see \in Views
  PROVE  IsView(see)
<1>1. see \in [Links -> Sights] BY DEF Views
<1>2. \A l \in Links : see[l] \in Sight BY <1>1 DEF Sights
<1>3. ASSUME NEW l \in Links
      PROVE  see[l].rtt \in Nat /\ see[l].score \in Nat /\ see[l].capped \in BOOLEAN
  <2>1. see[l].rtt \in Rtts /\ see[l].score \in Scores /\ see[l].capped \in BOOLEAN
    BY <1>2 DEF Sight
  <2>2. Rtts \subseteq Nat /\ Scores \subseteq Nat BY Settings
  <2> QED BY <2>1, <2>2, Zenon
<1> QED BY <1>3 DEF IsView

(* The link an election prefers is a usable one.                           *)
LEMMA BestCarrierIs ==
  ASSUME NEW see, IsView(see)
  PROVE  /\ Pool(see) # {} => BestCarrier(see) \in Pool(see)
         /\ Pool(see) = {} => BestCarrier(see) = None
<1> DEFINE P == Pool(see)
           M == {l \in P : see[l].rtt > 0}
<1>1. P \subseteq Links BY DEF Pool
<1>2. CASE P = {} BY <1>2 DEF BestCarrier
<1> HIDE DEF P
<1>3. CASE P # {} /\ M # {}
  <2> DEFINE rank == [l \in M |-> 0 - see[l].rtt]
  <2>1. M \in SUBSET Links BY <1>1
  <2>2. \A l \in M : see[l].rtt \in Nat BY <1>1 DEF IsView
  <2>3. rank \in [M -> Int] BY <2>2
  <2>4. \A l \in M : rank[l] = 0 - see[l].rtt OBVIOUS
  <2> HIDE DEF M, rank
  <2>5. PICK l \in M : Tops(M, rank, l) BY <1>3, <2>1, <2>3, SomeTops
  <2>6. \A k \in M : see[l].rtt < see[k].rtt \/ (see[l].rtt = see[k].rtt /\ l <= k)
    BY <2>2, <2>4, <2>5 DEF Tops
  <2>7. BestCarrier(see) = CHOOSE i \in M : \A k \in M :
          see[i].rtt < see[k].rtt \/ (see[i].rtt = see[k].rtt /\ i <= k)
    BY <1>3 DEF BestCarrier, M, P
  <2>8. BestCarrier(see) \in M BY <2>6, <2>7
  <2> QED BY <1>3, <2>8 DEF M, P
<1>4. CASE P # {} /\ M = {}
  <2> DEFINE rank == [l \in P |-> see[l].score]
  <2>1. P \in SUBSET Links BY <1>1
  <2>2. rank \in [P -> Int] BY <1>1 DEF IsView
  <2>3. \A l \in P : rank[l] = see[l].score OBVIOUS
  <2> HIDE DEF rank
  <2>4. PICK l \in P : Tops(P, rank, l) BY <1>4, <2>1, <2>2, SomeTops
  <2>5. \A k \in P : see[l].score > see[k].score \/ (see[l].score = see[k].score /\ l <= k)
    BY <2>3, <2>4 DEF Tops
  <2>6. BestCarrier(see) = CHOOSE i \in P : \A k \in P :
          see[i].score > see[k].score \/ (see[i].score = see[k].score /\ i <= k)
    BY <1>4 DEF BestCarrier, P
  <2> QED BY <1>4, <2>5, <2>6 DEF P
<1> QED BY <1>2, <1>3, <1>4 DEF P

(* The link that is to carry alone is a usable one.                        *)
LEMMA KeepIs ==
  ASSUME NEW cs, NEW see, IsView(see)
  PROVE  /\ Pool(see) # {} => Keep(cs, see) \in Pool(see)
         /\ Pool(see) = {} => Keep(cs, see) = None
<1>1. Incumbent(cs, see) = None \/ Incumbent(cs, see) \in Pool(see)
  <2>1. CASE \E l \in Pool(see) : cs[l].carrier BY <2>1 DEF Incumbent
  <2>2. CASE ~(\E l \in Pool(see) : cs[l].carrier) BY <2>2 DEF Incumbent
  <2> QED BY <2>1, <2>2
<1>2. Keep(cs, see) \in {BestCarrier(see), Incumbent(cs, see)}
  BY DEF Keep
<1>3. Incumbent(cs, see) = None => Keep(cs, see) = BestCarrier(see) BY DEF Keep
<1> QED BY <1>1, <1>2, <1>3, BestCarrierIs

-----------------------------------------------------------------------------
(* Who is ranked, and who is picked *)

(* Holding links out leaves one in the rotation, and the sole carrier      *)
(* alone when there is one.                                                *)
LEMMA RankedIs ==
  ASSUME NEW cs, NEW see, IsView(see), NEW sole, sole = SoleCarrier(cs, see),
         NEW held, held = HeldOut(see, sole)
  PROVE  /\ Ranked(see, held) \in SUBSET Pool(see)
         /\ Pool(see) # {} => Ranked(see, held) # {}
         /\ sole # None => /\ sole \in Pool(see) /\ Ranked(see, held) = {sole}
                           /\ held = Pool(see) \ {sole} /\ QualityOk(see) = {}
                           /\ sole = Keep(cs, see)
         /\ sole = None => QualityOk(see) # {} \/ Pool(see) = {}
<1>1. /\ Unconstrained(see) \subseteq QualityOk(see) /\ QualityOk(see) \subseteq Pool(see)
      /\ None \notin Pool(see)
  BY DEF Unconstrained, QualityOk, Pool, Links, None
<1>2. Ranked(see, held) \in SUBSET Pool(see) BY DEF Ranked
<1>3. /\ Pool(see) # {} => Keep(cs, see) \in Pool(see)
      /\ Pool(see) = {} => Keep(cs, see) = None
  BY KeepIs
<1>4. CASE QualityOk(see) = {}
  <2>1. sole = Keep(cs, see) /\ Unconstrained(see) = {} BY <1>1, <1>4 DEF SoleCarrier
  <2>2. CASE Pool(see) = {}
    BY <1>2, <1>3, <2>1, <2>2
  <2>3. CASE Pool(see) # {}
    <3>1. sole \in Pool(see) /\ sole # None BY <1>1, <1>3, <2>1, <2>3
    <3>2. held = Pool(see) \ {sole} BY <2>1, <3>1 DEF HeldOut
    <3>3. Ranked(see, held) = {sole} BY <2>1, <3>1, <3>2 DEF Ranked
    <3> QED BY <1>2, <1>4, <2>1, <3>1, <3>2, <3>3
  <2> QED BY <2>2, <2>3
<1>5. CASE QualityOk(see) # {}
  <2>1. sole = None BY <1>5 DEF SoleCarrier
  <2>2. CASE Unconstrained(see) # {}
    <3>1. PICK u \in Unconstrained(see) : TRUE BY <2>2
    <3>2. u \in Pool(see) /\ see[u].health = "ok" /\ ~see[u].capped
      BY <3>1 DEF Unconstrained, QualityOk
    <3>3. u \notin held BY <2>1, <3>2, SMTT(30) DEF HeldOut
    <3>4. u \in Ranked(see, held) BY <3>2, <3>3 DEF Ranked
    <3> QED BY <1>2, <1>5, <2>1, <3>4
  <2>3. CASE Unconstrained(see) = {}
    <3>1. held = {} BY <2>1, <2>3 DEF HeldOut
    <3>2. Ranked(see, held) = Pool(see) BY <2>3, <3>1 DEF Ranked
    <3> QED BY <1>2, <1>5, <2>1, <3>2
  <2> QED BY <2>2, <2>3
<1> QED BY <1>4, <1>5

(* A score is a number, ramps included.                                    *)
LEMMA ScoreIs ==
  ASSUME NEW cs \in [Links -> LinkState], NEW see, IsView(see), NEW l \in Links
  PROVE  Score(cs, see, l) \in Int
<1>1. /\ cs[l].ramp \in Int /\ cs[l].rampLen \in Int /\ cs[l].ramp >= -1
      /\ RampFloor \in Int
  BY Settings DEF LinkState, Never
<1>2. RampMultiplier(cs[l]) \in Int
  <2>1. CASE ~Ramping(cs[l]) BY <2>1 DEF RampMultiplier
  <2>2. CASE Ramping(cs[l])
    <3>1. cs[l].rampLen > 0 BY <1>1, <2>2 DEF Ramping, Never
    <3>2. (1000 - RampFloor) * cs[l].ramp \in Int BY <1>1
    <3> DEFINE x == (1000 - RampFloor) * cs[l].ramp
    <3> HIDE DEF x
    <3>3. x \in Int BY <3>2 DEF x
    <3>4. x \div cs[l].rampLen \in Int BY <1>1, <3>1, <3>3
    <3>5. RampFloor + (x \div cs[l].rampLen) \in Int BY <1>1, <3>4, SMTT(30)
    <3> QED BY <2>2, <3>5 DEF RampMultiplier, x
  <2> QED BY <2>1, <2>2
<1>3. GateMultiplier(see, l) \in Int BY Settings DEF GateMultiplier
<1>4. see[l].score \in Int BY DEF IsView
<1> QED BY <1>2, <1>3, <1>4, SMTT(30) DEF Score

(* The choice is one of the links ranked, whenever there is one.           *)
LEMMA ChoiceIs ==
  ASSUME NEW cs \in [Links -> LinkState], NEW see, IsView(see), NEW held,
         Ranked(see, held) \in SUBSET Pool(see)
  PROVE  /\ Ranked(see, held) # {} => EnhancedChoice(cs, see, held) \in Ranked(see, held)
         /\ Ranked(see, held) = {} => EnhancedChoice(cs, see, held) = None
<1> DEFINE S == Ranked(see, held)
           rank == [l \in S |-> Score(cs, see, l)]
           best == HighestOf(rank)
<1>1. S \in SUBSET Links BY DEF Pool
<1>2. \A l \in S : Score(cs, see, l) \in Int BY <1>1, ScoreIs
<1> HIDE DEF S
<1>3. rank \in [S -> Int] BY <1>2
<1>4. EnhancedChoice(cs, see, held) =
        IF best \notin {None, last} /\ last \in S /\ ~Better(rank[best], rank[last])
        THEN last ELSE best
  BY DEF EnhancedChoice, S
<1> HIDE DEF rank
<1>5. (S # {} => best \in S) /\ (S = {} => best = None) BY <1>1, <1>3, HighestIs
<1> HIDE DEF best
<1> QED BY <1>4, <1>5 DEF S

(* So is that of the classic mode among the usable links.                  *)
LEMMA ClassicChoiceIs ==
  ASSUME NEW see, IsView(see)
  PROVE  /\ Pool(see) # {} => ClassicChoice(see) \in Pool(see)
         /\ Pool(see) = {} => ClassicChoice(see) = None
<1> DEFINE S == Pool(see)
           rank == [l \in S |-> see[l].score]
<1>1. S \in SUBSET Links BY DEF Pool
<1>2. rank \in [S -> Int] BY <1>1 DEF IsView
<1>3. ClassicChoice(see) = HighestOf(rank) BY DEF ClassicChoice
<1> HIDE DEF S, rank
<1>4. (S # {} => HighestOf(rank) \in S) /\ (S = {} => HighestOf(rank) = None)
  BY <1>1, <1>2, HighestIs
<1> QED BY <1>3, <1>4 DEF S

-----------------------------------------------------------------------------
(* What the stages of a pass leave in the links *)

\* The roles of a link are the same in c and d.
SameRoles(c, d) == c.carrier = d.carrier /\ c.loser = d.loser /\ c.excluded = d.excluded

(* An armed ramp runs, and one that runs is left alone.                    *)
LEMMA ArmRampIs ==
  ASSUME NEW c \in LinkState, NEW len \in {RampLen, StallRampLen}, NEW stall \in BOOLEAN
  PROVE  LET d == ArmRamp(c, len, stall) IN
         /\ d \in LinkState /\ Ramping(d) /\ SameRoles(d, c) /\ (Ramping(c) => d = c)
<1> DEFINE d == ArmRamp(c, len, stall)
<1>1. CASE Ramping(c)
  <2>1. d = c BY <1>1 DEF ArmRamp
  <2> HIDE DEF d
  <2> QED BY <1>1, <2>1 DEF SameRoles, d
<1>2. CASE ~Ramping(c)
  <2>1. len \in 1 .. AgeCap /\ AgeCap \in Nat /\ 0 \in Never .. AgeCap BY Settings DEF Never
  <2>2. d = [c EXCEPT !.ramp = 0, !.rampLen = len, !.stallRamp = stall] BY <1>2 DEF ArmRamp
  <2> HIDE DEF d
  <2>3. d \in LinkState BY <2>1, <2>2, Zenon DEF LinkState
  <2>4. d.ramp = 0 /\ d.rampLen = len BY <2>2 DEF LinkState
  <2>5. Ramping(d) BY <2>1, <2>4 DEF Ramping, Never
  <2>6. SameRoles(d, c) BY <2>2 DEF SameRoles, LinkState
  <2> QED BY <1>2, <2>3, <2>5, <2>6, SMTT(30) DEF d
<1> QED BY <1>1, <1>2

(* The stall gate moves ramps only.                                        *)
LEMMA StallStage ==
  ASSUME NEW cs \in [Links -> LinkState], NEW see, NEW guard \in BOOLEAN
  PROVE  /\ StallGated(cs, see, guard) \in [Links -> LinkState]
         /\ \A l \in Links : SameRoles(StallGated(cs, see, guard)[l], cs[l])
<1> DEFINE Gated(l) == IF ~guard THEN ClearStallRamp(cs[l])
                       ELSE IF see[l].at = "rejoin" THEN ArmRamp(cs[l], StallRampLen, TRUE)
                       ELSE cs[l]
<1>1. ASSUME NEW c \in LinkState
      PROVE  ClearStallRamp(c) \in LinkState /\ SameRoles(ClearStallRamp(c), c)
  <2>1. Never \in Never .. AgeCap BY Settings DEF Never
  <2>2. CASE c.stallRamp
    <3>1. ClearStallRamp(c) = [c EXCEPT !.ramp = Never, !.rampLen = 0, !.stallRamp = FALSE]
      BY <2>2 DEF ClearStallRamp
    <3> QED BY <2>1, <3>1, Zenon DEF LinkState, SameRoles
  <2>3. CASE ~c.stallRamp BY <2>3 DEF ClearStallRamp, SameRoles
  <2> QED BY <2>2, <2>3, SMTT(30)
<1>2. ASSUME NEW l \in Links PROVE Gated(l) \in LinkState /\ SameRoles(Gated(l), cs[l])
  <2>1. cs[l] \in LinkState OBVIOUS
  <2>2. /\ ArmRamp(cs[l], StallRampLen, TRUE) \in LinkState
        /\ SameRoles(ArmRamp(cs[l], StallRampLen, TRUE), cs[l])
    BY <2>1, ArmRampIs, Zenon
  <2>3. SameRoles(cs[l], cs[l]) BY SMTT(30) DEF SameRoles
  <2> QED BY <1>1, <2>1, <2>2, <2>3, Zenon
<1>3. StallGated(cs, see, guard) = [l \in Links |-> Gated(l)] BY SMTT(30) DEF StallGated
<1> HIDE DEF Gated
<1> QED BY <1>2, <1>3

(* One role at most: the carrier is not among those that lost.             *)
OneRole(c) == ~(c.carrier /\ c.loser)

\* A link another one is kept instead of.
PassedOver(c, handover, lost) ==
  [c EXCEPT !.carrier = FALSE, !.since = IF handover THEN Never ELSE @, !.loser = lost]

(* Losing the role, winning it, and being passed over.                     *)
LEMMA RoleChanges ==
  ASSUME NEW c \in LinkState, OneRole(c), NEW handover \in BOOLEAN, NEW lost \in BOOLEAN
  PROVE  /\ LET d == ReleaseSoleCarrier(c) IN
            /\ d \in LinkState /\ ~d.carrier /\ ~d.loser /\ d.excluded = c.excluded
            /\ c.loser => Ramping(d)
         /\ LET d == ElectedAnew(c, handover) IN
            /\ d \in LinkState /\ d.carrier /\ ~d.loser /\ d.excluded = c.excluded
            /\ c.loser => Ramping(d)
         /\ LET d == PassedOver(c, handover, lost) IN
            d \in LinkState /\ ~d.carrier /\ d.excluded = c.excluded
<1> DEFINE b == IF c.loser THEN ArmRamp(c, RampLen, FALSE) ELSE c
<1>1. b \in LinkState /\ SameRoles(b, c) /\ (c.loser => Ramping(b))
  <2>1. LET d == ArmRamp(c, RampLen, FALSE) IN d \in LinkState /\ SameRoles(d, c) /\ Ramping(d)
    BY ArmRampIs, Zenon
  <2>2. SameRoles(c, c) BY SMTT(30) DEF SameRoles
  <2> QED BY <2>1, <2>2, Zenon
<1>2. Never \in Never .. AgeCap /\ 0 \in Never .. AgeCap BY Settings DEF Never
<1>3. LET d == ReleaseSoleCarrier(c) IN
      /\ d \in LinkState /\ ~d.carrier /\ ~d.loser /\ d.excluded = c.excluded
      /\ c.loser => Ramping(d)
  <2> DEFINE d == ReleaseSoleCarrier(c)
  <2>1. d = [b EXCEPT !.loser = FALSE, !.carrier = FALSE] BY DEF ReleaseSoleCarrier
  <2> HIDE DEF b, d
  <2>2. d \in LinkState /\ ~d.carrier /\ ~d.loser /\ d.excluded = b.excluded
    BY <1>1, <2>1, Zenon DEF LinkState
  <2>3. d.ramp = b.ramp /\ d.rampLen = b.rampLen BY <1>1, <2>1 DEF LinkState
  <2> QED BY <1>1, <2>2, <2>3 DEF d, SameRoles, Ramping
<1>4. LET d == ElectedAnew(c, handover) IN
      /\ d \in LinkState /\ d.carrier /\ ~d.loser /\ d.excluded = c.excluded
      /\ c.loser => Ramping(d)
  <2> DEFINE d == ElectedAnew(c, handover)
  <2>1. CASE c.carrier
    <3>1. d = [c EXCEPT !.loser = FALSE] BY <2>1 DEF ElectedAnew
    <3> HIDE DEF d
    <3>2. d \in LinkState /\ d.carrier /\ ~d.loser /\ d.excluded = c.excluded
      BY <2>1, <3>1, Zenon DEF LinkState
    <3> QED BY <2>1, <3>2 DEF d, OneRole
  <2>2. CASE ~c.carrier
    <3>1. d = [b EXCEPT !.carrier = TRUE, !.loser = FALSE,
                        !.since = IF handover \/ @ = Never THEN 0 ELSE @]
      BY <2>2 DEF ElectedAnew
    <3> HIDE DEF b, d
    <3>2. d \in LinkState /\ d.carrier /\ ~d.loser /\ d.excluded = b.excluded
      BY <1>1, <1>2, <3>1, Zenon DEF LinkState
    <3>3. d.ramp = b.ramp /\ d.rampLen = b.rampLen BY <1>1, <3>1 DEF LinkState
    <3> QED BY <1>1, <3>2, <3>3 DEF d, SameRoles, Ramping
  <2> QED BY <2>1, <2>2
<1>5. LET d == PassedOver(c, handover, lost) IN
      d \in LinkState /\ ~d.carrier /\ d.excluded = c.excluded
  BY <1>2, Zenon DEF LinkState, PassedOver
<1> QED BY <1>3, <1>4, <1>5

(* The election leaves at most one role to a link, the carrier's to the    *)
(* link kept alone, and ramps a link that gets out of the losers.          *)
LEMMA ElectStage ==
  ASSUME NEW cs \in [Links -> LinkState], \A l \in Links : OneRole(cs[l]), NEW see
  PROVE  LET ds == ElectSoleCarrier(cs, see) IN
         /\ ds \in [Links -> LinkState]
         /\ \A l \in Links :
              /\ OneRole(ds[l]) /\ ds[l].excluded = cs[l].excluded
              /\ QualityOk(see) = {} => (ds[l].carrier <=> l = Keep(cs, see))
              /\ (cs[l].loser /\ (QualityOk(see) # {} \/ l = Keep(cs, see)))
                   => Ramping(ds[l])
<1> DEFINE ds == ElectSoleCarrier(cs, see)
           keep == Keep(cs, see)
           handover == Incumbent(cs, see) # None /\ keep # Incumbent(cs, see)
           Lost(l) == keep # None /\ l \in Pool(see)
           Passed(l) == PassedOver(cs[l], handover, Lost(l))
<1>1. ASSUME NEW l \in Links
      PROVE  /\ LET d == ReleaseSoleCarrier(cs[l]) IN
                /\ d \in LinkState /\ ~d.carrier /\ ~d.loser /\ d.excluded = cs[l].excluded
                /\ cs[l].loser => Ramping(d)
             /\ LET d == ElectedAnew(cs[l], handover) IN
                /\ d \in LinkState /\ d.carrier /\ ~d.loser /\ d.excluded = cs[l].excluded
                /\ cs[l].loser => Ramping(d)
             /\ LET d == Passed(l) IN
                d \in LinkState /\ ~d.carrier /\ d.excluded = cs[l].excluded
  <2>1. cs[l] \in LinkState /\ OneRole(cs[l]) OBVIOUS
  <2>2. handover \in BOOLEAN /\ Lost(l) \in BOOLEAN BY SMTT(30)
  <2> HIDE DEF handover, Lost
  <2> QED BY <2>1, <2>2, RoleChanges
<1>2. CASE QualityOk(see) # {}
  <2>1. ds = [l \in Links |-> ReleaseSoleCarrier(cs[l])] BY <1>2, SMTT(30) DEF ElectSoleCarrier
  <2> HIDE DEF ds
  <2>2. ds \in [Links -> LinkState] BY <1>1, <2>1, SMTT(30)
  <2>3. ASSUME NEW l \in Links
        PROVE  /\ OneRole(ds[l]) /\ ds[l].excluded = cs[l].excluded
               /\ cs[l].loser => Ramping(ds[l])
    <3>1. ds[l] = ReleaseSoleCarrier(cs[l]) BY <2>1, SMTT(30)
    <3> QED BY <1>1, <3>1 DEF OneRole
  <2> QED BY <1>2, <2>2, <2>3 DEF ds
<1>3. CASE QualityOk(see) = {}
  <2>1. ds = [l \in Links |-> IF l = keep THEN ElectedAnew(cs[l], handover) ELSE Passed(l)]
    BY <1>3, SMTT(30) DEF ElectSoleCarrier, PassedOver
  <2> HIDE DEF ds, keep, handover, Passed
  <2>2. ds \in [Links -> LinkState] BY <1>1, <2>1
  <2>3. ASSUME NEW l \in Links
        PROVE  /\ OneRole(ds[l]) /\ ds[l].excluded = cs[l].excluded
               /\ ds[l].carrier <=> l = keep
               /\ (cs[l].loser /\ l = keep) => Ramping(ds[l])
    <3>1. CASE l = keep
      <4>1. ds[l] = ElectedAnew(cs[l], handover) BY <2>1, <3>1, SMTT(30)
      <4> QED BY <1>1, <3>1, <4>1 DEF OneRole
    <3>2. CASE l # keep
      <4>1. ds[l] = Passed(l) BY <2>1, <3>2, SMTT(30)
      <4> QED BY <1>1, <3>2, <4>1 DEF OneRole
    <3> QED BY <3>1, <3>2, SMTT(30)
  <2> QED BY <1>3, <2>2, <2>3 DEF ds, keep
<1> QED BY <1>2, <1>3, SMTT(30)

(* Holding links out marks exactly those, and ramps a link that gets out.  *)
LEMMA ExcludeStage ==
  ASSUME NEW cs \in [Links -> LinkState], NEW see, NEW held
  PROVE  LET ds == Exclude(cs, see, held) IN
         /\ ds \in [Links -> LinkState]
         /\ \A l \in Links :
              /\ ds[l].carrier = cs[l].carrier /\ ds[l].loser = cs[l].loser
              /\ ds[l].excluded <=> l \in held
              /\ (Ramping(cs[l]) \/ (cs[l].excluded /\ l \notin held)) => Ramping(ds[l])
<1> DEFINE ds == Exclude(cs, see, held)
           Base(l) == IF cs[l].excluded /\ l \notin held THEN ArmRamp(cs[l], RampLen, FALSE)
                      ELSE cs[l]
           Done(l) == [Base(l) EXCEPT !.excluded = l \in held,
                         !.fresh = @ /\ see[l].at # "gated" /\ l \notin held]
<1>1. ds = [l \in Links |-> Done(l)] BY DEF Exclude
<1>2. ASSUME NEW l \in Links
      PROVE  /\ Base(l) \in LinkState /\ SameRoles(Base(l), cs[l])
             /\ (Ramping(cs[l]) \/ (cs[l].excluded /\ l \notin held)) => Ramping(Base(l))
  <2>1. cs[l] \in LinkState OBVIOUS
  <2>2. LET d == ArmRamp(cs[l], RampLen, FALSE) IN
        d \in LinkState /\ Ramping(d) /\ SameRoles(d, cs[l])
    BY <2>1, ArmRampIs, Zenon
  <2>3. SameRoles(cs[l], cs[l]) BY DEF SameRoles
  <2> QED BY <2>1, <2>2, <2>3, Zenon
<1>3. ASSUME NEW l \in Links
      PROVE  /\ Done(l) \in LinkState
             /\ Done(l).carrier = Base(l).carrier /\ Done(l).loser = Base(l).loser
             /\ Done(l).excluded <=> l \in held
             /\ Ramping(Base(l)) => Ramping(Done(l))
  <2> DEFINE b == Base(l)
             x == l \in held
             y == b.fresh /\ see[l].at # "gated" /\ l \notin held
  <2>1. b \in LinkState BY <1>2, Zenon
  <2>2. x \in BOOLEAN /\ y \in BOOLEAN OBVIOUS
  <2>3. Done(l) = [b EXCEPT !.excluded = x, !.fresh = y] OBVIOUS
  <2> HIDE DEF b, x, y, Done
  <2>4. Done(l) \in LinkState BY <2>1, <2>2, <2>3, Zenon DEF LinkState
  <2>5. /\ Done(l).carrier = b.carrier /\ Done(l).loser = b.loser /\ Done(l).excluded = x
        /\ Done(l).ramp = b.ramp /\ Done(l).rampLen = b.rampLen
    BY <2>1, <2>3 DEF LinkState
  <2> QED BY <2>4, <2>5, Zenon DEF b, x, Ramping
<1> HIDE DEF ds, Base, Done
<1>4. ds \in [Links -> LinkState] BY <1>1, <1>3, SMTT(30)
<1>5. ASSUME NEW l \in Links
      PROVE  /\ ds[l].carrier = cs[l].carrier /\ ds[l].loser = cs[l].loser
             /\ ds[l].excluded <=> l \in held
             /\ (Ramping(cs[l]) \/ (cs[l].excluded /\ l \notin held)) => Ramping(ds[l])
  <2>1. ds[l] = Done(l) BY <1>1, SMTT(30)
  <2> QED BY <1>2, <1>3, <2>1 DEF SameRoles
<1> QED BY <1>4, <1>5 DEF ds

-----------------------------------------------------------------------------
(* The inductive invariant *)

IInv ==
  /\ TypeOK
  /\ \A l \in Links : OneRole(link[l])
  /\ PoolNeverEmptied

\* A link of the pool that gets out of the held out or the losers is ramped.
RampedBack ==
  \A l \in pass'.pool :
    ((link[l].excluded \/ link[l].loser) /\ ~link'[l].excluded) => Ramping(link'[l])

(* What settling on a choice leaves.                                       *)
LEMMA SettleStep ==
  ASSUME IInv, NEW cs \in [Links -> LinkState], NEW see, IsView(see),
         NEW chosen, NEW sole, Settle(cs, chosen, see, sole),
         Pool(see) # {} => chosen \in Pool(see), Pool(see) = {} => chosen = None,
         sole \in Pool(see) \union {None},
         \A l \in Links : OneRole(cs[l]),
         sole # None => /\ chosen = sole
                        /\ \A l \in Links : cs[l].carrier <=> l = sole
                        /\ \A l \in Pool(see) \ {sole} : cs[l].excluded
  PROVE  IInv' /\ link' = cs /\ pass'.pool = Pool(see)
<1> DEFINE inc == Incumbent(link, see)
           deposed == IF sole # None /\ inc # sole THEN inc ELSE None
<1>1. /\ link' = cs /\ last' = (IF chosen = None THEN last ELSE chosen)
      /\ pass' = [pool |-> Pool(see), chosen |-> chosen, carrier |-> sole,
                  deposed |-> deposed]
      /\ served' = [l \in Links |-> IF l = deposed THEN 0 ELSE served[l]]
      /\ mode' = mode /\ resets' = resets
  BY DEF Settle
<1>2. Pool(see) \subseteq Links /\ None \notin Links BY DEF Pool, Links, None
<1>3. inc \in Links \union {None}
  <2>1. CASE \E l \in Pool(see) : link[l].carrier BY <1>2, <2>1 DEF Incumbent
  <2>2. CASE ~(\E l \in Pool(see) : link[l].carrier) BY <2>2 DEF Incumbent
  <2> QED BY <2>1, <2>2
<1>4. deposed \in Links \union {None} BY <1>3
<1>5. chosen \in Links \union {None} /\ sole \in Links \union {None} BY <1>2, SMTT(30)
<1> HIDE DEF inc, deposed
<1>6. TypeOK'
  <2>1. pass' \in PassState BY <1>1, <1>2, <1>4, <1>5, SMTT(30) DEF PassState
  <2>2. served' \in [Links -> 0 .. AgeCap]
    <3>1. 0 \in 0 .. AgeCap BY Settings
    <3>2. served \in [Links -> 0 .. AgeCap] BY SMTT(30) DEF IInv, TypeOK
    <3> QED BY <1>1, <3>1, <3>2, SMTT(30)
  <2>3. last' \in Links \union {None} BY <1>1, <1>5, SMTT(30) DEF IInv, TypeOK
  <2>4. mode' \in Modes /\ resets' \in 0 .. MaxResets BY <1>1, SMTT(30) DEF IInv, TypeOK
  <2> QED BY <1>1, <2>1, <2>2, <2>3, <2>4, SMTT(30) DEF TypeOK
<1>7. \A l \in Links : OneRole(link'[l]) BY <1>1, SMTT(30)
<1>8. /\ pass'.pool = Pool(see) /\ pass'.chosen = chosen /\ pass'.carrier = sole BY <1>1, SMTT(30)
<1>9. PoolNeverEmptied'
  BY <1>1, <1>2, <1>8 DEF PoolNeverEmptied, Links
<1> QED BY <1>1, <1>6, <1>7, <1>8, <1>9, SMTT(30) DEF IInv, OneRole

(* A pass in Enhanced mode.                                                *)
LEMMA EnhancedStep ==
  ASSUME IInv, SelectEnhanced
  PROVE  IInv' /\ RampedBack
<1>1. PICK see \in Views, guard \in BOOLEAN :
        \E gated \in {StallGated(link, see, guard)} :
        \E sole \in {SoleCarrier(gated, see)} :
        \E held \in {HeldOut(see, sole)} :
        \E elected \in {ElectSoleCarrier(gated, see)} :
        \E cs \in {Exclude(elected, see, held)} :
          Settle(cs, EnhancedChoice(cs, see, held), see, sole)
  BY SMTT(30) DEF SelectEnhanced
<1> DEFINE gated == StallGated(link, see, guard)
           sole == SoleCarrier(gated, see)
           held == HeldOut(see, sole)
           elected == ElectSoleCarrier(gated, see)
           cs == Exclude(elected, see, held)
           chosen == EnhancedChoice(cs, see, held)
<1>2. Settle(cs, chosen, see, sole) BY <1>1
<1>3. IsView(see) BY ViewIs
<1>4. link \in [Links -> LinkState] /\ \A l \in Links : OneRole(link[l]) BY DEF IInv, TypeOK
<1>5. gated \in [Links -> LinkState] /\ \A l \in Links : SameRoles(gated[l], link[l])
  BY <1>4, StallStage
<1>6. \A l \in Links : OneRole(gated[l]) BY <1>4, <1>5, SMTT(30) DEF SameRoles, OneRole
<1>7. /\ Ranked(see, held) \in SUBSET Pool(see)
      /\ Pool(see) # {} => Ranked(see, held) # {}
      /\ sole # None => /\ sole \in Pool(see) /\ Ranked(see, held) = {sole}
                        /\ held = Pool(see) \ {sole} /\ QualityOk(see) = {}
                        /\ sole = Keep(gated, see)
      /\ sole = None => QualityOk(see) # {} \/ Pool(see) = {}
  <2> HIDE DEF gated
  <2> QED BY <1>3, RankedIs, SMTT(30)
<1> HIDE DEF gated, sole, held
<1>8. /\ elected \in [Links -> LinkState]
      /\ \A l \in Links :
           /\ OneRole(elected[l]) /\ elected[l].excluded = gated[l].excluded
           /\ QualityOk(see) = {} => (elected[l].carrier <=> l = Keep(gated, see))
           /\ (gated[l].loser /\ (QualityOk(see) # {} \/ l = Keep(gated, see)))
                => Ramping(elected[l])
  BY <1>5, <1>6, ElectStage, SMTT(30)
<1> HIDE DEF elected
<1>9. /\ cs \in [Links -> LinkState]
      /\ \A l \in Links :
           /\ cs[l].carrier = elected[l].carrier /\ cs[l].loser = elected[l].loser
           /\ cs[l].excluded <=> l \in held
           /\ (Ramping(elected[l]) \/ (elected[l].excluded /\ l \notin held))
                => Ramping(cs[l])
  BY <1>8, ExcludeStage, SMTT(30)
<1> HIDE DEF cs
<1>10. /\ Ranked(see, held) # {} => chosen \in Ranked(see, held)
       /\ Ranked(see, held) = {} => chosen = None
  BY <1>3, <1>7, <1>9, ChoiceIs
<1> HIDE DEF chosen
<1>11. Pool(see) \subseteq Links BY SMTT(30) DEF Pool
<1>12. IInv' /\ link' = cs /\ pass'.pool = Pool(see)
  <2>1. Pool(see) # {} => chosen \in Pool(see) BY <1>7, <1>10, SMTT(30)
  <2>2. Pool(see) = {} => chosen = None BY <1>7, <1>10
  <2>3. sole \in Pool(see) \union {None} BY <1>7, SMTT(30)
  <2>4. \A l \in Links : OneRole(cs[l]) BY <1>8, <1>9 DEF OneRole
  <2>5. ASSUME sole # None
        PROVE  /\ chosen = sole
               /\ \A l \in Links : cs[l].carrier <=> l = sole
               /\ \A l \in Pool(see) \ {sole} : cs[l].excluded
    <3>1. chosen = sole BY <1>7, <1>10, <2>5, SMTT(30)
    <3>2. \A l \in Links : cs[l].carrier <=> l = sole BY <1>7, <1>8, <1>9, <2>5, Zenon
    <3>3. \A l \in Pool(see) \ {sole} : cs[l].excluded BY <1>7, <1>9, <1>11, <2>5, SMTT(30)
    <3> QED BY <3>1, <3>2, <3>3, SMTT(30)
  <2>6. cs \in [Links -> LinkState] BY <1>9, Zenon
  <2> QED BY <1>2, <1>3, <2>1, <2>2, <2>3, <2>4, <2>5, <2>6, SettleStep, Zenon
<1>13. RampedBack
  <2> SUFFICES ASSUME NEW l \in Pool(see), link[l].excluded \/ link[l].loser, ~cs[l].excluded
               PROVE  Ramping(cs[l])
    BY <1>12, SMTT(30) DEF RampedBack
  <2>1. l \in Links /\ l \notin held BY <1>9, <1>11, SMTT(30)
  <2>2. gated[l].excluded = link[l].excluded /\ gated[l].loser = link[l].loser
    BY <1>5, <2>1 DEF SameRoles
  <2>3. CASE link[l].excluded BY <1>8, <1>9, <2>1, <2>2, <2>3, Zenon
  <2>4. CASE link[l].loser
    <3>1. QualityOk(see) # {} \/ l = Keep(gated, see) BY <1>7, <2>1
    <3>2. Ramping(elected[l]) BY <1>8, <2>1, <2>2, <2>4, <3>1, Zenon
    <3> QED BY <1>9, <2>1, <3>2, SMTT(30)
  <2> QED BY <2>3, <2>4, SMTT(30)
<1> QED BY <1>12, <1>13, SMTT(30)

(* A pass in Classic mode.                                                 *)
LEMMA ClassicStep ==
  ASSUME IInv, SelectClassic
  PROVE  IInv'
<1>1. PICK see \in Views, guard \in BOOLEAN :
        LET gated == StallGated(link, see, guard) IN
        Settle([l \in Links |-> ClearQualityGate(gated[l])], ClassicChoice(see), see, None)
  BY DEF SelectClassic
<1> DEFINE gated == StallGated(link, see, guard)
           cs == [l \in Links |-> ClearQualityGate(gated[l])]
<1>2. Settle(cs, ClassicChoice(see), see, None) BY <1>1
<1>3. IsView(see) BY ViewIs
<1>4. gated \in [Links -> LinkState] BY StallStage DEF IInv, TypeOK
<1> HIDE DEF gated
<1>5. ASSUME NEW c \in LinkState
      PROVE  ClearQualityGate(c) \in LinkState /\ OneRole(ClearQualityGate(c))
  <2>1. Never \in Never .. AgeCap BY Settings DEF Never
  <2> QED BY <2>1, Zenon DEF ClearQualityGate, LinkState, OneRole
<1>6. cs \in [Links -> LinkState] /\ \A l \in Links : OneRole(cs[l]) BY <1>4, <1>5
<1> HIDE DEF cs
<1>7. /\ Pool(see) # {} => ClassicChoice(see) \in Pool(see)
      /\ Pool(see) = {} => ClassicChoice(see) = None
  BY <1>3, ClassicChoiceIs, SMTT(30)
<1> QED BY <1>2, <1>3, <1>6, <1>7, SettleStep, SMTT(30)

(* A step that is no pass says nothing of a pool.                          *)
LEMMA NoPassStep ==
  ASSUME IInv, pass' = NoPass, link' \in [Links -> LinkState],
         \A l \in Links : OneRole(link'[l]),
         last' = last, mode' \in Modes, resets' \in 0 .. MaxResets,
         served' \in [Links -> 0 .. AgeCap]
  PROVE  IInv' /\ pass'.pool = {}
<1>1. pass'.pool = {} /\ pass'.chosen = None /\ pass'.carrier = None BY SMTT(30) DEF NoPass
<1>2. pass' \in PassState BY DEF NoPass, PassState
<1>3. TypeOK' BY <1>2, SMTT(30) DEF TypeOK, IInv
<1>4. PoolNeverEmptied' BY <1>1, SMTT(30) DEF PoolNeverEmptied
<1> QED BY <1>1, <1>3, <1>4, SMTT(30) DEF IInv, OneRole

LEMMA SetModeStep ==
  ASSUME IInv, SetMode
  PROVE  IInv' /\ pass'.pool = {}
<1>1. /\ mode' \in Modes /\ pass' = NoPass /\ link' = link /\ last' = last
      /\ resets' = resets /\ served' = served
  BY DEF SetMode
<1>2. /\ link \in [Links -> LinkState] /\ resets \in 0 .. MaxResets
      /\ served \in [Links -> 0 .. AgeCap] /\ \A l \in Links : OneRole(link[l])
  BY SMTT(30) DEF IInv, TypeOK
<1> QED BY <1>1, <1>2, NoPassStep

LEMMA TickStep ==
  ASSUME IInv, Tick
  PROVE  IInv' /\ pass'.pool = {}
<1> DEFINE Aged(c) == [c EXCEPT !.since = Older(@), !.ramp = Older(@)]
<1>1. /\ link' = [l \in Links |-> Aged(link[l])] /\ pass' = NoPass
      /\ served' = [l \in Links |-> IF link[l].carrier /\ "served" \in Histories
                                    THEN Older(served[l]) ELSE served[l]]
      /\ last' = last /\ mode' = mode /\ resets' = resets
  BY Zenon DEF Tick
<1>2. /\ link \in [Links -> LinkState] /\ resets \in 0 .. MaxResets /\ mode \in Modes
      /\ served \in [Links -> 0 .. AgeCap] /\ \A l \in Links : OneRole(link[l])
  BY SMTT(30) DEF IInv, TypeOK
<1>3. /\ \A a \in Never .. AgeCap : Older(a) \in Never .. AgeCap
      /\ \A a \in 0 .. AgeCap : Older(a) \in 0 .. AgeCap
  BY Settings DEF Older, Never
<1>4. ASSUME NEW c \in LinkState, OneRole(c) PROVE Aged(c) \in LinkState /\ OneRole(Aged(c))
  <2>1. c.since \in Never .. AgeCap /\ c.ramp \in Never .. AgeCap BY DEF LinkState
  <2>2. Older(c.since) \in Never .. AgeCap /\ Older(c.ramp) \in Never .. AgeCap
    BY <1>3, <2>1, SMTT(30)
  <2> QED BY <1>4, <2>2, Zenon DEF LinkState, OneRole
<1> HIDE DEF Aged
<1>5. link' \in [Links -> LinkState] /\ \A l \in Links : OneRole(link'[l])
  BY <1>1, <1>2, <1>4, SMTT(30)
<1>6. served' \in [Links -> 0 .. AgeCap] BY <1>1, <1>2, <1>3, SMTT(30)
<1> QED BY <1>1, <1>2, <1>5, <1>6, NoPassStep

LEMMA ResetStep ==
  ASSUME IInv, NEW l \in Links, Reset(l)
  PROVE  IInv' /\ pass'.pool = {}
<1>1. /\ resets < MaxResets /\ resets' = resets + 1 /\ pass' = NoPass
      /\ link' = [link EXCEPT ![l] = ResetLink(link[l])]
      /\ served' = [served EXCEPT ![l] = 0] /\ last' = last /\ mode' = mode
  BY DEF Reset
<1>2. /\ link \in [Links -> LinkState] /\ resets \in 0 .. MaxResets /\ mode \in Modes
      /\ served \in [Links -> 0 .. AgeCap] /\ \A k \in Links : OneRole(link[k])
  BY DEF IInv, TypeOK
<1>3. ResetLink(link[l]) \in LinkState /\ OneRole(ResetLink(link[l]))
  <2> DEFINE c == link[l]
             f == "fresh" \in Histories
  <2>1. Never \in Never .. AgeCap /\ c \in LinkState /\ f \in BOOLEAN
    BY <1>2, Settings DEF Never
  <2>2. ResetLink(c) = [c EXCEPT !.carrier = FALSE, !.since = Never, !.loser = FALSE,
                          !.ramp = Never, !.rampLen = 0, !.stallRamp = FALSE, !.fresh = f]
    BY DEF ResetLink
  <2> HIDE DEF c, f
  <2>3. ResetLink(c) \in LinkState /\ OneRole(ResetLink(c))
    BY <2>1, <2>2, Zenon DEF LinkState, OneRole
  <2> QED BY <2>3, SMTT(30) DEF c
<1>4. link' \in [Links -> LinkState] /\ \A k \in Links : OneRole(link'[k])
  BY <1>1, <1>2, <1>3
<1>5. resets' \in 0 .. MaxResets /\ served' \in [Links -> 0 .. AgeCap]
  <2>1. MaxResets \in Nat /\ 0 \in 0 .. AgeCap BY Settings, ScaleAssumption
  <2> QED BY <1>1, <1>2, <2>1, SMTT(30)
<1> QED BY <1>1, <1>2, <1>4, <1>5, NoPassStep, SMTT(30)

LEMMA InitHolds == Init => IInv
<1> SUFFICES ASSUME Init PROVE IInv OBVIOUS
<1>1. /\ link = [l \in Links |-> NewLink] /\ last = None /\ mode \in Modes
      /\ pass = NoPass /\ resets = 0 /\ served = [l \in Links |-> 0]
  BY SMTT(30) DEF Init
<1>2. NewLink \in LinkState /\ OneRole(NewLink)
  <2> DEFINE f == "fresh" \in Histories
  <2>1. Never \in Never .. AgeCap /\ f \in BOOLEAN BY Settings, SMTT(30) DEF Never
  <2>2. NewLink = [carrier |-> FALSE, since |-> Never, loser |-> FALSE, excluded |-> FALSE,
                   ramp |-> Never, rampLen |-> 0, stallRamp |-> FALSE, fresh |-> f]
    BY SMTT(30) DEF NewLink
  <2> HIDE DEF f
  <2> QED BY <2>1, <2>2, SMTT(30) DEF LinkState, OneRole
<1>3. pass.pool = {} /\ pass.chosen = None /\ pass.carrier = None /\ pass \in PassState
  BY <1>1, SMTT(30) DEF NoPass, PassState
<1>4. 0 \in 0 .. AgeCap /\ 0 \in 0 .. MaxResets BY Settings, ScaleAssumption, SMTT(30)
<1>5. TypeOK BY <1>1, <1>2, <1>3, <1>4, SMTT(30) DEF TypeOK
<1>6. \A l \in Links : OneRole(link[l]) BY <1>1, <1>2, SMTT(30)
<1>7. PoolNeverEmptied BY <1>3 DEF PoolNeverEmptied
<1> QED BY <1>5, <1>6, <1>7 DEF IInv

LEMMA StepKeeps == IInv /\ [Next]_vars => IInv'
<1> SUFFICES ASSUME IInv, [Next]_vars PROVE IInv' OBVIOUS
<1>1. CASE SelectEnhanced BY <1>1, EnhancedStep
<1>2. CASE SelectClassic BY <1>2, ClassicStep
<1>3. CASE SetMode BY <1>3, SetModeStep, SMTT(30)
<1>4. CASE Tick BY <1>4, TickStep
<1>5. ASSUME NEW l \in Links, Reset(l) PROVE IInv' BY <1>5, ResetStep, SMTT(30)
<1>6. CASE UNCHANGED vars
  BY <1>6 DEF vars, IInv, TypeOK, OneRole, PoolNeverEmptied, Links
<1> QED BY <1>1, <1>2, <1>3, <1>4, <1>5, <1>6 DEF Next

LEMMA Invariant == Spec => []IInv
<1> QED BY InitHolds, StepKeeps, PTL DEF Spec

(* Type correctness: the flags, ages and ramps of the links stay in their  *)
(* ranges and a pass returns a link that exists, or none.                  *)
THEOREM SelectionTyped == Spec => []TypeOK
<1>1. IInv => TypeOK BY DEF IInv
<1> QED BY <1>1, Invariant, PTL

(* select_connection_idx: for any number of uplinks, round trips, scores   *)
(* and verdicts, a pass that sees a usable link returns one, never one it  *)
(* holds out, and when every link is quality gated the elected carrier is  *)
(* returned, alone in its role and alone in the rotation.                  *)
THEOREM SomeLinkCarries == Spec => []PoolNeverEmptied
<1>1. IInv => PoolNeverEmptied BY DEF IInv
<1> QED BY <1>1, Invariant, PTL

(* The rejoin ramp: a link that an Enhanced pass lets back into the        *)
(* rotation is ramped in that very pass, whichever of the two flags held   *)
(* it out and whatever ramp was running.                                   *)
THEOREM ComebacksRamped == Spec => ReturnsRamped
<1>1. IInv /\ [Next]_vars =>
        [mode = "enhanced" =>
           \A l \in pass'.pool :
             ((link[l].excluded \/ link[l].loser) /\ ~link'[l].excluded)
               => Ramping(link'[l])]_vars
  <2> SUFFICES ASSUME IInv, Next, mode = "enhanced"
               PROVE  RampedBack
    BY DEF RampedBack
  <2>1. CASE SelectEnhanced BY <2>1, EnhancedStep, SMTT(30)
  <2>2. CASE SelectClassic BY <2>2, SMTT(30) DEF SelectClassic
  <2>3. CASE SetMode BY <2>3, SetModeStep, SMTT(30) DEF RampedBack
  <2>4. CASE Tick BY <2>4, TickStep DEF RampedBack
  <2>5. ASSUME NEW l \in Links, Reset(l) PROVE RampedBack
    BY <2>5, ResetStep DEF RampedBack
  <2> QED BY <2>1, <2>2, <2>3, <2>4, <2>5, SMTT(30) DEF Next
<1> QED BY <1>1, Invariant, PTL DEF Spec, ReturnsRamped
=============================================================================
