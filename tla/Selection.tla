----------------------------- MODULE Selection ------------------------------
(***************************************************************************)
(* Which uplink carries the next packet (selection/mod.rs, classic.rs and  *)
(* enhanced.rs): the sole-carrier election, the links held out of the      *)
(* rotation, the share ramp of a link that comes back, score hysteresis,   *)
(* and the switch between the two modes.                                   *)
(*                                                                         *)
(* What the links look like to a pass (their health verdicts, round trips  *)
(* and scores) is chosen anew by every pass, so that verdicts flap as fast *)
(* as packets are sent; what the pass leaves behind in the links is the    *)
(* state.  A score stands for window / (in_flight + 1), the phase weight,  *)
(* the quality multiplier and the soft cap, multiplied.                    *)
(***************************************************************************)
EXTENDS Integers

CONSTANTS
  NLinks,        \* number of uplinks
  Healths,       \* "ok", "share": weak for its share, "late": weak for delay
                 \* or loss-degraded
  Rtts,          \* smoothed round trips, 0 when none was measured
  Scores,        \* scores before the ramp and the gate penalty
  Modes,         \* scheduling modes switched between at run time
  MinHold,       \* SOLE_CARRIER_MIN_HOLD_MS
  Margin,        \* SOLE_CARRIER_MARGIN
  RampLen,       \* HELD_OUT_REJOIN_RAMP_MS
  StallRampLen,  \* the base dwell of a released stall latch
  RampFloor,     \* STALL_REJOIN_RAMP_FLOOR, in thousandths
  GatePenalty,   \* GATED_LINK_PENALTY, in thousandths
  AgeCap,        \* ages saturate here, no threshold being higher
  MaxResets,     \* bound: uplinks reset
  Histories      \* which of the histories "served" and "fresh" are kept

Links == 1 .. NLinks
None == 0
Never == -1

ASSUME ScaleAssumption ==
  /\ NLinks \in Nat \ {0} /\ Margin \in Nat \ {0}
  /\ Healths \subseteq {"ok", "share", "late"} /\ Modes \subseteq {"classic", "enhanced"}
  /\ Rtts \subseteq Nat /\ Scores \subseteq Nat \ {0}
  /\ {RampFloor, GatePenalty} \subseteq 0 .. 999
  /\ AgeCap \in Nat /\ {MinHold, RampLen, StallRampLen} \subseteq 1 .. AgeCap
  /\ MaxResets \in Nat /\ Histories \subseteq {"served", "fresh"}

VARIABLES
  link,     \* what the links keep between two passes
  last,     \* last_selected_idx
  mode,     \* config.mode
  pass,     \* what the step that led here, if a pass, saw and decided
  resets,   \* uplinks reset so far
  served    \* history: for how long a link has really held the role

vars == <<link, last, mode, pass, resets, served>>

LinkState ==
  [carrier : BOOLEAN,               \* sole_carrier
   since : Never .. AgeCap,         \* sole_carrier_since_ms, as an age
   loser : BOOLEAN,                 \* sole_carrier_excluded
   excluded : BOOLEAN,              \* quality_excluded
   ramp : Never .. AgeCap,          \* stall_rejoin_ramp_start_ms, as an age
   rampLen : {0, RampLen, StallRampLen},
   stallRamp : BOOLEAN,             \* stall_rejoin_ramp_from_stall_gate
   fresh : BOOLEAN]                 \* history: not held out since its reset

PassState ==
  [pool : SUBSET Links, chosen : Links \cup {None}, carrier : Links \cup {None},
   deposed : Links \cup {None}]

NoPass == [pool |-> {}, chosen |-> None, carrier |-> None, deposed |-> None]

TypeOK ==
  /\ link \in [Links -> LinkState] /\ last \in Links \cup {None} /\ mode \in Modes
  /\ pass \in PassState /\ resets \in 0 .. MaxResets
  /\ served \in [Links -> 0 .. AgeCap]

(* What a pass sees of a link.  "in": neither timed out, unregistered nor  *)
(* gated; "rejoin": the same, its stall latch released by this very pass.  *)
Sight == [at : {"out", "gated", "in", "rejoin"}, health : Healths, capped : BOOLEAN,
          rtt : Rtts, score : Scores]

(* Only what a pass tells apart is kept.  The cap of a late link is fixed, *)
(* as the cap is looked at only when late links are held out anyway; so    *)
(* are the verdicts on a link that takes no part or has just been released.*)
Fixed(at) ==
  [at |-> at, health |-> CHOOSE h \in Healths : TRUE, capped |-> FALSE,
   rtt |-> CHOOSE r \in Rtts : TRUE, score |-> CHOOSE x \in Scores : TRUE]

Sights ==
  {s \in Sight : /\ s.capped => s.health # "late"
                 /\ s.at # "in" => s = Fixed(s.at)}

In(s) == s.at \in {"in", "rejoin"}

(* apply_stall_gate never gates the last usable link (see StallGate).  The *)
(* round trips are fixed as well when some link is healthy: only the       *)
(* election reads them, and there is none.                                 *)
Views ==
  {see \in [Links -> Sights] :
     /\ (\E l \in Links : see[l].at = "gated") => \E l \in Links : In(see[l])
     /\ (\E l \in Links : In(see[l]) /\ see[l].health = "ok") =>
          \A l \in Links : see[l].rtt = Fixed(see[l].at).rtt}

Older(age) == IF age = Never THEN Never ELSE IF age = AgeCap THEN AgeCap ELSE age + 1

(***************************************************************************)
(* The share ramp                                                          *)
(***************************************************************************)
Ramping(c) == c.ramp # Never /\ c.ramp < c.rampLen

RampMultiplier(c) ==
  IF ~Ramping(c) THEN 1000 ELSE RampFloor + ((1000 - RampFloor) * c.ramp) \div c.rampLen

ArmRampAlways(c, len, stall) ==
  [c EXCEPT !.ramp = 0, !.rampLen = len, !.stallRamp = stall]

ArmRamp(c, len, stall) ==
  IF Ramping(c) THEN c
  ELSE [c EXCEPT !.ramp = 0, !.rampLen = len, !.stallRamp = stall]

ClearStallRamp(c) ==
  IF c.stallRamp THEN [c EXCEPT !.ramp = Never, !.rampLen = 0, !.stallRamp = FALSE] ELSE c

(* What apply_stall_gate does to the ramps, the guard being on or off.     *)
StallGated(cs, see, guard) ==
  [l \in Links |-> IF ~guard THEN ClearStallRamp(cs[l])
                   ELSE IF see[l].at = "rejoin" THEN ArmRamp(cs[l], StallRampLen, TRUE)
                   ELSE cs[l]]

(***************************************************************************)
(* The sole-carrier election                                               *)
(***************************************************************************)
Pool(see) == {l \in Links : In(see[l])}

QualityOk(see) == {l \in Pool(see) : see[l].health = "ok"}

Unconstrained(see) == {l \in QualityOk(see) : ~see[l].capped}

ReleaseSoleCarrier(c) ==
  [(IF c.loser THEN ArmRamp(c, RampLen, FALSE) ELSE c)
     EXCEPT !.loser = FALSE, !.carrier = FALSE]

(* The lowest measured round trip, else the highest score, the first link  *)
(* winning a tie.                                                          *)
BestCarrier(see) ==
  LET measured == {l \in Pool(see) : see[l].rtt > 0} IN
  IF Pool(see) = {} THEN None
  ELSE IF measured # {}
  THEN CHOOSE l \in measured : \A k \in measured :
         see[l].rtt < see[k].rtt \/ (see[l].rtt = see[k].rtt /\ l <= k)
  ELSE CHOOSE l \in Pool(see) : \A k \in Pool(see) :
         see[l].score > see[k].score \/ (see[l].score = see[k].score /\ l <= k)

Incumbent(cs, see) ==
  IF \E l \in Pool(see) : cs[l].carrier
  THEN CHOOSE l \in Pool(see) : cs[l].carrier ELSE None

Handover(cs, see, inc, best) ==
  /\ cs[inc].since >= MinHold
  /\ see[inc].rtt > 0 /\ see[best].rtt > 0
  /\ see[best].rtt * Margin <= see[inc].rtt

Keep(cs, see) ==
  LET inc == Incumbent(cs, see)  best == BestCarrier(see) IN
  IF inc = None THEN best
  ELSE IF best # inc /\ Handover(cs, see, inc, best) THEN best ELSE inc

ElectedAnew(c, handover) ==
  IF c.carrier THEN [c EXCEPT !.loser = FALSE]
  ELSE [(IF c.loser THEN ArmRamp(c, RampLen, FALSE) ELSE c)
          EXCEPT !.carrier = TRUE, !.loser = FALSE,
                 !.since = IF handover \/ @ = Never THEN 0 ELSE @]

ElectSoleCarrierBoth(cs, see) ==
  IF QualityOk(see) # {} THEN [l \in Links |-> ReleaseSoleCarrier(cs[l])]
  ELSE [l \in Links |-> IF l = Keep(cs, see) THEN ElectedAnew(cs[l], FALSE)
                        ELSE [cs[l] EXCEPT !.loser = l \in Pool(see)]]

ElectSoleCarrier(cs, see) ==
  LET inc == Incumbent(cs, see)
      keep == Keep(cs, see)
      handover == inc # None /\ keep # inc
  IN IF QualityOk(see) # {} THEN [l \in Links |-> ReleaseSoleCarrier(cs[l])]
     ELSE [l \in Links |->
            IF l = keep THEN ElectedAnew(cs[l], handover)
            ELSE [cs[l] EXCEPT !.carrier = FALSE,
                               !.since = IF handover THEN Never ELSE @,
                               !.loser = keep # None /\ l \in Pool(see)]]

SoleCarrier(cs, see) == IF QualityOk(see) # {} THEN None ELSE Keep(cs, see)

(***************************************************************************)
(* Who is held out, and who is picked                                      *)
(***************************************************************************)
HeldOut(see, sole) ==
  LET better == Unconstrained(see) # {} IN
  {l \in Pool(see) : \/ better /\ see[l].health = "late"
                     \/ sole # None /\ l # sole}

ExcludeNoRamp(cs, see, held) ==
  [l \in Links |-> [cs[l] EXCEPT !.excluded = l \in held]]

Exclude(cs, see, held) ==
  [l \in Links |->
     [(IF cs[l].excluded /\ l \notin held THEN ArmRamp(cs[l], RampLen, FALSE) ELSE cs[l])
        EXCEPT !.excluded = l \in held,
               !.fresh = @ /\ see[l].at # "gated" /\ l \notin held]]

Ranked(see, held) ==
  LET better == Unconstrained(see) # {} IN
  {l \in Pool(see) \ held : ~(see[l].capped /\ better)}

GateMultiplier(see, l) ==
  IF see[l].health # "ok" /\ Unconstrained(see) # {} THEN GatePenalty ELSE 1000

Score(cs, see, l) == see[l].score * RampMultiplier(cs[l]) * GateMultiplier(see, l)

(* The first link none outranks.                                           *)
HighestOf(rank) ==
  LET S == DOMAIN rank IN
  IF S = {} THEN None
  ELSE CHOOSE l \in S : \A k \in S : rank[l] > rank[k] \/ (rank[l] = rank[k] /\ l <= k)

(* The switch threshold: a new best must be a tenth better.                *)
Better(best, current) == best * 10 >= current * 11

EnhancedChoice(cs, see, held) ==
  LET S == Ranked(see, held)
      rank == [l \in S |-> Score(cs, see, l)]
      best == HighestOf(rank)
  IN IF best \notin {None, last} /\ last \in S /\ ~Better(rank[best], rank[last])
     THEN last ELSE best

ClearQualityGate(c) ==
  [c EXCEPT !.excluded = FALSE, !.carrier = FALSE, !.loser = FALSE, !.since = Never]

ClassicChoice(see) == HighestOf([l \in Pool(see) |-> see[l].score])

Settle(cs, chosen, see, sole) ==
  LET deposed == IF sole # None /\ Incumbent(link, see) # sole THEN Incumbent(link, see)
                 ELSE None
  IN /\ link' = cs
     /\ last' = IF chosen = None THEN last ELSE chosen
     /\ pass' = [pool |-> Pool(see), chosen |-> chosen, carrier |-> sole,
                 deposed |-> deposed]
     /\ served' = [l \in Links |-> IF l = deposed THEN 0 ELSE served[l]]
     /\ UNCHANGED <<mode, resets>>

(* Each stage of a pass reads what the one before left in the links.       *)
SelectEnhanced ==
  /\ mode = "enhanced"
  /\ \E see \in Views, guard \in BOOLEAN :
       /\ ~guard => \A l \in Links : see[l].at \in {"out", "in"}
       /\ \E gated \in {StallGated(link, see, guard)} :
          \E sole \in {SoleCarrier(gated, see)} :
          \E held \in {HeldOut(see, sole)} :
          \E elected \in {ElectSoleCarrier(gated, see)} :
          \E cs \in {Exclude(elected, see, held)} :
            Settle(cs, EnhancedChoice(cs, see, held), see, sole)

SelectClassic ==
  /\ mode = "classic"
  /\ \E see \in Views, guard \in BOOLEAN :
       /\ ~guard => \A l \in Links : see[l].at \in {"out", "in"}
       /\ LET gated == StallGated(link, see, guard) IN
          Settle([l \in Links |-> ClearQualityGate(gated[l])],
                 ClassicChoice(see), see, None)

SetMode ==
  /\ mode' \in Modes \ {mode}
  /\ pass' = NoPass
  /\ UNCHANGED <<link, last, resets, served>>

Tick ==
  /\ link' = [l \in Links |-> [link[l] EXCEPT !.since = Older(@), !.ramp = Older(@)]]
  /\ served' = [l \in Links |-> IF link[l].carrier /\ "served" \in Histories
                             THEN Older(served[l]) ELSE served[l]]
  /\ pass' = NoPass
  /\ UNCHANGED <<last, mode, resets>>

(* reset_core_state: the flags of the election and the ramp go, and        *)
(* quality_excluded stays.                                                 *)
ResetLink(c) ==
  [c EXCEPT !.carrier = FALSE, !.since = Never, !.loser = FALSE, !.ramp = Never,
            !.rampLen = 0, !.stallRamp = FALSE, !.fresh = "fresh" \in Histories]

Reset(l) ==
  /\ resets < MaxResets
  /\ resets' = resets + 1
  /\ link' = [link EXCEPT ![l] = ResetLink(@)]
  /\ served' = [served EXCEPT ![l] = 0]
  /\ pass' = NoPass
  /\ UNCHANGED <<last, mode>>

NewLink ==
  [carrier |-> FALSE, since |-> Never, loser |-> FALSE, excluded |-> FALSE,
   ramp |-> Never, rampLen |-> 0, stallRamp |-> FALSE, fresh |-> "fresh" \in Histories]

Init ==
  /\ link = [l \in Links |-> NewLink]
  /\ last = None
  /\ mode \in Modes
  /\ pass = NoPass
  /\ resets = 0
  /\ served = [l \in Links |-> 0]

Next ==
  \/ SelectEnhanced
  \/ SelectClassic
  \/ SetMode
  \/ Tick
  \/ \E l \in Links : Reset(l)

Spec == Init /\ [][Next]_vars

(***************************************************************************)
(* Properties                                                              *)
(***************************************************************************)
(* Whatever is gated, late, capped or outvoted, a pass that sees a usable, *)
(* ungated link returns a link ("this can never empty the candidate pool", *)
(* enhanced.rs), and the link it returns is one of those and is not held   *)
(* out, be it by the pass or by the hysteresis that sticks to the last.    *)
(* While every link is quality gated, one link carries the stream: the     *)
(* elected one is the one returned, no other believes it has the role, and *)
(* no other usable link is in the rotation.                                *)
PoolNeverEmptied ==
  /\ pass.pool # {} => pass.chosen # None
  /\ pass.chosen # None => pass.chosen \in pass.pool
  /\ pass.carrier # None =>
       /\ pass.chosen = pass.carrier
       /\ \A l \in Links : link[l].carrier <=> l = pass.carrier
       /\ \A l \in pass.pool \ {pass.carrier} : link[l].excluded

(* However fast the verdicts flap, no link is pinned below its share: a    *)
(* ramp, once armed, runs out (arm_rejoin_ramp never restarts one).        *)
RampsRunOut == \A l \in Links : []<>~Ramping(link[l])

(* A link back in the rotation after an Enhanced pass held it out competes *)
(* at a reduced share in that very pass.                                   *)
ReturnsRamped ==
  [][mode = "enhanced" =>
       \A l \in pass'.pool :
         ((link[l].excluded \/ link[l].loser) /\ ~link'[l].excluded)
           => Ramping(link'[l])]_vars

(* A link that has the sole-carrier role keeps it from any challenger      *)
(* until it has held it for SOLE_CARRIER_MIN_HOLD_MS.                      *)
HoldServed ==
  [][pass'.deposed # None => served[pass'.deposed] >= MinHold]_vars

(* A reset link that nothing has held out since makes the same cold start  *)
(* as any other link: no ramp reduces its share (reset_core_state).        *)
ResetStartsCold ==
  \A l \in Links : (link[l].fresh /\ ~link[l].stallRamp) => ~Ramping(link[l])

(* Time passes.                                                            *)
LiveSpec == Spec /\ WF_vars(Tick)
=============================================================================
