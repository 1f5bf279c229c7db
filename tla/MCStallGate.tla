---------------------------- MODULE MCStallGate -----------------------------
(***************************************************************************)
(* The stalled-link guard for TLC.  A behaviour is of one scenario, and    *)
(* the variables of the other rest: "rejoin" is one uplink beside a        *)
(* healthy one, under a stream that never pauses; "pair" is two uplinks,   *)
(* both of whose paths may break, under a guard switched at run time.      *)
(***************************************************************************)
EXTENDS StallGate

VARIABLES
  scenario,
  link2, path2, guard2, passed2, faults2, ghost2   \* of Pair

pair == <<link2, path2, guard2, passed2, faults2, ghost2>>

Pair == INSTANCE StallGate WITH
  Links <- {"l1", "l2"}, Rtts <- {0}, StaleFloor <- 1, StaleCeiling <- 1, ProofFloor <- 1,
  DwellMult <- 1, ProbationMult <- 1, BackoffMax <- 1, ConnTimeout <- 2, Budget <- 0,
  IdleTime <- 1, AgeCap <- 3, Reserve <- FALSE, Steady <- FALSE, GuardSettings <- {TRUE, FALSE},
  link <- link2, path <- path2, guard <- guard2, passed <- passed2, faults <- faults2, ghost <- ghost2

ASSUME PairBounds == Pair!SettingsAssumption /\ Pair!CapAssumption

MCNext ==
  \/ scenario = "rejoin" /\ Next /\ UNCHANGED <<scenario, pair>>
  \/ scenario = "pair" /\ Pair!Next /\ UNCHANGED <<scenario, vars>>

Alone == scenario = "rejoin" /\ UNCHANGED <<scenario, pair>>

MCInit == scenario \in {"rejoin", "pair"} /\ Init /\ Pair!Init

MCSpec ==
  /\ MCInit /\ [][MCNext]_<<scenario, vars, pair>>
  /\ WF_<<scenario, vars, pair>>(Alone /\ Tick) /\ WF_<<scenario, vars, pair>>(Alone /\ Select)

\* apply_stall_gate never gates the last usable link: see LastUsableKept of StallGate.
PairLastUsableKept == Pair!LastUsableKept
=============================================================================
