---------------------------- MODULE MCSelection -----------------------------
(***************************************************************************)
(* The choice of an uplink for TLC.  A behaviour is of one scenario, and   *)
(* the variables of the others rest: "verdicts" is Selection with the      *)
(* bounds of the configuration, "ramp" and "reset" are Selection on the    *)
(* same variables, with less that a pass can see, the one with both modes  *)
(* and longer ramps, the other with resets, and "override" is BestPath.    *)
(***************************************************************************)
EXTENDS Selection

VARIABLES
  scenario,
  bpMode, quality, left, heard, cache, run, sent, promised   \* of BestPath

best == <<bpMode, quality, left, heard, cache, run, sent, promised>>

Ramp == INSTANCE Selection WITH
  Healths <- {"ok", "late"}, Rtts <- {1}, Modes <- {"classic", "enhanced"},
  RampLen <- 2, AgeCap <- 2

Anew == INSTANCE Selection WITH
  Healths <- {"ok", "late"}, Rtts <- {1}, MaxResets <- 1

Override == INSTANCE BestPath WITH
  CacheInterval <- 1, Qualities <- {1, 2}, Default <- 2, Windows <- {1, 2}, Sizes <- {FALSE},
  BurstLen <- 0, mode <- bpMode

ASSUME OtherBounds ==
  Ramp!ScaleAssumption /\ Anew!ScaleAssumption /\ Override!QualitiesAssumption

NoOverride == Override!Init /\ bpMode = "classic" /\ ~quality

MCInit ==
  \/ scenario = "ramp" /\ Ramp!Init /\ NoOverride
  \/ scenario = "reset" /\ Anew!Init /\ NoOverride
  \/ scenario = "verdicts" /\ Init /\ NoOverride
  \/ scenario = "override" /\ Init /\ Override!Init

MCNext ==
  /\ UNCHANGED scenario
  /\ \/ scenario = "ramp" /\ Ramp!Next /\ UNCHANGED best
     \/ scenario = "reset" /\ Anew!Next /\ UNCHANGED best
     \/ scenario = "verdicts" /\ Next /\ UNCHANGED best
     \/ scenario = "override" /\ Override!Next /\ UNCHANGED vars

MCTick ==
  /\ UNCHANGED <<scenario, best>>
  /\ \/ scenario = "ramp" /\ Ramp!Tick
     \/ scenario = "reset" /\ Anew!Tick
     \/ scenario = "verdicts" /\ Tick

MCSpec == MCInit /\ [][MCNext]_<<scenario, vars, best>> /\ WF_<<scenario, vars, best>>(MCTick)

\* In enhanced mode a packet leaves the scheduler's choice only if it must land, and
\* then for the best link; in classic mode never: see OverrideMeant of BestPath.
OverrideMeant == Override!OverrideMeant
=============================================================================
