------------------------------ MODULE MCRating ------------------------------
(***************************************************************************)
(* The rating of links, for TLC.  A behaviour is of one scenario.  In      *)
(* "verdicts" two links measure all that the configuration allows, and the *)
(* weak-link filter classifies them; in "starved", which is fair, the peer *)
(* has declared its buffer and no queue forms.  In "target" the congestion *)
(* controller of one link runs, and the filter rests.                      *)
(***************************************************************************)
EXTENDS LinkRating

VARIABLE scenario

filter == <<hist, verdict, late, fails, tier>>

\* Traffic with loss above the threshold, and a NAK on a quiet link.
SomeTraffic == {[sent |-> 100, lost |-> 2], [sent |-> 0, lost |-> 1]}

Calm == {s \in Filter!Sample : ~s.queue}
StarvedTicks == {Filter!Assess(view, 300) : view \in [Links -> Calm]}

Starved ==
  /\ scenario = "starved" /\ UNCHANGED <<scenario, vars>>
  /\ \E t \in StarvedTicks : Filter!ClassifyTick(t)

MCNext ==
  \/ Starved
  \/ scenario = "verdicts" /\ Filter!Classify /\ UNCHANGED <<scenario, vars>>
  \/ scenario = "target" /\ Next /\ UNCHANGED <<scenario, filter>>

MCInit == scenario \in {"verdicts", "starved", "target"} /\ Init /\ Filter!Init

MCSpec ==
  MCInit /\ [][MCNext]_<<scenario, filter, vars>> /\ WF_<<scenario, filter, vars>>(Starved)

\* The probation re-test "breaks the share-starvation latch": see StarvedRetested of
\* Classifier, here of the scenario that is fair.
StarvedFreed == \A l \in Links : []<>(scenario = "starved" => verdict[l] \notin Filter!Share)
=============================================================================
