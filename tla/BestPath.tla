------------------------------ MODULE BestPath ------------------------------
(***************************************************************************)
(* The best-path override: the critical window that the sidecar listener   *)
(* extends, the per-link quality cache that enhanced selection refreshes,  *)
(* and handle_srt_packet, which puts a keyframe or a retransmit on the     *)
(* link the cache ranks best.  Mode and quality scoring change at runtime. *)
(*                                                                         *)
(* What the scheduler makes of a link in a pass is one of: out (not        *)
(* schedulable, timed out or stall-gated), held (out of the rotation on    *)
(* quality), capped (skipped: over its in-flight cap) or ranked.           *)
(* Deadlines are kept as the time that is left.                            *)
(***************************************************************************)
EXTENDS Naturals, Sequences, FiniteSets, FiniteSetsExt, SequencesExt

CONSTANTS
  NLinks,
  CacheInterval,   \* QUALITY_CACHE_INTERVAL_MS
  Qualities,       \* multipliers calculate_quality_multiplier can give
  Default,         \* 1.0
  Windows,         \* window_ms of datagrams
  Sizes,           \* whether a packet is of full size
  BurstLen         \* packets of full size in a row that make a burst

Links == 1..NLinks
None == 0

QualitiesAssumption == Default \in Qualities /\ Qualities \subseteq Nat \ {0}

Ranked(view) == {l \in Links : view[l] = "ranked"}

\* A link is skipped only when another one is left to carry the packet.
Views ==
  {view \in [Links -> {"out", "held", "capped", "ranked"}] :
     Ranked(view) = {} => \A l \in Links : view[l] = "out"}

Kinds == {"control", "data", "retransmit"}

VARIABLES
  mode, quality,   \* DynamicConfig
  left,            \* CriticalWindow: time to its deadline, 0 when passed
  heard,           \* listener: time to the deadline it is about to push, if any
  cache,           \* quality_cache by link: multiplier and age
  run,             \* packets of full size in a row so far
  sent,            \* history: how the last packet was handled
  promised         \* history: time left of every window accepted

vars == <<mode, quality, left, heard, cache, run, sent, promised>>

Less(t) == IF t = 0 THEN 0 ELSE t - 1

-----------------------------------------------------------------------------
(* spawn_listener *)

Datagram(w) ==
  /\ heard = {}
  /\ heard' = {w}
  /\ UNCHANGED <<mode, quality, left, cache, run, sent, promised>>

ExtendLonger(w) == Max({left, w})

ExtendTo ==
  \E w \in heard :
    /\ left' = ExtendLonger(w)
    /\ promised' = promised \union {w}
    /\ heard' = {}
    /\ UNCHANGED <<mode, quality, cache, run, sent>>

-----------------------------------------------------------------------------
(* The control plane *)

SetMode(m) ==
  /\ mode' = m
  /\ UNCHANGED <<quality, left, heard, cache, run, sent, promised>>

SetQualityEnabled(on) ==
  /\ quality' = on
  /\ UNCHANGED <<mode, left, heard, cache, run, sent, promised>>

-----------------------------------------------------------------------------
(* handle_srt_packet *)

\* get_cached_quality_multiplier, for the links enhanced selection ranks.
Due(view) ==
  {l \in Ranked(view) : mode = "enhanced" /\ quality /\ cache[l].age >= CacheInterval}

Refreshed(view, now) ==
  [l \in Links |-> IF l \in Due(view) THEN [mult |-> now[l], age |-> 0] ELSE cache[l]]

EligibleHeld(v) == v # "out"
Eligible(v) == v \notin {"out", "held"}

Start == [idx |-> None, best |-> 0, first |-> 0, equal |-> TRUE, n |-> 0]

\* One link of the loop in select_best_quality_idx.
Step(view, ca, acc, l) ==
  LET q == ca[l].mult
  IN  IF ~Eligible(view[l]) THEN acc
      ELSE [idx |-> IF q > acc.best THEN l ELSE acc.idx,
            best |-> Max({q, acc.best}),
            first |-> IF acc.n = 0 THEN q ELSE acc.first,
            equal |-> acc.equal /\ (acc.n = 0 \/ acc.first = q),
            n |-> acc.n + 1]

SelectBestQualityIdx(view, ca) ==
  LET end == FoldLeft(LAMBDA acc, l : Step(view, ca, acc, l), Start, [l \in Links |-> l])
  IN  IF end.n > 1 /\ end.equal THEN None ELSE end.idx

SelectBestPathOverrideIdx(view, ca) ==
  IF mode = "classic" THEN None ELSE SelectBestQualityIdx(view, ca)

\* For the properties: the link to pick is the first of the best, unless several
\* links are all the same.
Able(view) == {l \in Links : view[l] \in {"ranked", "capped"}}

Best(view, ca) ==
  LET top == {l \in Able(view) : \A k \in Able(view) : ca[k].mult <= ca[l].mult}
  IN  IF Able(view) = {} \/ (top = Able(view) /\ Cardinality(top) > 1) THEN None ELSE Min(top)

Record(kind, view, ca, burst, choice, link) ==
  LET open == \E p \in promised : p > 0
      best == Best(view, ca)
  IN  [mode |-> mode, over |-> link # choice, onBest |-> link = best,
       should |-> best # None /\ (kind = "retransmit" \/ (kind = "data" /\ open)),
       stale |-> /\ link # choice /\ Cardinality(Able(view)) > 1
                 /\ \E l \in Able(view) : ca[l].age >= CacheInterval,
       burst |-> best # None /\ BurstLen > 0 /\ burst = BurstLen]

MustLand(kind) == kind # "control" /\ (left > 0 \/ kind = "retransmit")

\* A packet of a kind and size, the scheduler's view and choice, and what the
\* multipliers would be if calculated now.
HandleSrtPacket(kind, full, view, now, choice) ==
  /\ cache' = Refreshed(view, now)
  /\ run' = IF kind # "control" /\ full THEN Min({run + 1, BurstLen}) ELSE 0
  /\ LET best == SelectBestPathOverrideIdx(view, cache')
     IN  sent' = Record(kind, view, cache', run', choice,
                        IF MustLand(kind) /\ best # None THEN best ELSE choice)
  /\ UNCHANGED <<mode, quality, left, heard, promised>>

Elapse ==
  /\ left' = Less(left)
  /\ heard' = {Less(w) : w \in heard}
  /\ promised' = {Less(w) : w \in promised} \ {0}
  /\ cache' = [l \in Links |-> [cache[l] EXCEPT !.age = Min({@ + 1, CacheInterval})]]
  /\ UNCHANGED <<mode, quality, run, sent>>

NoPacket == [mode |-> "none", over |-> FALSE, onBest |-> FALSE, should |-> FALSE,
             stale |-> FALSE, burst |-> FALSE]

Init ==
  /\ mode \in {"classic", "enhanced"} /\ quality \in BOOLEAN
  /\ left = 0 /\ heard = {}
  /\ cache = [l \in Links |-> [mult |-> Default, age |-> CacheInterval]]
  /\ run = 0 /\ sent = NoPacket /\ promised = {}

Next ==
  \/ \E w \in Windows : Datagram(w)
  \/ ExtendTo
  \/ \E m \in {"classic", "enhanced"} : SetMode(m)
  \/ \E on \in BOOLEAN : SetQualityEnabled(on)
  \/ \E kind \in Kinds, full \in Sizes, view \in Views :
       \E now \in [Due(view) -> Qualities],
          choice \in IF Ranked(view) = {} THEN {None} ELSE Ranked(view) :
         HandleSrtPacket(kind, full, view, now, choice)
  \/ Elapse

Spec == Init /\ [][Next]_vars

-----------------------------------------------------------------------------
TypeOK ==
  /\ mode \in {"classic", "enhanced"} /\ quality \in BOOLEAN
  /\ cache \in [Links -> [mult : Qualities, age : 0..CacheInterval]]
  /\ heard \subseteq 0..Max(Windows) /\ left \in 0..Max(Windows)

\* In enhanced mode a packet is moved off the scheduler's choice only if it must
\* land, and then it is on the best link by the cache that is neither gated nor held
\* out; must-land are retransmits, and data while a window that the sidecar accepted
\* has time left, whatever shorter hints came after it.  Classic selection stands,
\* whatever multipliers a switch from enhanced left.
OverrideMeant ==
  IF sent.mode = "enhanced" THEN (sent.over => sent.should) /\ (sent.should => sent.onBest)
  ELSE ~sent.over

\* Where the override acts, enhanced selection has refreshed what it ranks: "classic
\* mode never consults the quality cache, which only enhanced selection refreshes".
RanksFresh == ~sent.stale

\* A burst of full-size packets goes to the best path: "When a keyframe burst is
\* detected (runs of consecutive max-MTU 1316-byte data packets), the scheduler
\* overrides normal selection".
BurstOverridden == sent.mode = "enhanced" /\ sent.burst => sent.onBest
=============================================================================
