------------------------------ MODULE RttFloor ------------------------------
(***************************************************************************)
(* The propagation floor of a link: WindowedMin keeps three samples from   *)
(* successive parts of a window of time instead of all of them, and        *)
(* RttTracker takes the lower of a fast and a slow one.                    *)
(*                                                                         *)
(* A sample is kept with its age at the latest update.  Round trips that   *)
(* are zero or too long never get here (record_round_trip).                *)
(***************************************************************************)
EXTENDS Naturals, Sequences, FiniteSets, FiniteSetsExt

CONSTANTS
  FastWindow, SlowWindow,   \* FAST_WINDOW_MS, SLOW_WINDOW_MS
  MaxPlausible,             \* MAX_PLAUSIBLE_RTT_MS
  Values,                   \* round trips
  Gaps                      \* times between samples

WindowsAssumption == 0 < FastWindow /\ FastWindow < SlowWindow

VARIABLES
  fast, slow,    \* the windows: <<>> before the first sample, else three samples
  rttMin,        \* rtt_min_ms, 0 before the first sample
  recent         \* history: the latest sample of each value in the last slow window

vars == <<fast, slow, rttMin, recent>>

-----------------------------------------------------------------------------
(* WindowedMin::update *)

Sample(v) == [age |-> 0, v |-> v]

Aged(s, gap) == [i \in DOMAIN s |-> [s[i] EXCEPT !.age = @ + gap]]

\* A lower or equal sample starts over, and so does one after a long silence.
Restarts(s, win, v) == s = <<>> \/ v <= s[1].v \/ s[3].age > win

\* The runners-up take a sample that beats them.
RunnersUp(s, v) ==
  IF v <= s[2].v THEN <<s[1], Sample(v), Sample(v)>>
  ELSE IF v <= s[3].v THEN <<s[1], s[2], Sample(v)>>
  ELSE s

\* The second best may have expired too.
PromoteOnce(s, win, v) == <<s[2], s[3], Sample(v)>>
Promote(s, win, v) ==
  IF s[2].age > win THEN <<s[3], Sample(v), Sample(v)>> ELSE <<s[2], s[3], Sample(v)>>

\* A sub-window without a new runner-up gives its last sample.
Refresh(s, win, v) ==
  IF s[1].age > win THEN Promote(s, win, v)
  ELSE IF s[2].age = s[1].age /\ s[1].age > win \div 4 THEN <<s[1], Sample(v), Sample(v)>>
  ELSE IF s[3].age = s[2].age /\ s[1].age > win \div 2 THEN <<s[1], s[2], Sample(v)>>
  ELSE s

WindowUpdate(s, win, v) ==
  IF Restarts(s, win, v)
  THEN <<Sample(v), Sample(v), Sample(v)>>
  ELSE Refresh(RunnersUp(s, v), win, v)

-----------------------------------------------------------------------------
(* RttTracker *)

Plausible(rtt) == rtt # 0 /\ rtt <= MaxPlausible

Baseline(f, s) == Min({f[1].v, s[1].v})

\* record_round_trip and update_estimate, gap after the last sample; before the
\* first one the windows are empty and both give it back.
RecordRoundTrip(rtt, gap) ==
  /\ IF Plausible(rtt)
     THEN /\ fast' = WindowUpdate(Aged(fast, gap), FastWindow, rtt)
          /\ slow' = WindowUpdate(Aged(slow, gap), SlowWindow, rtt)
          /\ rttMin' = Baseline(fast', slow')
          /\ recent' = {Sample(rtt)} \union
               {[r EXCEPT !.age = @ + gap] : r \in {q \in recent : q.v # rtt /\ q.age + gap <= SlowWindow}}
     ELSE UNCHANGED vars

Reset ==
  /\ fast' = <<>> /\ slow' = <<>> /\ rttMin' = 0
  /\ recent' = {}

Init == fast = <<>> /\ slow = <<>> /\ rttMin = 0 /\ recent = {}

Next == Reset \/ \E rtt \in Values, gap \in Gaps : RecordRoundTrip(rtt, gap)

Spec == Init /\ [][Next]_vars

-----------------------------------------------------------------------------
TypeOK ==
  /\ \A s \in {fast, slow} : s = <<>> \/ (Len(s) = 3 /\ \A i \in 1..3 : Plausible(s[i].v))
  /\ rttMin \in 0..MaxPlausible

Windows == {<<fast, FastWindow>>, <<slow, SlowWindow>>}

\* After an update the reported sample is at most one window old ("It never
\* reports a sample more than one window older than the latest update"), also
\* when samples are sparse and several of the three expire at once; and no sample
\* after it was lower: three samples do for all of them.
FloorMeant ==
  \A w \in Windows : w[1] # <<>> =>
    /\ w[1][1].age <= w[2]
    /\ \A r \in recent : r.age < w[1][1].age => r.v >= w[1][1].v

\* The floor is remembered: unless sampling pauses for more than a quarter of the
\* window, it lies below every sample of the last half window ("the next best may
\* come from a later sub-window and sit slightly above the true windowed minimum").
Remembered ==
  \A r \in recent : r.age <= SlowWindow \div 2 /\ slow # <<>> => rttMin <= r.v
=============================================================================
