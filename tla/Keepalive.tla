----------------------------- MODULE Keepalive -----------------------------
(***************************************************************************)
(* Keepalives on one link: what housekeeping sends, the round-trip         *)
(* measurement a keepalive may arm, and what an echo does.  Time is        *)
(* discrete; stamps are ages, AgeCap standing for every larger one and     *)
(* None for a stamp that is not set.                                       *)
(***************************************************************************)
EXTENDS Naturals

CONSTANTS
  IdleTime, TickSlack,   \* IDLE_TIME, TICK_SLACK_MS
  ProbeAfter,            \* 3000 ms
  MaxPlausible,          \* MAX_PLAUSIBLE_RTT_MS
  MinTick, MaxTick,      \* times between the ticks the event loop services
  MaxRtt,                \* bound: how long an echo takes
  MaxLost,               \* bound: echoes lost or unusable before one is measured
  AgeCap                 \* bound on ages

None == AgeCap + 1
Ages == 0..AgeCap

TimesAssumption ==
  /\ IdleTime <= MinTick + TickSlack
  /\ MaxRtt <= MaxPlausible
  /\ AgeCap > ProbeAfter + (MaxLost + 3) * MaxTick + MaxRtt

VARIABLES
  connected,
  lastKa,      \* last_keepalive_sent
  waiting,     \* waiting_for_keepalive_response
  lastRtt,     \* last_rtt_measurement_ms
  lastProof,   \* last_ack_or_rtt_sample_ms
  flight,      \* keepalives whose echo is under way, by age
  sinceTick,
  lost,        \* echoes lost or unusable since one was measured
  sent,        \* history: keepalives the last tick sent
  up           \* history: time since REG3, zero while not connected

vars == <<connected, lastKa, waiting, lastRtt, lastProof, flight, sinceTick, lost, sent, up>>

Older(a) == IF a >= AgeCap THEN a ELSE a + 1

-----------------------------------------------------------------------------
(* handle_housekeeping *)

NeedsKeepalive == connected /\ (lastKa = None \/ lastKa + TickSlack >= IdleTime)

\* Only a link without any measurement is measured.
MeasureDueOnce == lastRtt = None
MeasureDue == lastRtt = None \/ lastRtt > ProbeAfter

NeedsRttMeasurement(w) == connected /\ ~w /\ MeasureDue

\* Both reasons to send are looked at, the second after the first has armed a
\* measurement or has not (keepalive_packet).
Tick ==
  /\ sinceTick \in MinTick..MaxTick
  /\ LET one == NeedsKeepalive
         w1 == waiting \/ (one /\ MeasureDue)
         two == NeedsRttMeasurement(w1)
     IN  /\ waiting' = (w1 \/ two)
         /\ lastKa' = IF one \/ two THEN 0 ELSE lastKa
         /\ flight' = IF one \/ two THEN flight \union {0} ELSE flight
         /\ sent' = (IF one THEN 1 ELSE 0) + (IF two THEN 1 ELSE 0)
  /\ sinceTick' = 0
  /\ UNCHANGED <<connected, lastRtt, lastProof, lost, up>>

-----------------------------------------------------------------------------
(* What comes in *)

Plausible(rtt) == rtt # 0 /\ rtt <= MaxPlausible

ProofAfter(rtt) == IF Plausible(rtt) THEN 0 ELSE lastProof

\* handle_keepalive_echo: a round trip only if armed, proof always.  A bare or
\* malformed echo has no round trip, like one within the millisecond; neither
\* tells more than a lost one.
HandleKeepaliveEcho(age, bare) ==
  LET rtt == IF bare THEN 0 ELSE age
  IN  /\ flight' = flight \ {age}
      /\ lastProof' = ProofAfter(rtt)
      /\ IF waiting /\ Plausible(rtt)
         THEN lastRtt' = 0 /\ lost' = 0
         ELSE lastRtt' = lastRtt /\ lost' = IF Plausible(rtt) THEN lost ELSE lost + 1
      /\ lost' <= MaxLost
      /\ waiting' = FALSE
      /\ UNCHANGED <<connected, lastKa, sinceTick, sent, up>>

\* An ACK of a packet this link sent.  The receiver's own per-packet ACK is proof;
\* both kinds are a measurement if their round trip is plausible.
EarnedAck(rtt, srtla) ==
  /\ lastProof' = IF srtla THEN 0 ELSE lastProof
  /\ lastRtt' = IF Plausible(rtt) THEN 0 ELSE lastRtt
  /\ UNCHANGED <<connected, lastKa, waiting, flight, sinceTick, lost, sent, up>>

Lose(age) ==
  /\ lost < MaxLost
  /\ flight' = flight \ {age}
  /\ lost' = lost + 1
  /\ UNCHANGED <<connected, lastKa, waiting, lastRtt, lastProof, sinceTick, sent, up>>

-----------------------------------------------------------------------------
(* Losing and regaining the link *)

MarkForRecovery ==
  /\ connected' = FALSE
  /\ lastKa' = None /\ waiting' = FALSE
  /\ lastProof' = None /\ up' = 0
  /\ UNCHANGED <<lastRtt, flight, sinceTick, lost, sent>>

\* The socket is replaced: echoes to the old one are gone.
ResetForReconnect ==
  /\ connected' = FALSE
  /\ waiting' = FALSE /\ lastRtt' = None /\ lastProof' = None
  /\ flight' = {} /\ lost' = 0 /\ up' = 0
  /\ UNCHANGED <<lastKa, sinceTick, sent>>

Reg3 ==
  /\ ~connected
  /\ connected' = TRUE
  /\ UNCHANGED <<lastKa, waiting, lastRtt, lastProof, flight, sinceTick, lost, sent, up>>

\* REG_ERR leaves everything but the connection itself.
RegErr ==
  /\ connected' = FALSE /\ up' = 0
  /\ UNCHANGED <<lastKa, waiting, lastRtt, lastProof, flight, sinceTick, lost, sent>>

Elapse ==
  /\ sinceTick < MaxTick
  /\ \A a \in flight : a < MaxRtt
  /\ sinceTick' = sinceTick + 1
  /\ lastKa' = Older(lastKa) /\ lastRtt' = Older(lastRtt) /\ lastProof' = Older(lastProof)
  /\ flight' = {Older(a) : a \in flight}
  /\ up' = IF connected THEN Older(up) ELSE 0
  /\ UNCHANGED <<connected, waiting, lost, sent>>

Init ==
  /\ connected = FALSE
  /\ lastKa = None /\ waiting = FALSE /\ lastRtt = None /\ lastProof = None
  /\ flight = {} /\ sinceTick = 0 /\ lost = 0 /\ sent = 0 /\ up = 0

Next ==
  \/ Tick \/ Elapse
  \/ \E rtt \in {0, 1}, srtla \in BOOLEAN : EarnedAck(rtt, srtla)
  \/ \E age \in flight : Lose(age) \/ \E bare \in BOOLEAN : HandleKeepaliveEcho(age, bare)
  \/ MarkForRecovery \/ ResetForReconnect \/ Reg3 \/ RegErr

Spec == Init /\ [][Next]_vars

-----------------------------------------------------------------------------
\* The types, and: no recovery leaves a link waiting for the echo of a keepalive it
\* has forgotten (mark_for_recovery, reset_for_reconnect).
TypeOK ==
  /\ connected \in BOOLEAN /\ waiting \in BOOLEAN
  /\ {lastKa, lastRtt, lastProof} \subseteq Ages \union {None}
  /\ flight \subseteq 0..MaxRtt
  /\ sinceTick \in 0..MaxTick
  /\ waiting => lastKa # None

\* A connected link is measured again and again: neither a lost echo of the armed
\* keepalive nor a recovery in between leaves the tracker waiting for good ("leaves
\* the smoothed RTT frozen on any path where it is the only probe").  And while its
\* echoes come back its delivery proof stays fresh, whether or not measurements are
\* armed, which is what a gated link rejoins on.
Regular ==
  LET proven == (MaxLost + 1) * MaxTick + MaxRtt
      measured == ProbeAfter + 1 + (MaxLost + 2) * MaxTick + MaxRtt
  IN  connected => /\ up <= measured \/ lastRtt <= measured
                   /\ up <= proven \/ lastProof <= proven

\* That holds after every step, and a tick sends exactly one keepalive on a connected
\* link: none slips to the next tick although ticks are serviced early and late ("A
\* keepalive that slips a tick leaves a 2 s gap in the echoes"), and a due measurement
\* adds no second one.
EchoesKeepComing ==
  [][Regular' /\ (sinceTick' = 0 /\ sinceTick # 0 /\ connected => sent' = 1)]_vars
=============================================================================
