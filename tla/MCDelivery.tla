----------------------------- MODULE MCDelivery -----------------------------
(***************************************************************************)
(* What the receiver sends back, for TLC: acknowledgements and loss        *)
(* reports against the packets in flight (Delivery), the lists they come   *)
(* in (LossList), keepalive echoes (Keepalive) and the floor under the     *)
(* round trips they measure (RttFloor).  A behaviour is of one scenario.   *)
(* "resend" has the bounds of the configuration; "recovery" and "startup"  *)
(* are Delivery under other bounds, on the same variables; "nak" is        *)
(* LossList; "sparse" and "dense" are RttFloor, with and without long      *)
(* pauses between samples; "echo" is Keepalive, in half-seconds.           *)
(* Whatever is not in play rests.                                          *)
(***************************************************************************)
EXTENDS Delivery

VARIABLES
  scenario,
  packet, entries, words, at, seq, end, out,  \* of LossList
  fast, slow, rttMin, recent,                 \* of RttFloor
  connected, lastKa, waiting, lastRtt, lastProof, inAir, sinceTick, missed, pings, upFor  \* of Keepalive

echo == <<connected, lastKa, waiting, lastRtt, lastProof, inAir, sinceTick, missed, pings, upFor>>
floor == <<fast, slow, rttMin, recent>>
nak == <<packet, entries, words, at, seq, end, out>>

Recovery == INSTANCE Delivery WITH
  BatchSizes <- {2}, MaxPackets <- 2, MaxResends <- 0, MaxResets <- 1, MaxHolds <- 1, MaxExpired <- 1

Startup == INSTANCE Delivery WITH
  MaxPackets <- 2, MaxResends <- 0, MaxResets <- 1, MaxExpired <- 1, UpAtStart <- {}

Nak == INSTANCE LossList WITH SeqSpace <- 4, MaxLossIds <- 5, MaxEntries <- 2, i <- at

Sparse == INSTANCE RttFloor WITH
  FastWindow <- 5, SlowWindow <- 12, MaxPlausible <- 4, Values <- 0..5, Gaps <- {0, 1, 3, 4, 7, 13}

Dense == INSTANCE RttFloor WITH
  FastWindow <- 5, SlowWindow <- 12, MaxPlausible <- 4, Values <- 0..5, Gaps <- 0..3

Echo == INSTANCE Keepalive WITH
  IdleTime <- 2, TickSlack <- 1, ProbeAfter <- 6, MaxPlausible <- 20, MinTick <- 1, MaxTick <- 3,
  MaxRtt <- 2, MaxLost <- 1, AgeCap <- 21, flight <- inAir, lost <- missed, sent <- pings, up <- upFor

ASSUME EchoBounds == Echo!TimesAssumption
ASSUME FloorBounds == Sparse!WindowsAssumption
ASSUME NakBounds == Nak!LossListAssumption

NoNak ==
  /\ packet = "other" /\ entries = <<>> /\ words = <<>> /\ at = 1
  /\ seq = Nak!None /\ end = Nak!None /\ out = <<>>

MCInit ==
  /\ Sparse!Init /\ Echo!Init
  /\ \/ scenario \in {"resend", "sparse", "dense", "echo"} /\ Init /\ NoNak
     \/ scenario = "recovery" /\ Recovery!Init /\ NoNak
     \/ scenario = "startup" /\ Startup!Init /\ NoNak
     \/ scenario = "nak" /\ Init /\ Nak!Init

MCNext ==
  /\ UNCHANGED scenario
  /\ \/ scenario = "resend" /\ Next /\ UNCHANGED <<nak, floor, echo>>
     \/ scenario = "recovery" /\ Recovery!Next /\ UNCHANGED <<nak, floor, echo>>
     \/ scenario = "startup" /\ Startup!Next /\ UNCHANGED <<nak, floor, echo>>
     \/ scenario = "nak" /\ Nak!Next /\ UNCHANGED <<vars, floor, echo>>
     \/ scenario = "sparse" /\ Sparse!Next /\ UNCHANGED <<vars, nak, echo>>
     \/ scenario = "dense" /\ Dense!Next /\ UNCHANGED <<vars, nak, echo>>
     \/ scenario = "echo" /\ Echo!Next /\ UNCHANGED <<vars, nak, floor>>

MCSpec == MCInit /\ [][MCNext]_<<scenario, vars, nak, floor, echo>>

\* parse_srt_nak and parse_srtla_ack read from a list, cut or spoilt, what the
\* receiver reported: see LossesMeant of LossList.
LossesMeant == Nak!LossesMeant

\* The sample a WindowedMin reports is at most a window old and no later one is lower;
\* while samples come densely, the floor of RttTracker lies below every sample of the
\* last half window: see FloorMeant and Remembered of RttFloor.
FloorMeant == Sparse!FloorMeant /\ (scenario = "dense" => Dense!Remembered)

\* A connected link gets one keepalive a tick, is measured again and again, and keeps
\* its delivery proof fresh: see EchoesKeepComing of Keepalive.
EchoesKeepComing == Echo!EchoesKeepComing
=============================================================================
