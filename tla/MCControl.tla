----------------------------- MODULE MCControl -----------------------------
(***************************************************************************)
(* The control plane for TLC.  A behaviour is of one scenario, and the     *)
(* variables of the others rest: "config" is two clients, the receiver and *)
(* the event loop at the runtime configuration; "push" is two connections  *)
(* and two publishers at a push channel of one event; "learn" is           *)
(* handshakes of up to two extension blocks, cut by up to three words;     *)
(* "drift" is three uplinks that reconnect while the receiver's name       *)
(* moves; "wake" is the loop and a reader at one socket, with three        *)
(* datagrams out and one in.                                               *)
(***************************************************************************)
EXTENDS SharedAtomics

VARIABLES
  scenario,
  nextId, entries, task, partial, chan, owned, pub, announced, pushed, torn,  \* of Push
  words, at, latency, declared                                                \* of Learn

push == <<nextId, entries, task, partial, chan, owned, pub, announced, pushed, torn>>
learn == <<words, at, latency, declared>>

Push == INSTANCE Subscriptions WITH
  Conns <- {"k1", "k2"}, Publishers <- {"stats", "links"}, TopicOf <- [p \in {"stats", "links"} |-> p],
  ChanCap <- 1, MaxIds <- 2

Learn == INSTANCE Handshake WITH
  Delays <- {<<0, 2>>, <<3, 1>>}, MaxBlocks <- 2, MaxCut <- 3

Sizes == [low |-> 1, normal |-> 2, high |-> 3]

ASSUME LearnBounds == Learn!HandshakeAssumption

MCNext ==
  \/ scenario = "config" /\ Next /\ UNCHANGED <<scenario, push, learn, drift, socket>>
  \/ scenario = "push" /\ Push!Next /\ UNCHANGED <<scenario, vars, learn, drift, socket>>
  \/ scenario = "learn" /\ Learn!Next /\ UNCHANGED <<scenario, vars, push, drift, socket>>
  \/ scenario = "drift" /\ Drift!Next /\ UNCHANGED <<scenario, vars, push, learn, socket>>
  \/ scenario = "wake" /\ Socket!Next /\ UNCHANGED <<scenario, vars, push, learn, drift>>

MCInit ==
  /\ scenario \in {"config", "push", "learn", "drift", "wake"}
  /\ Init /\ (scenario # "config" => cfg = [f \in Fields |-> IF f = "timeout" THEN TimeoutMin ELSE 0])
  /\ Push!Init /\ Learn!Init /\ Drift!Init /\ Socket!Init

MCSpec == MCInit /\ [][MCNext]_<<scenario, vars, push, learn, drift, socket>>

\* No subscription outlives its connection, no event comes before the reply with its
\* id, and none is lost without a cause: see SubscriptionsKept of Subscriptions.
SubscriptionsKept == Push!SubscriptionsKept

\* The latency in force is the one declared last: see LatencyMeant of Handshake.
LatencyMeant == Learn!LatencyMeant
=============================================================================
