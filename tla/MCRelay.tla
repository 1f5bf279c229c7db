------------------------------ MODULE MCRelay ------------------------------
(***************************************************************************)
(* The paths of datagrams at the sockets, for TLC.  A behaviour is of one  *)
(* scenario, and the variables of the other component rest.  In "acks" and *)
(* "repeats" copies of three ACKs, or of an ACK and a NAK that is sent     *)
(* twice, come over two uplinks, one up to a whole period later than the   *)
(* other, to a ring of two slots for ACKs and one of one for NAKs.  In     *)
(* "send" and "recv" six datagrams go out and three come in, with one      *)
(* interrupt and one error, a send buffer that holds two datagrams and     *)
(* receive calls that take two.                                            *)
(***************************************************************************)
EXTENDS ClientDedup, TLC

VARIABLES
  scenario,
  outq, regime, batch, sent, loop, wTick, reader, rTick, slots, nrecv, delivered,
  ready, tick, edge, kbuf, rxBuf, signals, errors, queued, wire, dropped, arrived

socket ==
  <<outq, regime, batch, sent, loop, wTick, reader, rTick, slots, nrecv, delivered,
    ready, tick, edge, kbuf, rxBuf, signals, errors, queued, wire, dropped, arrived>>

Sizes == [low |-> 1, normal |-> 2, high |-> 3]

Send == INSTANCE SocketIo WITH
  BatchSize <- Sizes, LowActivityThreshold <- 1, HighLoadThreshold <- 2, Bitrates <- {1, 2, 3},
  BatchSendSize <- 3, BatchRecvSize <- 2, SendBuf <- 2, MaxOut <- 6, MaxIn <- 0,
  MaxSignals <- 1, MaxErrors <- 1, queue <- outq

Recv == INSTANCE SocketIo WITH
  BatchSize <- Sizes, LowActivityThreshold <- 1, HighLoadThreshold <- 2, Bitrates <- {1, 2, 3},
  BatchSendSize <- 3, BatchRecvSize <- 2, SendBuf <- 2, MaxOut <- 0, MaxIn <- 3,
  MaxSignals <- 1, MaxErrors <- 1, queue <- outq

ASSUME SocketBounds == Send!SizesAssumption

OnlyAcks == \A p \in Naks : round[p] = 0
OneAck == \A p, q \in Acks : round[p] > 0 /\ round[q] > 0 => p = q

\* The ACKs are alike, and so are the uplinks; no property here is one of liveness.
Alike == Permutations(Acks) \union Permutations(Links)

MCNext ==
  \/ scenario = "acks" /\ Next /\ OnlyAcks' /\ UNCHANGED <<scenario, socket>>
  \/ scenario = "repeats" /\ Next /\ OneAck' /\ UNCHANGED <<scenario, socket>>
  \/ scenario = "send" /\ Send!Next /\ UNCHANGED <<scenario, vars>>
  \/ scenario = "recv" /\ Recv!Next /\ UNCHANGED <<scenario, vars>>

MCInit ==
  /\ scenario \in {"acks", "repeats", "send", "recv"}
  /\ Init /\ Send!Init

MCSpec == MCInit /\ [][MCNext]_<<scenario, vars, socket>>

\* Every datagram is on the wire once, waiting, or named lost, and what came in is
\* delivered at most once and in order: see Accounted of SocketIo.
Accounted == Send!Accounted
=============================================================================
