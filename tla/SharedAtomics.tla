--------------------------- MODULE SharedAtomics ---------------------------
(***************************************************************************)
(* What the threads and tasks of the process share without a lock: the     *)
(* runtime configuration, one atomic per field (Control), the slot of the  *)
(* DNS-drift warning (Drift), and the readiness of a socket, which the     *)
(* event loop and a reader task both wait for (Socket).                    *)
(***************************************************************************)
EXTENDS Control

CONSTANTS
  Tasks, Interval, Pinned, Addrs, MaxTime,   \* of Drift
  BatchSize, LowActivityThreshold, HighLoadThreshold, Bitrates, BatchSendSize, BatchRecvSize,
  SendBuf, MaxOut, MaxIn, MaxSignals, MaxErrors   \* of Socket

VARIABLES
  clock, last, check, claims, warned,
  queue, regime, batch, sent, loop, wTick, reader, rTick, slots, nrecv, delivered,
  ready, tick, edge, kbuf, rxBuf, signals, errors, queued, wire, dropped, arrived

drift == <<clock, last, check, claims, warned>>

socket ==
  <<queue, regime, batch, sent, loop, wTick, reader, rTick, slots, nrecv, delivered,
    ready, tick, edge, kbuf, rxBuf, signals, errors, queued, wire, dropped, arrived>>

Drift == INSTANCE DnsDrift WITH task <- check
Socket == INSTANCE SocketIo

ASSUME DriftAssumption == Drift!IntervalAssumption
ASSUME SocketAssumption == Socket!SizesAssumption

\* Claims of the warning slot are an interval apart, and the first drift speaks up: see
\* ClaimsMeant of DnsDrift.
ClaimsMeant == Drift!ClaimsMeant

\* Nobody waits for an event that is not to come: see NoLostWakeup of SocketIo.
NoLostWakeup == Socket!NoLostWakeup
=============================================================================
