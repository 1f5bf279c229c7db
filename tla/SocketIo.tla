------------------------------ MODULE SocketIo ------------------------------
(***************************************************************************)
(* One uplink's socket, from the batch queue to the wire and from the wire *)
(* to the uplink channel.  The event loop queues packets, drains the batch *)
(* and sends it with sendmmsg; a reader task takes batches with recvmmsg.  *)
(* Both wait on the readiness tokio keeps for the socket, which is edge    *)
(* triggered: the driver sets it on an event, a task clears it when the    *)
(* kernel says WouldBlock, and only if no event came in between.           *)
(*                                                                         *)
(* Outgoing datagrams and non-empty incoming ones are numbered; an empty   *)
(* datagram, and the empty packet that signals a receive error, are 0.     *)
(***************************************************************************)
EXTENDS Naturals, Sequences, FiniteSets, FiniteSetsExt, Functions

CONSTANTS
  BatchSize,    \* batch size by regime
  LowActivityThreshold, HighLoadThreshold, Bitrates,
  BatchSendSize, BatchRecvSize,   \* datagrams per system call
  SendBuf,      \* datagrams the kernel's send buffer holds
  MaxOut, MaxIn,                  \* bounds: datagrams in each direction
  MaxSignals, MaxErrors           \* bounds: interrupted and failed calls

Regimes == {"low", "normal", "high"}

SizesAssumption ==
  /\ \A r \in Regimes : BatchSize[r] \in 1..BatchSendSize
  /\ BatchRecvSize \in Nat \ {0} /\ SendBuf \in Nat \ {0, 1}

VARIABLES
  queue, regime,           \* BatchSender
  batch, sent, loop, wTick,  \* send_all_datagrams: its datagrams, progress, place, guard
  reader, rTick, slots, nrecv,  \* the reader: its place, guard and RecvMmsgBuffer
  delivered,               \* packets put in the uplink channel
  ready, tick, edge,       \* AsyncFd: readiness, its tick, an event not yet seen
  kbuf, rxBuf,             \* the kernel's buffers
  signals, errors,         \* so far
  queued,                  \* history: datagrams queued so far
  wire,                    \* history: datagrams the kernel accepted
  dropped,                 \* history: what failed flushes said they had not sent
  arrived                  \* history: datagrams that came in

sendVars == <<queue, regime, batch, sent, loop, wTick, queued, wire, dropped>>
readVars == <<reader, rTick, slots, nrecv, delivered>>
fdVars == <<ready, tick, edge>>
vars == <<sendVars, readVars, fdVars, kbuf, rxBuf, signals, errors, arrived>>

-----------------------------------------------------------------------------
(* The batch queue, from the event loop *)

Rest == SubSeq(batch, sent + 1, Len(batch))

StartFlush(q) ==
  /\ batch' = q /\ sent' = 0
  /\ queue' = <<>>
  /\ loop' = "await"

EndFlush ==
  /\ batch' = <<>> /\ sent' = 0
  /\ loop' = "idle"

Full(q) == Len(q) >= BatchSize[regime]

QueuePacket ==
  /\ loop = "idle"
  /\ queued < MaxOut
  /\ queued' = queued + 1
  /\ LET q == Append(queue, queued')
     IN  IF Full(q) THEN StartFlush(q) ELSE queue' = q /\ UNCHANGED <<batch, sent, loop>>
  /\ UNCHANGED <<regime, wTick, wire, dropped, readVars, fdVars, kbuf, rxBuf, signals, errors, arrived>>

FlushTimer ==
  /\ loop = "idle"
  /\ queue # <<>>
  /\ StartFlush(queue)
  /\ UNCHANGED <<regime, wTick, queued, wire, dropped, readVars, fdVars, kbuf, rxBuf, signals, errors, arrived>>

FromBps(bps) ==
  IF bps > HighLoadThreshold THEN "high"
  ELSE IF bps <= LowActivityThreshold THEN "low" ELSE "normal"

\* Housekeeping picks the regime from the link's bitrate.
RecomputeBatchRegime(bps) ==
  /\ loop = "idle"
  /\ regime' = FromBps(bps)
  /\ UNCHANGED <<queue, batch, sent, loop, wTick, queued, wire, dropped, readVars, fdVars,
                 kbuf, rxBuf, signals, errors, arrived>>

-----------------------------------------------------------------------------
(* send_all_datagrams and send_batch *)

AwaitWritable ==
  /\ loop = "await"
  /\ "w" \in ready
  /\ loop' = "call"
  /\ wTick' = tick
  /\ UNCHANGED <<queue, regime, batch, sent, queued, wire, dropped, readVars, fdVars,
                 kbuf, rxBuf, signals, errors, arrived>>

\* What is offered counts as sent, also when the kernel took less.
AdvanceOffered(n) == sent + Min({Len(Rest), BatchSendSize})
Advance(n) == sent + n

\* sendmmsg takes some of what is offered, at most what fits.
SendMmsg ==
  /\ loop = "call"
  /\ \E n \in 1..Min({Len(Rest), BatchSendSize, SendBuf - kbuf}) :
       /\ wire' = wire \o SubSeq(Rest, 1, n)
       /\ kbuf' = kbuf + n
       /\ IF Advance(n) < Len(batch)
          THEN sent' = Advance(n) /\ loop' = "await" /\ UNCHANGED batch
          ELSE EndFlush
  /\ UNCHANGED <<queue, regime, wTick, queued, dropped, readVars, fdVars, rxBuf, signals, errors, arrived>>

SendWouldBlock ==
  /\ loop = "call"
  /\ kbuf = SendBuf
  /\ loop' = "clear"
  /\ UNCHANGED <<queue, regime, batch, sent, wTick, queued, wire, dropped, readVars, fdVars,
                 kbuf, rxBuf, signals, errors, arrived>>

\* Where the loop goes after EINTR.
SendRetryClearing == "clear"
SendRetry == "await"

SendInterrupted ==
  /\ loop = "call"
  /\ signals < MaxSignals
  /\ signals' = signals + 1
  /\ loop' = SendRetry
  /\ UNCHANGED <<queue, regime, batch, sent, wTick, queued, wire, dropped, readVars, fdVars,
                 kbuf, rxBuf, errors, arrived>>

\* Any other error, or nothing accepted: the flush ends and reports how far it
\* got; recovery empties the queue, which the flush had drained already.
SendFails ==
  /\ loop = "call"
  /\ errors < MaxErrors
  /\ errors' = errors + 1
  /\ dropped' = dropped \union Range(Rest)
  /\ EndFlush
  /\ UNCHANGED <<queue, regime, wTick, queued, wire, readVars, fdVars, kbuf, rxBuf, signals, arrived>>

\* guard.clear_ready: nothing is cleared when an event came after the guard.
Cleared(bit, seen) == IF tick = seen THEN ready \ {bit} ELSE ready

SendClears ==
  /\ loop = "clear"
  /\ ready' = Cleared("w", wTick)
  /\ loop' = "await"
  /\ UNCHANGED <<queue, regime, batch, sent, wTick, queued, wire, dropped, readVars, tick, edge,
                 kbuf, rxBuf, signals, errors, arrived>>

-----------------------------------------------------------------------------
(* The reader task: spawn_reader, poll_recv_batch and recvmmsg *)

AwaitReadable ==
  /\ reader = "await"
  /\ "r" \in ready
  /\ reader' = "call"
  /\ rTick' = tick
  /\ UNCHANGED <<slots, nrecv, delivered, sendVars, fdVars, kbuf, rxBuf, signals, errors, arrived>>

NonEmpty(ds) == SelectSeq(ds, LAMBDA d : d # 0)

\* The packets an iteration over the buffer yields, empty ones left out.
Iter(ss, n) == NonEmpty([i \in 1..n |-> ss[i]])

RecvMmsg ==
  /\ reader = "call"
  /\ rxBuf # <<>>
  /\ LET n == Min({Len(rxBuf), BatchRecvSize})
     IN  /\ slots' = [i \in 1..BatchRecvSize |-> IF i <= n THEN rxBuf[i] ELSE slots[i]]
         /\ nrecv' = n
         /\ rxBuf' = SubSeq(rxBuf, n + 1, Len(rxBuf))
         /\ delivered' = delivered \o Iter(slots', n)
  /\ reader' = "await"
  /\ UNCHANGED <<rTick, sendVars, fdVars, kbuf, signals, errors, arrived>>

RecvWouldBlock ==
  /\ reader = "call"
  /\ rxBuf = <<>>
  /\ nrecv' = 0
  /\ reader' = "clear"
  /\ UNCHANGED <<rTick, slots, delivered, sendVars, fdVars, kbuf, rxBuf, signals, errors, arrived>>

\* recv_retry_action for an interrupted call.
RecvRetryAction == "await"

RecvInterrupted ==
  /\ reader = "call"
  /\ signals < MaxSignals
  /\ signals' = signals + 1
  /\ nrecv' = 0
  /\ reader' = RecvRetryAction
  /\ UNCHANGED <<rTick, slots, delivered, sendVars, fdVars, kbuf, rxBuf, errors, arrived>>

\* A hard error is signalled with an empty packet; the reader pauses and goes on.
RecvFails ==
  /\ reader = "call"
  /\ errors < MaxErrors
  /\ errors' = errors + 1
  /\ nrecv' = 0
  /\ delivered' = Append(delivered, 0)
  /\ reader' = "await"
  /\ UNCHANGED <<rTick, slots, sendVars, fdVars, kbuf, rxBuf, signals, arrived>>

RecvClears ==
  /\ reader = "clear"
  /\ ready' = Cleared("r", rTick)
  /\ reader' = "await"
  /\ UNCHANGED <<rTick, slots, nrecv, delivered, sendVars, tick, edge, kbuf, rxBuf, signals, errors, arrived>>

-----------------------------------------------------------------------------
(* The kernel and tokio's I/O driver *)

\* The network takes a datagram; the kernel signals once half the buffer is free.
Transmit ==
  /\ kbuf > 0
  /\ kbuf' = kbuf - 1
  /\ edge' = (edge \/ 2 * kbuf' <= SendBuf)
  /\ UNCHANGED <<sendVars, readVars, ready, tick, rxBuf, signals, errors, arrived>>

Arrive(d) ==
  /\ Len(arrived) < MaxIn
  /\ arrived' = Append(arrived, d)
  /\ rxBuf' = Append(rxBuf, d)
  /\ edge' = TRUE
  /\ UNCHANGED <<sendVars, readVars, ready, tick, kbuf, signals, errors>>

Driver ==
  /\ edge
  /\ edge' = FALSE
  /\ tick' = tick + 1
  /\ ready' = ready \union (IF rxBuf # <<>> THEN {"r"} ELSE {})
                    \union (IF 2 * kbuf < SendBuf THEN {"w"} ELSE {})
  /\ UNCHANGED <<sendVars, readVars, kbuf, rxBuf, signals, errors, arrived>>

\* Registering the socket counts as an event.
Init ==
  /\ queue = <<>> /\ regime = "normal"
  /\ batch = <<>> /\ sent = 0 /\ loop = "idle" /\ wTick = 0
  /\ reader = "await" /\ rTick = 0 /\ slots = [i \in 1..BatchRecvSize |-> 0] /\ nrecv = 0
  /\ delivered = <<>>
  /\ ready = {} /\ tick = 0 /\ edge = TRUE
  /\ kbuf = 0 /\ rxBuf = <<>>
  /\ signals = 0 /\ errors = 0
  /\ queued = 0 /\ wire = <<>> /\ dropped = {} /\ arrived = <<>>

Next ==
  \/ QueuePacket \/ FlushTimer
  \/ \E bps \in Bitrates : RecomputeBatchRegime(bps)
  \/ AwaitWritable \/ SendMmsg \/ SendWouldBlock \/ SendInterrupted \/ SendFails \/ SendClears
  \/ AwaitReadable \/ RecvMmsg \/ RecvWouldBlock \/ RecvInterrupted \/ RecvFails \/ RecvClears
  \/ Transmit
  \/ \E d \in {0, Len(arrived) + 1} : Arrive(d)
  \/ Driver

Spec == Init /\ [][Next]_vars

-----------------------------------------------------------------------------
TypeOK ==
  /\ regime \in Regimes
  /\ sent \in 0..Len(batch)
  /\ loop \in {"idle", "await", "call", "clear"}
  /\ reader \in {"await", "call", "clear"}
  /\ ready \subseteq {"r", "w"} /\ edge \in BOOLEAN
  /\ kbuf \in 0..SendBuf
  /\ nrecv \in 0..BatchRecvSize

\* Through short sends, interrupts and errors every datagram taken from the queue
\* is on the wire once and in order, still to be sent, or named by a failed flush
\* as not sent ("the caller never has to claim a whole batch was delivered when
\* only a prefix of it was").  Whatever the regime does between packets, a drain
\* never exceeds what a flush is sized for.  On the other side the channel gets every
\* datagram that came in at most once and in order, and nothing a slot of the receive
\* buffer still holds from an earlier call.
Accounted ==
  /\ \A i \in 1..Len(wire) - 1 : wire[i] < wire[i + 1]
  /\ Range(wire) \union dropped \union Range(Rest) \union Range(queue) = 1..queued
  /\ Len(wire) + Cardinality(dropped) + Len(Rest) + Len(queue) = queued
  /\ Len(queue) < BatchSendSize /\ Len(batch) <= BatchSendSize
  /\ \E n \in 0..Len(NonEmpty(arrived)) : NonEmpty(delivered) = SubSeq(NonEmpty(arrived), 1, n)

\* No wakeup is lost: a flush that waits for the socket finds it ready, or an event
\* is on its way, or the buffer is still to drain and will signal; and a reader
\* waits beside a datagram only while an event is on its way.  An event between
\* WouldBlock and clear_ready keeps the readiness, and an interrupt does not clear it.
NoLostWakeup ==
  /\ loop = "await" => "w" \in ready \/ edge \/ kbuf > 0
  /\ reader = "await" /\ rxBuf # <<>> => "r" \in ready \/ edge

=============================================================================
