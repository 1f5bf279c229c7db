# Formal verification of srtla_send

TLA+ specifications of the SRTLA bonding sender, model-checked with TLC and, for
the invariants that matter most, proved with TLAPS for every number of uplinks
and every value of the timeouts and sizes.

## The system

`srtla_send` takes the packets of a local SRT client and spreads them over
several uplinks to one SRTLA receiver. One event-loop task (`sender/mod.rs`)
handles, one at a time and in any order: a packet of the client, a packet that a
reader task received on an uplink, the 1 s housekeeping tick, the 15 ms flush
timer and the signals. A handler is therefore atomic, and the concurrency is
between handlers, the network and the receiver.

| Part | State | Operations | What is hard |
|---|---|---|---|
| Registration manager (`registration/`) | ids, probing state, REG1 target, pending slot and deadline, REG3 grants, active count | REG_NGP, REG2, REG3, REG_ERR, driver, probing, timeout, re-home | answers late, lost, duplicated; a count that is stale between ticks; one slot for all uplinks |
| Housekeeping, reconnection, re-home | retry pacing, grace, all-failed timer, re-home gate | tick | a retry races a late answer; a dead uplink must not starve a live one |
| Packet handler, in-flight accounting | batch queue, packet log, probe log, highest ACK | forward, probe, flush, SRT ACK, SRTLA ACK, NAK | partial sends, wrapping numbers, ACKs out of order |
| Sequence tracker (`sender/sequence.rs`) | ring of owners | insert, get, remove | collisions, expiry, entries that outlive a reset |
| Stall gate, selection, classifier, link congestion control | latches, windows, scores | per packet and per tick | hysteresis over long histories |
| Reload (SIGHUP) | list of uplinks | apply changes | indices held elsewhere shift |
| Client deduplication, critical window, subscriptions | ring, atomics, channels | forward, extend, publish | eviction, concurrent writers, full channels |

`PROJECT.json` lists every component, also those left out, and every hazard with
the line where it bites.

## Modules

`MC` modules instantiate components for TLC (see Runs); the theorems about a
module `X` are in `XProofs`. Two modules put components side by side so that a run
and the proofs speak of the same instance: `SharedAtomics` (`Control`, with
`DnsDrift` and `SocketIo` as instances; theorems in `ControlProofs`) and `LinkRating`
(`LinkCc`, with `Classifier` as an instance; theorems in `LinkCcProofs`).

The bond and its packets:

- `Registration`: the manager (`reg`), the uplinks (`conns`), the messages and
  the receiver. Each handler of `uplink_recv.rs` and the whole of
  `handle_housekeeping` is one action; time advances by one tick per
  housekeeping step, and stamps are kept as ages up to their timeout.
- `Uplinks`: the list of uplinks with what is keyed by connection id (I/O,
  readers) and what is kept by position (last selection, REG3 grants). SIGHUP,
  reconnects, re-homes and reader restarts, with packets of replaced sockets
  still in the channel. Which uplinks are due is chosen freely; `Registration`
  has the timers.
- `SrtSeq`: the serial arithmetic of `seq.rs` over a space of `2 * SeqHalf`
  numbers, in linear form so that it can be used in proofs.
- `Delivery`: queues, logs and tracker with the handlers of `packet_handler.rs`.
  Which eligible uplink the scheduler picks, when an uplink is held out and how
  much of a batch a socket accepts are left open. `ghost` is history that no
  action reads: what each uplink carried, put on the wire and was charged with
  since its last reset.
- `SocketIo`: batch queue and regime, `sendmmsg` and `recvmmsg` under tokio's
  edge-triggered readiness, with short sends, interrupts and errors.
- `DnsDrift`: detached tasks that race for the slot of the drift warning.

The scheduler:

- `StallGate`: silence pull, stall latch, rejoin dwell and backoff, and the gate
  each pass recomputes.
- `Selection`: the gates of a pass, the sole-carrier election, share ramps,
  hysteresis and the switch of modes.
- `BestPath`: critical window, quality cache and the override of the scheduler's
  choice for packets that must land.
- `LinkHealth`: congestion window, NAK bursts, cached quality and phase.
- `Classifier`: the weak-link filter, with its re-tests and delay tiers.
- `LinkCc`: the soft cap of a link, the test whether backing off helps, and the
  loss verdict.
- `RttFloor`: the windowed minimum, against the history of all samples.
- `Keepalive`: what housekeeping sends, what an echo measures and proves.

The client side, the control plane and the wire:

- `ClientDedup`: the relay of ACKs and NAKs to the SRT client. `RelayLog` is
  what it promises, without ring buffers. `Log` instantiates `RelayLog` with each
  ring unrolled from its newest entry, and `RelaysAsLog` is the refinement.
- `Subscriptions`: hub, bounded push channels, handler tasks, publishers.
- `Control`: the configuration with its writers in several threads, and the
  snapshots the event loop and `get_status` load field by field.
- `LossList`, `Handshake`: the two parsers that loop over a list, word by word.

How they fit. `Delivery` lets a REG3 reach only an uplink that is not connected,
which `GrantsOnlyDisconnected` proves of `Registration`, where the list of uplinks
does not change. In `Uplinks` it does, and there `GrantsKept` checks that a registered
link comes by a grant only where a reload moves it to another's position; that this
can happen is the finding `reload_grants`, and `Delivery` does not have it. `Delivery` leaves the choice of an uplink
open, so what it shows holds for any pass of `StallGate`, `Selection` and
`BestPath`. `StallGate` takes the proof that `Keepalive` (`EchoesKeepComing`) shows to
keep coming. `Delivery` lets any prefix of a batch leave, which is what `SocketIo`
(`Accounted`) gives.

Abstractions. In `Registration` an answer is decided when it is handled rather
than when it is sent, so an answer from before a restart of the receiver is not
told apart; `has_connected` is left out; a send on an unplugged interface may
fail or not; the number of uplinks is fixed (`Uplinks` varies it). In `Delivery`
a lost packet or ACK is one that never arrives; SRT control packets, which are
queued untracked, are left out. Windows, RTT samples and keepalive echoes are in
`LinkHealth`, `RttFloor` and `Keepalive`, so the `stamps` of `Delivery` are the
delivery proof that probes earn and not all of it. The scheduler modules choose
rates, round trips and scores anew at every step instead of computing them: this
includes every history the estimators could produce. Multipliers are in permille,
and divisions truncate as the casts of the code do. In `ClientDedup` distinct
bytes hash differently.

## Runs

A run asks one question of the system or, where components are small, of several
components at once. Such an `MC` module extends one component, instantiates the
others with small constants, and has a variable `scenario` that `MCSpec` fixes at
the start: in a behaviour of a scenario one component moves and the variables of
the others rest. Nothing is shared between scenarios, so each is the component on
its own; invariants of the extended component are checked under their own names,
those of an instance under the same name defined where the instance is. Assumptions
on the constants of an instance are `ASSUME`s of the module that makes it.

Where two facts are about one thing (a datagram in either direction, a keepalive
and its echo) they are one property; an action property that has an invariant as a
conjunct says it of the state after each step. The `TypeOK` of a module is not
among the properties of its run: it is proved where the module has proofs, and
holds of the runs' states when it is added elsewhere.

| Run | Scenarios | Shows |
|---|---|---|
| `registration` | | Grants, slot, deadline and liveness stamps stay consistent, a duplicated REG3 finds no grant, and only a dead bond is re-homed. |
| `reg_liveness` | | With the timeouts of the code and no interface lost, an unregistered uplink registers again. |
| `delivery` | `resend`, `recovery`, `startup` | Across the wrap, with stale ACKs and a retransmission, no owed packet is dropped from a log; refused batches, timeouts, REG_ERR, probes, collisions and expiry leave no phantom and blame only carriers; the same when data flows before the first REG3. |
| | `nak` | The ids parsed from a NAK are the losses that were reported, in order (`LossList`). |
| | `sparse`, `dense` | The three samples kept give a floor that is fresh and missed nothing lower; with regular samples it is a true minimum of half a window (`RttFloor`). |
| | `echo` | One keepalive per tick; neither measurements nor delivery proof dry up (`Keepalive`). |
| `uplinks` | `reload` | Reloads, failed reconnects and re-homes leave I/O, readers, weights and the last selection in step with the list; after a re-home in which some sockets could not be rebuilt, all that are opened, then or later, are to the same receiver. |
| | `grants` | With REG3s in the channel while reloads shift positions, only such a shift hands a registered uplink a grant. |
| | `ending` | A reader that ended is restarted. |
| `stall` | `rejoin` | A latch releases only on the dwell its failures have earned; a mute link stays pulled; a link whose path works again is let back in on keepalive echoes alone. |
| | `pair` | The last usable link is never gated. |
| `selection` | `verdicts` | No combination of gates empties the pool; one elected link carries alone; a returning link is ramped. |
| | `ramp`, `reset` | No flapping keeps a link on its ramp for ever, nor on one longer than its length; the same across mode switches and resets. |
| | `override` | The override picks the best link, only for packets that must land and never in classic mode (`BestPath`). |
| `health` | | The window stays in range, bursts are real, early NAKs do not degrade a link; without NAKs, housekeeping alone restores the window. |
| `rating` | `verdicts` | Late links are gated at once, failing re-tests are spaced out, a derived budget calls no near link late. |
| | `starved` | A link gated for its share is tested again. |
| | `target` | Cuts that do not help stop and are floored at delivery, growth is earned, the loss verdict needs sustained loss, a fast-recovery window is full. |
| `relay` | `acks`, `repeats` | A packet is withheld only on account of a copy forwarded before, and a repeat of a NAK only of a late one; a forwarded ACK is in the socket or the channel; the rings implement `RelayLog`. |
| | `send`, `recv` | Every datagram of a batch is accounted for; each one received is passed on once and in order (`SocketIo`). |
| `control` | `config` | An answer holds until another client sets the field, and `get_status` agrees with it. |
| | `push` | No ghost subscription, no event before its reply, none lost without a cause (`Subscriptions`). |
| | `learn` | The latency in force is the one the last response declared (`Handshake`). |
| | `drift` | Claims of the warning slot are an interval apart, and the first drift is reported (`DnsDrift`). |
| | `wake` | With the event loop and a reader at one socket, no wakeup is lost between WouldBlock and clear_ready (`SocketIo`). |

`reg_survivor` and `reload_grants` expect a violation; they are the first two
findings below.

Bounds. Two uplinks are enough for every rivalry the code has: one slot, one
tracker entry, one carrier against one probe, one elected link against another.
Three are used where positions shift under a link (`Uplinks`).
`Registration` scales the timeouts down, but keeps the connection timeout at two
ticks: with one, an uplink would time out at the tick after its REG3, and no tick
would ever find a live uplink to spare from a broadcast or a re-home. The liveness
run and the violation use the timeouts of the code. `Delivery` uses eight
sequence numbers from 7, so the second packet wraps; a ring of two slots, and of
one in scenario `recovery`, so that its two packets collide; a walk limit of one, so
both the walk and the sweep run; a probe log of one, so its cap is reached.
`ClientDedup` has a ring of two slots for three ACKs, so it matters which slot is
overwritten, and of one for NAKs; a copy may be late by the whole period after which
the receiver repeats a NAK.
`SocketIo` has a send buffer of two against batches of three, so sends are short;
in `wake`, where both tasks move, three datagrams leave, one more than the buffer
holds, and one arrives.
In the modules with timers the durations keep the order they have in the code,
scaled to a few units, and ages saturate above the largest (`AgeCap`).
`Classifier` has round trips in ms and the permille limits of the code. `LossList`
has a small sequence space and every list of up to three entries, `Handshake` up
to two extension blocks. Counters (`MaxPackets`, `MaxResends`, `MaxResets`, `MaxHolds`,
`MaxExpired`, `MaxFaults`, `MaxNaks`, `MaxRounds`, `MaxIds`, `MaxGen`, `MaxMoves`,
`MaxChan`, `MaxOut`, `MaxIn`, `MaxSignals`, `MaxErrors`, `MaxLost`, `MaxTime`)
bound only the environment. `Delivery` and `LossList` may stop when theirs are used
up or their input is read, so `delivery` does not check deadlock.

Fairness. `LiveSpec` of `Registration` is fair to the housekeeping tick (a tokio
interval in a select loop), to the delivery of answers over an interface that is
up, and to the receiver dropping a member that is not connected any more (it gets
no keepalives). Without these the network could stay silent for ever. Liveness
also assumes `Prompt`: round trips shorter than a tick, so a tick finds every
request of an attached uplink answered. The code gives no such guarantee; it is a
condition on the network, and the safety runs do without it. The same tick is what
`Classifier`, `LinkHealth` and `Uplinks` are fair to; `Classifier` in a scenario of
its own (`starved`), in which the environment is what the property is about (a link that gets
no share); `Uplinks` needs it in the form `CalmTick`, a tick in which no socket has to be replaced. `LinkHealth`
also assumes that a registration retried for ever is answered. `StallGate` and
`Selection` are fair to time, `StallGate` to a pass as well: a stream that flows
is scheduled. The other modules state safety only; that no task of `SocketIo` waits
for ever is the invariant that an event is on its way to it (`NoLostWakeup`).

## Findings

`reg_survivor`: an uplink that holds the REG1/REG2 slot, was never established
and cannot reopen its socket retries at every tick without backoff, and each
retry renews the slot's deadline (`housekeeping.rs:90`). The slot never times
out, and a working uplink defers for as long as this lasts. The trace uses the
timeouts of the code and `Prompt`. An uplink that was established once backs
off to five seconds, longer than the slot's four, so its slot does time out.

`reload_grants`: the manager's REG3 grants are positions in the list of uplinks, and
a reload shifts positions without telling it (`connections.rs:53`). With uplinks A and
B, both sent a REG2 and only B answered, a reload that drops A moves B, registered, to
the position whose grant is open: a duplicate of B's REG3 is then honoured, which "the
grant is ONE-SHOT" (`registration/mod.rs:57`) rules out. `GrantsKept` says that no
other interleaving leads there.

Further places where the code and a comment beside it disagree, met while
modelling. The property named is stated in the component's module and is not
checked by a run: TLC refutes it when it is added to the module's configuration.

- `OneGroup`: a REG_NGP handled between a REG3 and the next tick starts a second
  REG1 (`registration/mod.rs:304`).
- `SchedulableIsRegistered`: REG_ERR leaves the phase schedulable
  (`uplink_recv.rs:67`).
- `ProofIsOwn`: when a cumulative ACK prunes the carrier's log before its SRTLA
  ACK arrives, the fallback scan credits the probe of a held-out uplink
  (`packet_handler.rs:106`).
- `AckClearsAllBefore`: a retransmission registered below the highest acknowledged
  sequence survives later ACKs that walk (`ack_nak.rs:94`).
- `ReleaseEarned`, when the stream may pause (`Steady` is FALSE): the rejoin dwell
  counts across a pause of the stream in which the proof was stale
  (`connection/mod.rs:1035`).
- `HoldServed`: the role clock of a sole carrier also counts the time it did not
  carry (`enhanced.rs:218`).
- `ResetStartsCold`: a link reset while held out starts on a ramp
  (`connection/mod.rs:1380`).
- A burst outlives its window when ACKs fill the congestion window first
  (`congestion/enhanced.rs:94`).
- `TightestTier`: at exactly 85% the next tier is picked (`classifier.rs:544`).
- `CutNeverRaises`: a target cut to its floor is taken for one not seeded yet, and
  the tick that was to cut it raises it (`link_cc.rs:621`).
- `WholeRequests`: a push that arrives while half a request has been read drops
  that half (`control_socket.rs:106`).
- `RealReg3Admitted`: REG3 grants are positions, and a reload that moves an uplink
  has its REG3 refused (`connections.rs:53`).
- `Reg3AnswersReg2`: a REG3 read from a replaced socket is taken for the answer to
  the REG2 of the new one (`packet_handler.rs:150`).
- `NeverHalf`: an uplink whose socket a re-home could not rebuild keeps the old one,
  which still sends to the old receiver (`rehome.rs:332`); a REG3 from there registers
  it while the others are on the new one, until a reconnect opens a new socket. What
  does hold of every socket opened since the re-home is in `BondKept`.
- `RepeatsReach`: a copy of a NAK that is late by more than the receiver's period less
  the window, forwarded because the copies before it were lost or are forgotten,
  swallows the repeat that follows (`client_dedup.rs:80`). With a skew between uplinks
  shorter than that it is a theorem (`RepeatsReachInTime`), but the comment at
  `client_dedup.rs:24` speaks of hundreds of milliseconds.
- `OneReceiver`: an uplink added after a re-home dials what the name answers with
  by then (`connections.rs:171`).
- `OnePerInterval`: a warning claims its slot under the time of its reconnect, so
  two can be printed within the interval (`connections.rs:330`).
- `RanksFresh`: the override ranks links by multipliers that the pass did not
  refresh (`priority.rs:143`).
- `BurstOverridden`: runs of full-size packets override nothing
  (`packet_handler.rs:365`).
- `SnapshotMeant`: a snapshot can combine settings that were never in force
  together (`config.rs:104`).
- `NakBounded`: single entries after a range that reached the limit go past it
  (`parsers.rs:215`).

## Proofs

`RegistrationProofs`: `IInv` adds to the type invariant what links the slot, its
deadline and its target (`SlotOK`) and each uplink's connected flag, stamp and
grant (`LinkOK`). None of the invariants is inductive alone: a grant is safe
only because the broadcast that makes it skips connected uplinks. One lemma per
operation, then one step per action.

`DeliveryProofs`: `IInv` says of each uplink that its log is among what it put
on the wire, that this and the tracked part of its queue are among what it
carried, and that the tracker names carriers. The queue is needed because
`take_batch` registers it later; the tracker and the log are needed together
because `attribute_nak` uses one and falls back to the other. The theorems hold
for any number of uplinks, batch sizes, ring size and sequence space.
`RemovedForCause` has an invariant of its own beside `IInv`: what an uplink takes for
the highest acknowledged packet is one up to which the receiver has everything
(`HighestIsHad`), SRTLA ACKs and NAKs on their way speak of packets sent, and what an
uplink carried is of the stream (`Cause`). The client's packets span less than half
of the sequence space (`StreamAssumption`), so that the serial arithmetic of `seq.rs`
is arithmetic on positions (`StreamOrder`), also across the wrap. The number space is
reused only after 2^31 packets, and the packets that a log, an ACK and a NAK can speak
of at one time are far fewer than 2^30; over a longer stream a number alone does not
say which packet is meant, here or in the code.

`StallGateProofs`: `IInv` ties the guard's own stamps to the history of a link: the
run of proof it counts is no longer than the one the link has had, the failures it
has counted are those the dwell is priced with, and a mute link is pulled (`Kept`). One
lemma per thing a pass does. `ReleasesAreEarned` has `Steady` as its hypothesis (a pass
in every unit of time): without it the property is false, and Findings says how. That
the last usable link stays in use (`LastUsableStays`) needs no hypothesis and holds for
any number of links; scenario `pair` checks the same formula.

`ControlProofs`: an answer is prepared before it is sent, and a status is loaded
field by field, so `IInv` speaks of both halves: a result nobody has overtaken is
in force, and what a status has loaded so far is what its client was told.
`StatusAgreesWithAnswers` is an action property that follows from it. About the slot
of the drift warning: it holds the last claim, and a task that loaded the slot and went
on to claim loaded a stamp an interval before its own (`DriftInv`). The compare fails
if another task claimed in between, so the two facts together space the claims, for any
number of tasks. About the readiness of a socket: wherever the loop and the reader
stand, a socket that is ready is known to be, or an event is on its way; and a guard
that is still current when it is cleared stands for a socket that has not become ready
since (`WakeInv`). The second half is the tick that tokio compares in `clear_ready`, and
without it the first is not inductive. The theorem holds for any sizes of batches and
buffers and for any number of datagrams, interrupts and errors.

`LinkHealthProofs`: `IInv` adds that a single NAK is not a burst (`LoneNak`), that a
link in its grace has its full quality cached (`GraceKeepsQuality`), and that a
verdict in force was remembered (`VerdictRemembered`). The phase is judged from the
cached quality and the window of the moment, so `GraceProtects` needs the last two.

`LinkCcProofs`: one lemma per stage of a tick (`EwmaStage`, `SeedStage`,
`EfficacyStage`, `MoveStage`), each with what the stage leaves alone. `IInv` ties the
controller's own counters to the history: the budget left is what the climbs since
the cut have not used (`BudgetLeft`), the ticks of the test are one behind the vain
cuts and its entry loss is theirs (`BackoffCounted`), the latch's timer is the time
the loss was high (`HighTimed`). What the loss window sums to is never used, so the
theorems hold for any loss; the decreases must be at most 1000 permille.
About the weak-link filter, for any number of links: the streaks it keeps are those of
the history, also over ticks that are bypassed and links that have gone, so a link late
for the sustain time is gated in that tick and no other is (`LateLinksGated`); and the
wait of a link is the interval doubled once per failed re-test up to its cap
(`FailedRetestsPriced`).

`ClientDedupProofs`: a copy on its way is as old as its round (`CopiesAged`), and
a slot that still suppresses its packet has a forward to show for it: one of a copy so
late that the window reaches into the next round, or one of the round sent last, which
was sent no longer ago than slot and copy are old (`SlotsTold`). The two together give
`OnlyLateCopiesWithhold`, without any bound on the skew between the uplinks. With the bound as a hypothesis no copy is
that late, and every round reaches the client (`RepeatsReachInTime`). The refinement of `RelayLog` needs that a ring
fills its slots in order (`FilledFirst`): then writing the next slot prepends to the
log it stands for (`WriteIsPrepend`), a slot is in the log exactly when it is filled
(`SlotInLog`), and each step maps to a step of the log or to none (`StepIsLogStep`),
for rings of any size and windows of any length.

`SelectionProofs`: one lemma per stage of a pass (`StallStage`, `ElectStage`,
`ExcludeStage`), each with the roles and ramps it leaves, and `RankedIs`, by which
holding links out leaves one in the rotation whatever the verdicts. `IInv` adds that
no link is at once the carrier and among those that lost (`OneRole`): a carrier is
elected again without arming its ramp, so `ReturnsRamped` would fail for a link that
was both. That a best link exists (`SomeTops`) is an induction over the number of
links, done as a least counterexample: the library's theorem that `<` is well founded
on the naturals takes no operator, so the provers can use it.

Assumptions are the named `ASSUME`s on constants, which TLC evaluates; those of a
component that the proofs reach as an instance are in the module that makes it
(`DriftAssumption`, `SocketAssumption`, `FilterAssumption`). The interval of `DnsDrift`
is more than one millisecond because a time of zero is stored as one. The provers know
no exponentiation and nothing of the largest element of a set, so that powers of two
double and that round trips have a largest are assumptions too (`PowersAssumption`,
`FilterFacts`); the second says that round trips are bounded, as integers of a fixed
width are.

Only model-checked:

- liveness: the prover has neither fairness nor ENABLED;
- what a fold or a filter over a sequence computes, because the library's induction
  theorems take an operator, which the provers cannot instantiate: `LossesMeant`,
  `LatencyMeant`, `SubscriptionsKept`, `OverrideMeant`, `FloorMeant`, `Accounted`, and
  the lists of `Uplinks` (`InStep`, `SelectionMeant`, `GrantsKept`, `BondKept`).

No theorem is about what a recursive definition computes, and the modules have no
RECURSIVE operator.

## Not modelled

Floating-point estimators (Kalman filter, EWMAs, bitrate, the scores themselves),
which TLC cannot evaluate: the modules that use their results take any of a small
set. JSON and TOML parsing, telemetry formatting, socket creation and options and
the fixed byte layouts, which have no protocol state and which the repository's
tests cover. Shutdown, process start-up and the network simulator. `PROJECT.json`
gives the reason for each part.
