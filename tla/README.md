# TLA+ models of Treccia

Treccia bonds several WAN links into one tunnel. WireGuard ciphertext enters an
engine, which numbers it, protects it with forward error correction, stripes it
over the paths and, on the other side, repairs, resequences and hands it to
WireGuard. This directory holds TLA+ specifications of that engine, TLC
configurations that check them on small instances, and TLAPS proofs of their
safety properties for every value of the constants.

Every definition is translated from the Go code; `PROJECT.json` maps
definitions to lines. Definitions commented "Mutant" are plausible bugs: put in
place of the definition that follows them, they break the property named in
`PROJECT.json`.

## The system and its inventory

| Part | Source (`src/internal/`) | Module | Status |
| --- | --- | --- | --- |
| Resequencing buffer | `reorder/buffer.go` | `ReorderBuffer`, abstract `Resequencer` | modelled, proved |
| Link liveness: probes, acks, up and down | `pathmon/link.go` 99-195 | `Link`, `ProbeLoop` | modelled, proved |
| Receiver feedback: loss, delivery rate | `pathmon/rxstats.go`, `link.go` 197-262 | `Feedback` | modelled but for the floating-point factors, proved |
| Delay baseline and standing queue | `rxstats.go`, `link.go` 264-319 | `DelayBaseline` | modelled but for the factors derived from the queue, proved |
| FEC | `fec/fec.go` | `FecEncoder`, `FecDecoder`, composed in `FecStream` | modelled, proved |
| Scheduler | `sched/weighted.go` | `Weighted` | modelled, proved |
| Transmit side: class, best pair, early drop, numbers, parity | `clientSend`, `serverSend`, `pathmon/select.go` | `Transmit` (extends `Weighted`) | modelled, proved |
| Client sockets, readers, staging, Close | `engine/client.go`, `engine.go` | `ClientPaths` | modelled but for the cadence of CTRL, proved |
| Server sessions, reaper, BYE | `engine/server.go` | `ServerSessions` | modelled but for the shutdown and the cadence of CTRL, proved |
| Registration, client and server together | `client.go`, `server.go` | `Registration` (extends `ServerSessions`) | modelled |
| Flow classifier | `classify/classify.go` | `Classifier` | modelled, proved |
| Class of outgoing ciphertext | `wgbridge/correlator.go`, `tunshim.go`, `Inspect` | `Correlator`, composed with `Classifier` in `Outbound` | modelled, proved |
| Queue to WireGuard, slab ownership | `wgbridge/bind.go`, `buffers/pool.go` | `Delivery` | modelled, proved |
| Wire format, control codecs, config, CLI, metrics, dashboard, simulator | | | not modelled: no concurrent state |

"Proved" means that the safety properties the runs check are theorems as well.
Liveness is model-checked only. The proofs are in

| Module | has the proofs about |
| --- | --- |
| `ReorderBufferProofs` | `ReorderBuffer` and its refinement of `Resequencer` |
| `LinkProofs` | `Link`, `ProbeLoop`, `DelayBaseline` |
| `ReceiveProofs` | `Delivery`, `Feedback` |
| `FecStreamProofs` | `FecStream` with `FecEncoder` and `FecDecoder` |
| `EngineProofs` | `ClientPaths`, `ServerSessions` |
| `TransmitProofs` | `Transmit` with `Weighted` |
| `OutboundProofs` | `Outbound` with `Classifier` and `Correlator` |
| `Facts` | numbers, remainders and sequences, for all of them |

Modules whose proofs share a file name their specifications apart (`LoopSpec`,
`DelaySpec`, `DeliverySpec`, `OutSpec`).

How they interact: a packet from the TUN device is classified on its way into
WireGuard, and the datagram that comes out is matched with that class
(`Outbound`). `clientSend` stages it until a path is registered (`ClientPaths`,
`Registration`), takes the best paths or stripes it (`Transmit`, with weights
from `Feedback` and `DelayBaseline` and the up flag from `Link`), and adds it to
the encoder (`FecStream`). A reader takes a slab, feeds the counters
(`Feedback`), the decoder and the buffer (`ReorderBuffer`), and the buffer
delivers to WireGuard (`Delivery`). `TrafficClasses` names the three classes.

## How the models correspond to the code

Mutex-protected operations are atomic actions. Where a goroutine releases a
lock, makes a system call or loads an atomic flag and goes on with what it saw,
the action ends, and another goroutine may step in: this is where `ClientPaths`
and `ServerSessions` find their interleavings. Time is a clock that ticks; times
the code stores are kept as ages, saturated one past the limit they are compared
with. Integers that wrap in the code wrap in the model (`SeqSpace`, `ByteMod`,
`Mod`). Payloads are identities.

* **ReorderBuffer.** `slots`, `nextExpected`, `occupied`, `farLate`, `timer` are
  the fields of `Buffer`; `out` is what the last call handed to `deliver` and
  `drop`. `Push` is split into its cases. The loops of `drainLocked`,
  `flushLocked` and `expireLocked` are closed forms (`Drain`, `Flush`,
  `Expire`), which the proofs can handle; `ReorderLoops` has the loops as
  written, recursively, and `LoopsAgree` compares the two in every state.
  `OnStaleTimer` is a callback that had fired when `Close` stopped the timer.
* **Resequencer** is the promise: a window, a set of waiting packets, releases
  in order. `Resequences` is the refinement.
* **Link** has one action for each method; `sinceDown` counts probes since the
  path went down. RTTs are whole units with the code's integer arithmetic.
  `ProbeLoop` adds the cadence of `clientProbeLoop` (100 ms, 500 ms while down).
* **Feedback.** `ctrls` is the log of reports, any of which may be applied at any
  time, because each report takes the best path of its moment. `dt <= 0` is a
  branch of its own: two readers take the time and the lock in opposite orders.
* **DelayBaseline.** The moving average is any value between the old one and the
  sample. `log` and `seen` are histories; `OneSide` says that the conversion to
  int32 has kept the differences of all delays seen.
* **FecStream.** A packet's `Add` and its DATA datagram are one step; `net` is a
  log, so that any order, loss and duplication can happen. A group reconstructs
  when any k of its shards are there. `Restart` is a server that starts again: a
  new encoder (`NewEncoder`) numbers its groups from 0 while the client's decoder
  keeps its table. Groups have an origin, which never repeats, and an id, which
  counts from `base`, the first group of the current run, modulo `GroupMod`.
  `left` pairs a group the decoder held at a restart with the later group that
  gets its id (`Heir`); a packet rebuilt from shards of both shows as one with
  two origins.
* **ClientPaths.** A reader's `pc` follows `clientRxLoop` and `flushPending`. The
  read of all registered flags in `sendablePaths` is one look. `late` marks
  the packets of the queue that were held although a path had registered.
* **ServerSessions.** `rx` holds the pointer the handler works with after its
  lookup. There is one receive loop, so handlers interleave with the reaper only.
* **Registration** composes one client path with the server: the network delays,
  reorders, loses; the server restarts, or its reaper runs while a HELLO is being
  handled; the NAT rebinds; the WAN goes and returns; a black hole opens.
  `lastRx` is the age the server's send side compares with `pathStaleAfter`.
  `Close` is two steps, `SendByes` and `Gone`: until the second the hello loop
  still runs.
* **Outbound.** WireGuard between `Inspect` and the `SendFunc` keeps the order
  and may drop packets; it is external. `pending` is the ciphertext the client
  holds while it has no path; it is looked up in the FIFO only when it is
  replayed, and the sender may overtake it. The field `live` of an entry is a
  history: its packet is still under way. `drops`, `missed` and `right` are kept
  while `inOrder`, and start over when FIFO and tunnel have run empty. A packet
  is what `parse` finds in it; `MaxPkts` bounds the packets of a flow while it is
  in the table.
* **Transmit.** The flags of the paths are read one by one while probes change
  them, so every look (`SendablePaths`, `UsablePaths`, the snapshots of
  `BestPair`) may see any combination. A sender's step ends where it has its
  frame, and the write is a step of its own; a copy is one more. `Pick` runs
  under the scheduler's lock. The early drop is a choice, as `DropProb` is
  random.
* **Weighted.** Credits are multiples of 1/`Unit`; shares are rounded in every
  way that keeps their sum. Any of the candidates with the largest credit may
  win, since the server lists its paths in map order.
* **Delivery.** The pool counts how often it holds a slab. `ring` stands for all
  resequencing buffers, whose detail is in `ReorderBuffer`; what a buffer emits is
  in `leaving` until it has been delivered, one packet at a time (`DeliverNext`),
  since `deliver` takes the bind's lock for every packet and WireGuard may open
  or close the bind in between.

## What the runs check

| Run | What it shows |
| --- | --- |
| `reorder` | ring and window consistent, duplicates are copies, no packet without a timer, loops agree with closed forms, refinement of `Resequencer` |
| `link` | probe history is a suffix; up is earned; silence is noticed; an answering path recovers |
| `fec` | repaired packets are the ones sent and up to m losses are repaired, but for groups the decoder held when the sender restarted; table bounded; groups close |
| `client_paths` | sockets neither leak nor are closed under their path; readers survive redials; staged packets are in one place, and stay there past a registration only if they were queued after it; `Close` returns |
| `server_sessions` | sessions in the table have an open buffer and a path; silent ones go |
| `registration` | after the last fault the path ends up registered, fresh and served; the session of a client that has closed goes for good, although a HELLO may follow the BYE or the BYE be lost |
| `correlator` | from TUN to class: no misclassification while nothing is dropped or overtaken; fewer drops than the scan reaches are absorbed; no entry is consumed before its packet; a uniform flow keeps its class whatever is evicted |
| `feedback` | a clean path is never judged lossy, whatever happens to reports; in-order reports count each loss and byte once |
| `delay_baseline` | the rolling minimum covers half a window and forgets after a window, also where delays straddle the int32 boundary; the queue is real until they do |
| `weighted` | both send sides with two senders and parity: credits sum to nothing and stay bounded, no usable path starves, no bulk number is drawn for a packet dropped early, `BestPair` answers the two best and a copy takes another path |
| `delivery` | each slab in one place, no send on a closed channel, slabs come back |
| `feedback_reorder` | **violated**: a report overtaken by the next one makes a delivery-rate sample of nearly 2^64 bytes, because `deltaBytes` is an unsigned difference (`link.go:219`) |

`TypeOK` (`SessTypeOK`, `DeliveryTypeOK`, `DelayTypeOK`, `OutTypeOK`) describes the
state of every module. It is a theorem for `ReorderBuffer`, `Link` and `Transmit`
and part of the inductive invariants of `ClientPaths`, `ServerSessions` and
`Delivery`; no run lists it, and it can be added to any `.cfg`.

### Other places where the code and its documentation differ

They follow from the actions of the models; the properties above state what does
hold. No run is kept for them.

* `buffer.go:3` says a packet waits "at most a hold time on gaps". `expireLocked`
  looks at the first waiting packet only, and packets that slip in ahead start
  the wait over (`OnTimer`, `Expirable`).
* `buffer.go:24` says far packets must be consecutive to reset the buffer; a
  straggler in between does not clear the count (`PushLate`).
* `ARCHITECTURE.md:85` says a path goes down within about 400 ms; a probe counts
  as lost after an RTO of up to 2 s (`ProbeRTO`).
* `PROTOCOL.md:86` says three consecutive acks bring a path up; probes lost in
  between do not clear the count while it is down (`OnProbeSent`).
* `fec.go:132` says `SetParams` acts from the next group on; `Add` compares the
  open group with the new k (`Fills`).
* `engine.go:100` says staged packets leave on the first registration; one queued
  just after the flush waits for a later registration (`late` in `ClientPaths`).
* `server.go:23` says only silent sessions are reaped; one whose first HELLO is
  still being handled has `lastSeen` 0 and can be (`Reapable`).
* `PROTOCOL.md:121` says any valid datagram updates the address; CTRL, PROBE_ACK
  and FEC do not (`CtrlRest`).
* `ARCHITECTURE.md:86` says a path that is down is redialled; a registered one is
  only after a write error (`ProbeFails`).
* `correlator.go:13` says mismatches fall back to BULK; after a drop, a packet may
  take the class of another of its length (`Match`).
* `client.go:260` falls through to the striping when there is "no probed path
  yet"; so does a latency-sensitive packet whose paths all went down between the
  two looks, and it takes a bulk number (`Striped`).
* A datagram held without a path is classified when it is replayed. One that
  overtakes it may take its entry (`Replay`), and when `ScanAhead` entries that
  nothing will match have come to the head of the FIFO, no datagram finds an
  entry until it drains by a packet of such a length (`Match`).
* After a restart of the server, a group whose number the client's decoder still
  holds may be rebuilt into a packet nobody sent (`LeftOver`); WireGuard will
  reject it.
* The parity of the server goes to paths that are heard of, also when they are
  down and others are not (`AlivePaths`).
* `link.go:19` calls the capacity window a sliding maximum; samples are purged
  only when a new one comes.
* `rxstats.go:27` says any constant clock offset is fine. The clocks start when
  the two engines do, so every offset can occur, and with one near the int32
  boundary the receiver's average mixes values from both ends of the range: the
  sender then sees a queue that is not there. `QueueIsReal` exempts this case by
  `OneSide`; without that conjunct the run violates it in three steps, with the
  offset 2 of `DelayBaseline.cfg`.

### Bounds

* `reorder`: a ring of 3 and 30 sequence numbers, the smallest space with every
  case of `Push` (late, far late, in window, overrun, far ahead: 8 `Size` <
  `SeqSpace`), all of them from every state, wrap-around included. The hold is one
  tick, so a packet is either younger or older than it.
* `link`: sequence numbers wrap after 6 and the history holds 5 probes, more than
  fit in an RTO of 4 intervals, as 32 do in the code.
* `fec`: 3 packets, groups of up to 3 with one parity shard, a table of 2 groups,
  a sweep on every second add, one retuning or restart (`MaxUpsets`): groups are
  closed full, by flush and by a retuning; three groups overflow the table; a
  group number of the old run comes again.
* `client_paths`: 2 paths, 2 packets, a queue of 1, 3 sockets: a redial can be in
  flight on either path while the other registers and `Close` runs, and the queue
  overflows. That a queue of several holds no packet twice is in the theorem
  `QueuedOnce` only; 3 packets and a queue of 2 pass as well (966,473 states), but
  take too long to be kept.
* `server_sessions`: 2 session ids, 2 clients, so that ids collide, 2 paths.
* `registration`: up to 3 faults of any kinds; a probe is sent only when nothing
  is in flight (`MaxInFlight`), HELLO, its answer and BYE always, so that they
  meet in any order. A path is stale after 2 ticks of silence.
* `correlator`: 9 kinds of packets over rules, known ports and flows that are
  uniform or not; a flow table of one, so that every other flow evicts; 2 packets
  inside WireGuard and one held, a FIFO of 3 and a scan of 2, so the FIFO fills
  and drops exceed the scan; two lengths pad to the same one.
* `feedback`: 3 packets and 3 reports from a fresh counter and from one about to
  wrap; one restart of the receiver.
* `delay_baseline`: clocks of 8 values, 3 delays, buckets of 2 ticks. With the three
  clock offsets the samples are positive (0), straddle the int32 boundary (2), or
  cross zero, where the unsigned difference wraps (6). `MaxGap`
  bounds the silence between reports that arrive; the code reports every 250 ms
  at least.
* `weighted`: 3 paths, 2 senders, three scores, so that ties happen; unknown,
  small and large weights, a floor of 1/4 that is often in force. The limits
  follow from these: `MaxCredit` is 6 of the 6 units of a credit and `MaxWait` 12
  packets. The map of credits is thrown away only when it knows more than twice as
  many paths as are candidates, which takes five paths; with those, candidates
  that change all the time could lose their credit again and again.
* `delivery`: 4 slabs, 2 readers, a queue of 2, WireGuard opening the bind twice.

### Fairness

* Loops driven by a ticker (probe, hello, flush, reaper) are weakly fair.
* `Close` and the goroutines of the client it waits for take their next step; a
  blocked read returns only when its socket is closed (`client_paths`).
* The server's handlers finish, the reaper and the clock go on
  (`server_sessions`).
* In `Registration` the reaper runs and a client that has said BYE goes, but
  nothing makes it close; a datagram in flight is received or swallowed, faults are
  finitely many, and the clock is strongly fair, since it waits for handlers.
* `Delivery`: wireguard-go's receive routine runs, an armed timer fires, and a
  goroutine that delivers goes on to the next packet.

## What is proved

The theorems rest on the assumptions named in the modules and nothing else;
`Facts` has the lemmas on `%` and on sequences that several proofs share. In each
module the inductive invariant is proved to hold initially and to be kept by
every action, one lemma for each.

* **Resequencing buffer**, for every ring size, any even number of sequence numbers
  that is a multiple of it and more than eight rings, every reset threshold and
  all holds (`ReorderAssumption`): `TypeCorrect`,
  `WindowCorrect`, `NoPacketStranded`, `DuplicatesAreCopies`. The inductive
  invariant is `TypeOK /\ WindowInv /\ NothingStranded /\ EmptyUntilStarted`.
  `WindowInv` alone is not inductive: the first `Push` moves the release point to
  its own sequence number, which is harmless only because the ring of a buffer
  that has not started is empty. The argument rests on positions: within a window
  of `Size` numbers, position modulo `Size` determines the number, also where the
  sequence space wraps, because `Size` divides it. Each operation is shown to keep
  the window relative to the release point it leaves, and to keep the count.
* **The buffer implements `Resequencer`** (`BufferResequences`), under the same
  assumptions. The set of waiting packets is read off the ring; the proof goes
  operation by operation and shows that what `Drain`, `Flush`, `Expire` and
  `Overrun` hand over is what the abstract release may hand over: the waiting
  packets up to the new release point, in order, each once.
* **Link**, for all intervals, timeouts and thresholds for which the history
  outlasts the longest RTO (`LinkAssumption`): `TypeCorrect`,
  `OutstandingCorrect`, `UpEarned`. The three are proved together; that `up` was
  earned needs that remembered probes are distinct ones sent since the path went
  down.
* **Probe loop**: `LoopUsesLink` (a link driven by the loop behaves as a link, so
  the theorems above hold there) and `SilenceNoticed`. The bound on the silence
  alone is not inductive. `LoopInv` adds that the remembered probes are spaced by
  the interval (`Spaced`) and that the oldest one left at the latest one interval
  after the last ack (`Heard`): so the probe that will take the path down is
  known to time out within the bound.
* **FEC**, for every set of geometries, every limit, sweep and expiry of the
  decoder's table, and any number of losses, duplicates, retunings and restarts:
  `RepairedIsSent`, `LossesRepaired`, `TableBounded`. Assumed is that group ids
  do not repeat within a run (`MaxPackets <= GroupMod`; there are 2^24 in the
  code, `fec.go:157`). So neither the run nor the theorems cover the roll-over of
  the ids after 2^24 groups of one encoder: it takes a decoder that still holds a
  group that old, which it sweeps after a second without a shard. The
  invariant `IInv` relates four pieces of state. Datagrams on the wire are honest:
  they belong to the current run, data with an index inside its group, parity
  to a closed group with that group's size and one number of parity shards. An
  entry of the table is `Clean` (shards of one group of this run, fewer than k once
  the geometry is known) or `Tainted` (it was there at a restart). And for every group
  that was neither swept nor has the id of an old entry, either the receiver has
  all packets (`Restored`), or what arrived is what the decoder holds
  (`Tracked`), or its run has ended with too little (`Short`). `LossesRepaired`
  then is a count: a tracked group of which k shards arrived would hold k shards,
  which a clean entry with a geometry does not; and if it has no geometry yet, k
  data shards of a group of k packets are all of them.
* **Client sockets, readers and staging**, for every number of paths, packets,
  sockets and every capacity of the queue (`ClientAssumption`): `NoSocketLeaks`,
  `ReaderSurvives`, `QueuedOnce`, `OnlyRaceStrands`. The strengthening says who has
  which socket (`SocketInv`: sockets are dialed once, the probe loop's is no
  path's, and only `Close` leaves a path without one) and that only a reader that
  is sending or holding back has staged packets (`ReaderInv`).
* **Server sessions**, for every number of clients, paths and addresses and every
  finite set of ids (`ServerAssumption`): `BuffersOpen`, `NoSessionLeftEmpty`. The
  strengthening is about the pointer a handler keeps after it has released the
  lock (`HandlerInv`): while the table still has that session, it is under the id
  of the datagram, and one that BYE has emptied is still empty when BYE deletes it.
* **Delivery**, for every set of slabs and readers, every length of the queue and
  any number of opens (`DeliveryAssumption`): `SlabsAccounted`,
  `NeverSendsOnClosed`. The invariant counts per kind of place: no slab is twice in
  places of one kind, and each slab is in places of exactly one kind.
* **Feedback**, for every width of the counters, starting value, and number of
  reports, as long as the packets sent are fewer than half the sequence numbers
  (`FeedbackAssumption`): `CleanStaysClean`, `CreditIsReceived`, `LossIsCounted`.
  The invariant unwraps the counters (`Un`): each report holds the counters as
  they were at one moment (`Counters`), later reports hold later ones, and in order
  every number below the highest was received or is lost. It is claimed only
  until the receiver restarts, as the properties are.
* **Delay baseline**, for every set of delays that differ by less than half the
  range of the clock difference (35 minutes in the code), every length of a bucket
  and any offset of the clocks (`DelayAssumption`): `BaselineCovered`,
  `BaselineForgotten`. The properties speak of the two buckets together, the
  invariant `DelayInv` of each: the newer one answers for the reports since it
  began (`Newer`), the older one for those of the half window before (`Older`), and
  both hold values that were reported. Samples are compared by signed differences
  that wrap; because the delays are close to each other, the comparison is a total
  order. `QueueReal` is proved under the same assumption, for every offset: as long
  as the packets received lie on one side of the int32 boundary, the average lies
  between two of their delays (`Averaged`), and so does the baseline. What happens
  after the first packet on the other side is the case the list above mentions for
  `rxstats.go:27`.
* **Scheduler**, for every finite set of paths, every set of weights, floor and unit
  of credit (`WeightedAssumption`): `CreditsAreBalanced`. The bound on a single
  balance is not inductive, since a path may earn while others pay. The invariant
  `CreditsOK` bounds every set of paths: of n paths, those of a set S hold at most
  |S| (n - |S|) / 2 credits together. A pick adds one credit to the candidates and takes
  one from the richest: when the bound of a set is tight its members are richer
  than all others, so the winner is one of them. `NobodyStarves` follows with a
  second invariant (`WaitInv`): a path that has waited has earned `MinShare` with
  every packet since. It assumes at most four paths (`FewPaths`, a hypothesis of the
  theorem), as with five the map of credits can be thrown away; a floor not above
  the mean share (1/20 in the code); and a unit fine enough for the least share.
* **Transmit side**, for every number of senders: `NumbersAreWritten`, `PairsAreBest`,
  `TypeCorrect`. That `BestPair` answers the first two of the ranking is shown for
  every sequence of snapshots: the fold over the indices keeps the best, and the
  best without that one, of the indices it has seen (`BestTwo`).
* **From TUN to class**, for every set of packets and rules, all thresholds, every
  size of the flow table and the FIFO, every scan-ahead and any number of drops
  (`ClassifierAssumption`, `CorrelatorAssumption`, `OutboundAssumption`):
  `EntriesKept`, `RightInOrder`, `DropsHandled`, `FlowsKeepClass`. The heart of the
  invariant `OutInv` is that, while nothing was overtaken, the i-th live entry has
  class and length of the i-th packet under way (`Fits`): the oldest packet then finds
  its own entry, or one ahead of it that is dead. Without drops all entries are
  live, so it finds its own; and there are never more dead entries than drops
  (`FewDead`), so with few drops its own is within reach of the scan. For the flow
  table it is that the payload counted for a flow stays on the side of
  its packets: at most the threshold times their number, or more (`FlowOK`),
  which survives an eviction because a flow starts over from its next packet.

Only model-checked:

* all liveness properties, since fairness is outside the prover: `PathRecovers`,
  `EveryGroupCloses`, `CloseReturns`, `SilentExpires`, `EndsServed`,
  `GoneIsForgotten`, `SlabsComeBack`;
* `LoopsAgree`: the loops of `ReorderLoops` are recursive operators, which the
  prover cannot reason about.

## Limits of the models

* The unsynchronised reads of a path's address on the server are not modelled: a
  torn read sends a datagram astray, which is one lost.
* Registration assumes a datagram arrives or is lost before the clock moves on,
  so round trips longer than the redial period are left out.
* MACs and time stamps in HELLO and BYE are assumed valid.
* wireguard-go's ciphertext length is the one `ExpectedCtLen` computes. It pads
  to 16 bytes but not past the tunnel MTU, so this is exact for an MTU that is a
  multiple of 16, as the default of 1344 is.
* `Outbound` replays held packets oldest first. When two paths register at the same
  time, two readers flush (`client.go:488`), and what the second took may be
  replayed or held again before the first is done; its properties claim nothing
  once packets have overtaken each other.
* `Transmit` has no frame that is too long for its slab (`client.go:359`): the
  configuration limits the MTU to 1420 (`config.go:128`).
* The capacity window, the loss and delay factors and the early-drop probability
  are functions of modelled state and are left out.

## Not modelled, and why

* The cadence of `clientCtrlLoop` and `serverControlLoop`: reports are made and
  applied at any moment (`Feedback`, `DelayBaseline`), which includes theirs.
  `ComputeHold` is a formula over RTTs; `SetHold` is an action of
  `ReorderBuffer` with any hold.
* The server's shutdown: it closes the socket and the buffers; calls after
  `Close` are in `ReorderBuffer` and `Delivery`.
* FEC and resequencing composed end to end: the product of `FecStream` (281,216
  states) and `ReorderBuffer` is out of TLC's reach at bounds at which either
  shows its cases. Duplicates and late arrivals, all a repair can add, are
  inputs of `ReorderBuffer`.
* Wire format, control codecs, configuration, CLI, metrics, dashboard and
  simulator hold no concurrent state.

## Plan

Every safety property the runs check, but for `LoopsAgree`, is a theorem. Next would be
`NobodyStarves` for five paths and more, which needs a bound on how often the
credits are thrown away, and the roll-over of the FEC group ids.
