# R-NADS in TLA+

Specifications of the R-NADS network anomaly detector (`src/src/`), the TLC
configurations that model-check them, and the theorems about them that TLAPS
checks. Paths below are relative to the repository root: `main.rs` is
`src/main.rs`, `aggregator.rs` is `src/analysis/aggregator.rs`, `nginx.rs` is
`src/mitigation/nginx.rs`, `capture` is `src/capture/mod.rs`. `PROJECT.json`
maps every definition to the lines it models, and lists runs, mutants,
findings, hazards and theorems.

## The system

| component | state | operations | talks to |
|---|---|---|---|
| capture (producer thread) | source, packet index | read a packet, parse, `send` | bounded channel to the router; clears `running` when it returns |
| router | – | receive, hash the `FlowKey`, `send` to a worker, count | producer's channel, one bounded channel per worker |
| aggregator workers | one `FlowTable` each | receive, `process_packet`, send metrics | unbounded metrics channel |
| flow table | hash map, slab, LRU links | hit, allocate, evict and recycle | owned by one worker |
| flow state | ring buffer, 11 rolling counters | `new`, `reset`, `update`, `compute_metrics` | owned by a slab slot |
| main thread | samples, thread handles | load or train the model, start the detector, join | metrics channel until the detector starts |
| inference thread | – | receive, `predict`, block or unblock, alert | blocklist, alert channel |
| SVDD detector | `MODEL_CONFIG` | `train_model`, `predict`, `create_alert` | samples of the main thread, verdicts of the inference thread |
| blocklist | `DashMap<IpAddr, Instant>` | insert, remove, get | inference, web server, monitor |
| web server | – | `/check`, `/api/stats`, `/api/anomalies`, dashboard | blocklist, configuration, database |
| logger, monitor | database, log file | write an alert, print an alert | both receive from the alert channel |
| configuration watcher | last modification time | poll, read, parse, replace | `RwLock` of the configuration |
| Ctrl+C handler | – | clear `running` | the flag every loop polls |

What is hard here: the threads poll one flag between blocking channel
operations (shutdown can come between any two of them, with any channel full);
the flow table keeps three structures in step by hand; the window is updated
in O(1) by debits and credits in slots that are recycled without being cleared;
the blocklist is changed by two threads whose steps are several map operations
each; configuration may change between two reads of one request.

What makes each correct: flow state – counters are the sums over the window,
across recycling; flow table – it behaves as an LRU cache of such windows and
never panics; pipeline – a flow's packets arrive in order, once, and are
accounted for, and shutdown ends; mitigation – blocks follow verdicts and
answers follow blocks; alerting – every anomaly is recorded; configuration –
the last valid edit takes effect; training – a torn model file is not used, and
a whole one not trained again.

## The modules

| module | models | kind |
|---|---|---|
| `FlowKey` | `FlowKey::new`, `PacketEvent::flow_key` | operators |
| `FlowState` | `FlowState::{new, reset, update, compute_metrics}` | operators on a state record |
| `FlowWindow` | the life of one slot | state machine over `FlowState` |
| `SlidingWindow` | what a window promises | abstract specification |
| `FlowTable` | `FlowTable::{new, process_packet}` and the LRU list | state machine, uses `FlowKey`, `FlowState` |
| `FlowCache` | what a table promises: an LRU cache of windows | abstract specification |
| `Pipeline` | producer, router, workers, main, inference loop, channels, `running` | state machine |
| `OrderedDelivery` | what a stage of the packet path promises a flow | abstract specification |
| `Capture` | `parse_packet`, the events of `run_mock_capture` | operators |
| `MockTable` | a worker's table fed by the mock generator | `FlowTable` driven by `Capture` |
| `Mitigation` | verdicts, `/check`, `/api/stats`, reload, clock, locks | state machine, uses `FlowKey` |
| `Detector` | gathering, `train_model`, `predict`, `create_alert` | state machine |
| `Alerting` | start of the detector's threads, alert channel, logger, monitor | state machine |
| `Lifecycle` | start, model file, configuration watcher, edits, kills, restarts | state machine |
| `FlowStateProofs`, `FlowWindowProofs`, `FlowTableProofs`, `PipelineProofs`, `MitigationProofs`, `DetectorProofs`, `AlertingProofs`, `LifecycleProofs` | lemmas and theorems | proofs |
| `MC*` | values of the constants | for TLC |

How they compose: `FlowTable` holds a `FlowState` in every slot. `Pipeline`
treats a worker's table as the sequence of packets it is given per flow
(`tables`), which is the input of `FlowTable`; its panic is
`PanicsOnlyWithoutRoom`, and `room` is the capacity a worker gets. The events of
`FlowTable` are those `Capture` makes of frames (`MCFlowTable`) or generates
(`MockTable`). `Pipeline`
ends where a metrics record is taken off the channel, `Mitigation` begins with
the verdict on it, and `Alerting` with the alert of an anomalous one.
`Lifecycle` is around them: what happens before the other threads matter, what
ends them, and what is left on disk for the next process. `Mitigation` keeps a
`Reload` of its own, any change under the lock, since it is about the readers.

### Flow state and flow table

A packet summary keeps time, length, direction and the set of TCP flags. The
eleven counters are one function from counter names to integers, since the code
treats them alike (`Contribution`). Features are fractions of integers, exact
where the code uses `f64`; rounding is not modelled. The sort of the timestamps
is their ascending arrangement, whatever `sort_unstable` does with equal ones.
`u32`/`u64` widths are not
either: a counter is bounded by 128 packets of at most 2^32 bytes, far from
2^64 for the sums of lengths, and 128 * 2^64 for the squared lengths only when
packets have jumbo lengths a capture (snaplen 65535) cannot deliver.

`process_packet` is one action per path: `Hit`, `Allocate`, `Recycle`, `Panic`.
Each contains all the path does (LRU relinking, map, slab, reset, update). The
slab never frees a slot, so `vacant_entry` is the slab's length. `used`,
`opener`, `last` and `clock` are history: when each flow was used, who sent its
first packet, the last event.

### Pipeline

One action per step of a thread's loop. The load of `running` and the receive
or send after it are separate steps, because the flag may change between them.
A blocking send is an action with the guard that there is room; a send to a
worker that has gone fails (`RouterDrop`), and a thread that exits drops its
queue. `recv_timeout` returns a packet if there is one (`Receive`) and times
out otherwise. A packet is its flow and its number in the flow. `room = 0`
makes workers panic, `source = "zero"` makes the producer panic (`pps = 0`).
The count of routed packets follows the send in a step of its own. The threads
that only poll the flag (mitigation server, monitor, watcher) and the logger
are left out of the joins; they do not touch the packet path, and that logger
and monitor end is `AlertingStops` of `Alerting`.

### Capture

`ParsePacket` gives the event of a frame by what `etherparse` finds in it: no
event without an IP packet, ports 0 and no flags without a TCP or UDP header.
`MockEvent(count, num_ips)` is the generator's event with number `count`; its
batches and sleeps are left out, the thread itself is in `Pipeline`. In
`MockTable` the event of the next step is `MockEvent(clock, flows)`.

### Mitigation

A reference from `DashMap::get` read-locks a shard (`guard`); `insert` and
`remove` need it unlocked (`Writable`). `/check` is `Lookup`, `JudgeAge`,
`Expire`, `Answer`; the detector is `Anomaly`/`Insert` and `Normal`/`Unblock`,
split where another thread can come in between. `Instant` is a clock that any
step may be overtaken by. The verdict is an arbitrary choice. The address is
`ip_min` of the key, as the code has it. Alerts are counted only. `/api/stats`
reads TTL and mode (`Stats`), visits one shard after the other (`ScanShard`) and
answers (`Respond`); the visit of a shard is one step, since its read lock keeps
writers out meanwhile. Its packet and latency figures are left out.

History: `suspect` is when the latest verdict on each flow came, if it was
anomalous, `latest` the flow of the latest verdict on each address; `raced` are
the addresses whose new block went with an expired one, `right` the answers
that were right so far, `listable` the addresses blocked ever and always since a
listing began.

### Detector

`main` gathers samples (`Gather`) until `training_samples` of them are there and
trains. The feature map that training fixes and `predict` applies is an
arbitrary function `phi` from kinds of flows to a set of integers, so what is
shown holds for any weights, any `gamma` and any normalisation. Both sides use
the same map; a distance is multiplied by the square of the number of samples, so
that the centroid is a sum and nothing is divided. The sort is any order by
ascending distance, as equal ones may come in any. The threshold is the element
at `n * 0.95` truncated; `Num` and `Den` stand for 95 and 100 (the product with
the `f64` 0.95 is taken to be exact). An empty set of samples is an error, a
single one a panic. What `f64` rounds is not modelled: a reloaded model may also
differ in the last bit, as `serde_json` is used without `float_roundtrip`.

### Alerting

`start_classification_pipeline` spawns logger, inference and monitor in this
order and drops its handles of the alert channel on return (`Starter`): until
then it counts as sender and receiver. The logger opens the database, creates
the table, opens the text log, then receives without a timeout; row and line
are two steps, each of which may fail if `Faults` says so. The monitor receives
with a timeout and prints. The last receiver to leave discards what is queued
(`Leave`, as crossbeam does); a send without receivers fails. The blocklist
between verdict and alert is module `Mitigation`, the metrics channel
`Pipeline`. Spawning does not fail. `Init` allows `running` to be cleared
already, by a Ctrl+C during the training.

### Lifecycle

The contents of `config.toml` are the numbers of its edits, 0 (`Torn`) for one
that does not parse. An editor replaces the file at once, or truncates it and
fills it later (`Edit`, `FinishEdit`); either falls in the tick of the last
modification or in the next. `Crash` may come at any step, and `fs::write` of
the model is two steps with a torn file between. `train_model` is abstracted to
what its first lines decide: an error for no samples, an index panic for one, a
model otherwise; `training_samples` is what main read at its start, not what
the watcher put in use. The watcher's `Notice` (with `Skip` for a poll that
finds nothing newer), `Read` and `Replace` are separate steps, as the file
changes between them. `unnoticed` is history: the file was last edited before
the watcher's baseline, or within the tick it has seen, so that no modification
time betrays it. Modification times do not go back.

Any access to the file system may fail. A configuration main cannot read ends it
(`Start`); metadata that cannot be had replaces the baseline by the clock's time
(`Baseline`) and makes a poll find nothing (`Skip`); a modified file that cannot
be read is forgotten like one that does not parse (`Read`, `unread` is history
for it). A model file that is there but cannot be read means training
(`LoadModel`, `misread`), and the training ends in `fs::write` over it.

## The runs

All runs stop by themselves; `CHECK_DEADLOCK FALSE` is given where the system
may stop: when `MaxPackets` is reached or the worker has panicked (`FlowTable`,
`MockTable`), after shutdown (`Pipeline`, `Alerting`), when training has failed
(`Detector`), and when no start is left (`Lifecycle`).

| run | states | shows |
|---|---|---|
| `flow_window` | 2 714 | counters and features of a window of 3 over 7 packets per tenure: every overwrite and recycling position; implements `SlidingWindow` |
| `flow_table` | 158 995 | 3 slots, 5 flows, 6 packets: promotion of head, middle and tail, and eviction after each; an ICMP flow and one between two ports of an address; implements `FlowCache`; capacity 0 panics |
| `mock_flows` | – | violation: a pool of 3 flows is a fourth flow after 4 packets |
| `pipeline` | 1 274 787 | 2 workers, 2 flows, 2 packets each, queues of 1, all sources, `room` 0 or 1: accounting, and order as two refinements of `OrderedDelivery` |
| `pipeline_liveness` | 193 312 | 1 flow of 6 packets, queues of 1: delivery, how many packets may never reach a window, that a shutdown goes forward only, and the only way it hangs |
| `pipeline_shutdown` | – | violation: shutdown hangs with a full producer channel |
| `mitigation` | 301 584 | 3 flows under 2 addresses in 2 shards, 2 configurations, 2 alerts, clock to 3: blocks, suspects, answers, listings, locks |
| `mitigation_fresh_block` | – | violation: a fresh block is removed by a late expiry |
| `alerting` | 7 734 | 3 alerts, every file operation may fail, Ctrl+C at any time: no loss but without a database, drained at shutdown, threads exit, within a bound of steps fixed when the flag is cleared |
| `detector` | 14 427 | up to 4 samples of 3 kinds, every map onto {0, 1, 3, 4}, the median instead of the 95th percentile: the share of false alarms from both sides |
| `lifecycle` | 379 955 | 2 processes, 3 edits that may not parse, 4 contents with 2, 0, 1 and 5 samples, kills and failing file accesses at any step: the watcher follows the file, torn models are trained again, complete ones that can be read are kept |
| `alerting_monitor` | – | violation: an alert the monitor takes is not recorded |

Bounds. `WINDOW_SIZE` 2 or 3 stands for 128: the code only compares the count
with it and takes remainders, and the theorems hold for every size. Queues of
one packet make every send block in some state. Two packets per flow with two
flows let a queue be full while the router holds the next packet; six packets
of one flow fill producer, queue, router, queue and worker, the five that
`LossBounded` allows, and leave one that would break it. Two alerts
are what a block and its replacement need; a clock of 3 exceeds both TTLs. Three alerts let
each reader hold or have one while another is queued. Two starts, from a file
that is absent or complete, are a process that is killed while it writes the
model, or after, and one that finds it torn or complete; three edits are one that fails to parse between two that do not. Four
samples are enough for a threshold index that falls on an element and one that
is truncated (the median of 2, 3 and 4), and three kinds of flows on four points
for equal distances and for outliers on either side of the centroid.

Fairness. `Pipeline`: weak fairness of every thread – each is an OS thread that
the scheduler runs – and none for Ctrl+C, for new packets or for the end of a
file. Weak fairness is enough: each channel has one sender or one receiver that
could take the turn of another, except the metrics channel, which never blocks.
`Alerting`: weak fairness of every thread likewise; the logger and the monitor
may each find the channel emptied by the other, which is no loss.
`Mitigation`: strong fairness for applying a verdict and for serving a request
that has started, since both wait for locks others take repeatedly and release;
`DashMap` and `RwLock` wake their waiters on release (assumed, both are external
libraries). Weak fairness for the watcher's release.
`Lifecycle`: weak fairness of the watcher, and strong fairness of `Notice`: the
metadata of a file that stays newer can be had at one of the polls, which go on
every two seconds. A read may fail every time. Main may wait for packets to
train on forever, and nobody has to edit, kill or start. No fairness for requests,
verdicts, edits or time.

Every property of a passing run has a mutant of the code in the module of the
definition it changes (named `...`: "Mutant of ..."), which violates it.

## The findings

1. The mock source has as many flows as packets, whatever `flows` says: with
   1000 addresses a key comes back after a million packets, when the table has
   long evicted it, so that training and verdicts see windows of one packet
   (`mock_flows` finds the fourth flow in a pool of 3; `MockFlowsAreNew` proves the
   rest for any number of addresses and any table smaller than the 50000 ports or
   than the pairs of addresses, as the default 65536 slots are for 1000 addresses).
   The comment at capture:138 also promises SYN in 10% of the TCP packets: SYN goes
   to the counts divisible by 10 and TCP to the even ones, so it is 20%.
2. Ctrl+C does not end the process when the producer's channel is full
   (`pipeline_shutdown`).
3. `/check` can delete a block younger than its request (`mitigation_fresh_block`).
4. An alert the monitor receives never reaches the database or the log
   (`alerting_monitor`).

Four more are stated as the exceptions of a property that holds. A modified
configuration that cannot be read once is not read again until the next
modification, since `last_metadata` has advanced (main.rs:93, 112;
`WatcherUpToDate`, `EditsTakeEffect`). A complete model file that cannot be read
is trained again and written over (main.rs:269, 325; `CompleteModelKept`).
`capacity < workers` gives each worker a table without slots, and its first
packet panics it (`PanicsOnlyWithoutRoom`); between two ports of one address
every packet is Forward, the answers too (`DirectionsFollowInitiator`). And
README.md:72-74 documents `--mode train` as "force retraining"; main stores the
mode, and nothing looks at it again.

## The theorems

All are proved for every value of the constants allowed by the named `ASSUME`s
(`WindowAssumption`: the window is not empty; `PipelineAssumption`: finitely many
workers, a hash that sends every flow to one, channels with room, at least two
training samples; `PacketsAssumption`, `EventsAssumption`, `CapacityAssumption`,
`MaxPacketsAssumption`, `TotalAssumption`, `MitigationAssumption`, `DetectorAssumption`,
`AlertingAssumption`, `LifecycleAssumption`: types). `PROJECT.json` names a theorem
once for each property it states.

* `WindowInvariant`, by `WindowInv`: type, `WindowShape` and exact aggregates.
  `WindowShape` (the write position is the count until the window is full) is
  what makes the debited slot the one that is overwritten. A window sum is the
  cardinality of a set of pairs <<slot, unit>>, so that replacing one slot's
  packet is an argument about finite sets and needs no induction
  (`PairsInsert`, `UpdateExact`).
* `FlowWindowRefines`: `UpdateSlides` shows that overwriting at `head` and
  advancing is appending and dropping the oldest.
* `MetricsRight`, by `WindowInv` and the bound of a slot's data (`Sound`): the features
  are those of the window. What needs induction is proved from the well-founded
  order of the naturals: a set of numbers with a successful step has no least
  exception (`UpTo`). From it: the recursive sums of the definitions exist and are
  added element by element (`SumsExist`, `SumByParts`), they are the cardinalities
  `WindowInvariant` speaks of (`SumIsPairs`), the sum of squared differences over
  all pairs is n times the sum of squares less the square of the sum
  (`SpreadFromSums`), an ascending reordering of the timestamps exists
  (`SortExists`), and the loop over it telescopes to the span (`Telescope`,
  `IntervalLoop`). `ScanFacts` relates the scan of the slots in any order to the
  ends of the sorted timestamps.
* `FlowKeyIdentifiesConversation`: a key is the unordered pair of endpoints
  with the protocol.
* `FlowTableInvariant`, by `TableInv`: `RecencyList` (`Ordered`) states the list
  by the ages of the slots rather than by reachability, which again avoids
  induction; `UnlinkOrdered`, `LinkOrdered` and `RelinkOrdered` are about the
  list alone, `HitKeeps`, `AllocateKeeps`, `RecycleKeeps` about the actions.
* `FlowTableRefines`: one lemma per path of `process_packet`; it needs
  `TableInv` for the victim to be a least recently used flow and for the number
  of flows to be the number of slots.
* `DirectionsRight`, by `OpenersKnown`: the initiator a slot keeps is the source of
  an event of the slot's flow, so that the next event of the flow comes from
  there or from the other endpoint (`FlowKeyIdentifiesConversation`).
* `MockFlowsAreNew` (`MockWindowsHoldOnePacket`, which no run checks), by `MockInv`:
  the flows a table holds are those of the latest packets of the generator, at most
  `capacity` of them. Its hypothesis `MockFeed` is that there is an address and that
  `Events` contains what the generator makes; the values of `mock_flows` satisfy it.
  `MockPeriod` shows that two packets with one key are at least 50000 apart, for the port to return, and at least
  the square of the number of addresses, for the pair of them to return
  (`MultiplesApart`, `PairPeriod`). So `process_packet` never takes its
  hit path (`MockNeverHits`).
* `WindowsInOrder` and `VerdictsInOrder`, by `PathInv`: `ChainAt` lists a flow's
  packets from the worker's table back to the capture – channel, router,
  channel, producer – as adjoining ranges of numbers, and `JudgeChain` from the
  detector back to the table. `InOrder` says what a channel holds of a flow by
  positions and numbers, not by filtering the sequence, which would need
  induction. The chain is claimed only while the flow's worker is there: what a
  stop cuts off reaches nobody. Both are refinements of `OrderedDelivery`.
* `PacketsAccounted`: given `PathInv`, the number of a packet decides its place
  (`Places`), so that the places are a partition (`PlacesPartition`); the count is
  kept by `Counted`, step by step.
* `StopLosesFew`, by `LossInv` and `ExitsAreEmpty`: each worker that has exited
  accounts for at most one channel of lost packets and holds nothing more, and the
  router for one, since after the flag is cleared it does not come to a second
  receive; what is still upstream or with the other workers is counted by their
  places (`FewUpstream`, `FewInWorkers`). It bounds the packets that never reach a
  window. Nothing bounds what is lost behind the windows: the metrics channel has
  no capacity, and what the detector has not judged when it exits is dropped.
* `PipelineTypes`: the types, by `TypeInv`.
* `ShutdownIsFinite`: once the flag is cleared, `StepsLeft` is a finite set
  (`StepsFinite`) that every step of router, workers, inference thread and main
  makes smaller (`RouterAdvances` and its like, `FewerSteps`), whatever is queued.
  It is the part of `OnlyProducerHoldsShutdown` that needs no fairness: a shutdown
  cannot go round in circles, so only a thread that waits can hold it up. The
  producer is left out: it may go on sending while it finds room.
* `BlocklistInvariant`, by `MitigationInv`: an entry that does not fit the
  latest verdict has a verdict on its way (`Pending`), and an insertion on its
  way carries the time of the latest one.
* `SuspectsInvariant`, by `TrackInv`: as above, for every flow whose verdict is
  fresh, with the entry an expiry has found (`raced`) accounted for.
* `AnswersRight` and `ListingsAreSnapshots`, by `RequestInv`: what the request has
  read so far was right when it was read; `ListInv` relates the shards already
  visited to `listable`.
* `ThresholdBound`, by `DetectorInv`: the sorted distances are
  a permutation of the samples', so the samples above the threshold inject into
  the positions after it, and those below into the positions before. No induction
  over the sort is needed.
* `AlertingInvariant`, by `AlertingInv`: `Placed` is the partition of the alerts
  over five places; `Ordered` puts channel, logger and records in one order, so
  that the head of the channel is in no other place; `Drained` says that a
  logger that exited in order left no sender behind, which is why nothing can
  be dropped afterwards; `Backed` ties each line to its row.
* `AlertingIsFinite`: once the flag is cleared, the number `StepsLeft` falls with every
  step. An alert in the channel is worth the receive, row and line it costs its
  reader, and the inference thread still owns the one it may send, so that the
  late alert is paid for; likewise the safety part of `AlertingStops`.
* `LifecycleInvariant`, by `LifecycleInv`: `WatcherUpToDate` is not inductive
  alone; `WatcherInv` adds that what is about to replace the configuration is
  the file's content unless a newer time is waiting, and that before the
  baseline every difference is `unnoticed`. The theorem states the types too.
* `ModelKept`, by `Writing`: a process that is training or writing while the file
  is complete could not read it.

Model-checked only: everything under fairness, which the prover does not handle:
`EveryPacketEvaluated`, `OnlyProducerHoldsShutdown`, `LocksReleased`,
`EditsTakeEffect`, `AlertsHandled`, `AlertingStops`.

## Not modelled

What `f64` rounds, in the features, the distances and the model's JSON; how
`gamma` and the projection are drawn (any map stands for them). The throughput
and latency figures of monitor and `/api/stats`, the query behind
`/api/anomalies` and the HTML page: they report and decide nothing. The database
`/api/anomalies` opens is that of the configuration in use (nginx.rs:183), the
logger's that of its start (main.rs:373-380): after a reload that changes
`database_path` the feed is another one's. The sleeps
and batches of the mock generator; the wording of logs. The failure of a thread
spawn. The predecessor under `crates/`, which the root package does not build,
and the benchmarks and packaging, which have no behaviour of their own.

## Plan

Done: flow state, flow table, capture, pipeline, blocklist with `/check` and
`/api/stats`, detector, alerting and lifecycle, and every safety property of the
runs proved.

Left:

1. Alerts with the address they name, and the blocked address (`ip_min`) against
   the initiator of the flow.
2. A spawn that fails in the middle of `start_classification_pipeline` (the
   threads started before it keep running).
3. The latency counter, which the inference thread and `/api/stats` share.
