# Verification of the telemetry threat engine

TLA+ models of the engine in `engine/src`, the TLC runs that check them on small
instances, and TLAPS proofs of the central results for every instance. Paths are
relative to the repository root. `PROJECT.json` lists the components, the runs, the
mutants, the definition-to-line map, the findings and the hazards.

To run a check: `tlc -config <X>.cfg <MC module>`; to check proofs:
`tlapm <X>Proofs.tla`.

## 1. The system

```
 Simulator ──batch──> producer ──shard_key % n──> MpmcQueue[w] ──> worker[w]
 (ingestion.rs)       (pipeline.rs)               (queue.rs)        │ SignatureDetector
                          │ events_dropped                          │ WindowedAnomalyDetector
                          v                                         │ CepEngine
                      AppState.stats <───────── events_processed ───┤
                      AppState.alerts <──────── record_alert ───────┘
                          ^
              REST API (api.rs) <── dashboard/index.html, analysis/capture_telemetry.py
```

| Component | State it keeps | Operations | Touches |
|---|---|---|---|
| Lock-free queue (`queue.rs`) | ring of slots with sequence numbers, two positions | `push`, `pop` | producer and worker threads |
| CEP engine (`detection/cep.rs`) | per rule and source: list of partial matches | `process` | owned by one worker |
| Anomaly detector (`detection/anomaly.rs`) | Count-Min table, one HyperLogLog per source, two sets of alerted sources, window start | `observe` (→ `maybe_roll_window`) | owned by one worker |
| Signature detector (`detection/signature.rs`) | automaton, id counter | `scan` | owned by one worker |
| Pipeline (`pipeline.rs`, `main.rs`) | one queue per worker, statistics, alert store | producer loop, worker loop, `record_alert` | everything above; store and statistics are shared with the API |
| Event and alert types (`models.rs`) | – | `is_syn`, `shard_key`, `flow_key` | all |
| Ingestion simulator (`ingestion.rs`) | tick counter, random generator | `next_batch` | producer |
| REST API (`api.rs`) | – (reads the shared state) | `/health`, `/stats`, `/alerts`, `/rules` | shared state, dashboard |
| Dashboard (`dashboard/index.html`) | token, last answers | login, polling loop | API |
| Telemetry capture (`analysis/`) | ids of alerts seen | polling, deduplication | API |
| XDP filter (`engine/ebpf-reference/xdp_filter.c`) | per-CPU drop and forward counters, socket map | `xdp_filter_prog` | reference code, not loaded by the engine |

What is hard here, and which property would notice it going wrong:

* **Threads that meet inside the ring buffer.** A slot's value is not atomic; only its
  sequence number keeps a second thread out (`ExclusiveAccess`, `ProtocolInv`). Positions and
  sequence numbers may be stale when used, and positions are published out of order
  (`RefinesFifo`, `CallsReturn`, `ItemsDelivered`).
* **One event that completes, advances and starts partial matches at once**, in a reversed
  loop with a `break` (`PartialsOrdered`, `AlertJustified`, `SequenceDetected`,
  `FiresOncePerStart`).
* **Estimates instead of counts.** Collisions push an estimate past the threshold without
  hitting it, and windows roll over only when an event arrives
  (`NeverUndercounts`, `FloodRaised`, `OneAlertPerWindow`, `FloodJustified`, `ScanExact`,
  `SketchesOfWindow`).
* **Overload.** The producer must neither block nor lose an event without counting it;
  statistics and the alert store are updated in separate steps (`EventsConserved`,
  `SourceAffinity`, `AlertsInEventOrder`, `StoreIsRecent`, `ProducerNeverBlocks`,
  `WorkersIndependent`).
* **What becomes of an attack.** Its packets are spread over queues that overflow, mixed with
  benign packets of the same source, and split over windows; per-worker detectors see only a
  part of the traffic (`BurstReported`, `ExploitReported`, `TraversalReported`,
  `NoneAccusedFalsely`, `ShardedAsWhole`).
* **Watching from outside.** One answer of `/stats` mixes several instants, polls overlap,
  rounds fail half-way, and alert ids repeat between workers (`ShownIsSnapshot`,
  `SeriesNeverFalls`, `CapturedOnce`, `CaptureMissesLittle`, `GoesBackOnlyOnOverlap`).
* **A login that is a wait.** The handlers of two clicks share the globals of the page, an
  engine restarts with another token between its answer and the handler or later, and a poll
  cannot carry every token that a login can (`RefusedForAReason`, `OneLoop`).

## 2. Modules

| Module | Models | Extends / uses |
|---|---|---|
| `BoundedFifo` | abstract: what the queue promises | – |
| `MpmcQueue` | `queue.rs`, one action per shared-memory access | `INSTANCE BoundedFifo` |
| `Lists` | what `Vec::retain` and a loop that appends under a condition leave | – |
| `NetworkEvent` | the fields and predicates of an event that detectors use | – |
| `CepEngine` | `cep.rs`, `process` as one action | `NetworkEvent`, `Lists` |
| `CepHistory` | `CepEngine` with a record of every event and alert, and event time stamps | `CepEngine` |
| `AnomalyDetector` | `anomaly.rs`, `observe` as one action | `NetworkEvent` |
| `AnomalyHistory` | `AnomalyDetector` with exact counts and a log of events and alerts | `AnomalyDetector` |
| `Pipeline` | `pipeline.rs`: producer, workers, statistics, store | – |
| `Signature` | `signature.rs`: the five patterns and the overlapping search | `NetworkEvent` |
| `Simulator` | `ingestion.rs`: what `next_batch` may return at a tick | – |
| `Engine` | `pipeline.rs` end to end: simulator, routing, workers with their three detectors | `Simulator`, `Signature`, `INSTANCE AnomalyDetector`, `INSTANCE CepEngine` |
| `Session` | the login of `index.html` with `/login` and `require_auth` of `api.rs` | – |
| `Monitor` | `api.rs`'s `/stats` and `/alerts`, `capture_telemetry.py`, the dashboard's polls, beside the running pipeline | `Pipeline`, `Lists` |
| `DataLemmas` | lemmas on numbers, sequences and `Lists` that several proofs need | `Lists` |
| `MpmcQueueProofs`, `CepProofs`, `AnomalyProofs`, `PipelineProofs`, `SessionProofs`, `MonitorProofs`, `EngineProofs` | theorems about the module of that name (section 5) | that module, with its history where it has one; `DataLemmas` where a sequence is computed |
| `MC*` | constants for TLC | the module of that name |

The `*History` modules add variables that the code does not have and that no guard of a
detector reads; they let a property compare the detector with what really happened. Their
only restriction of behaviour is `MaxEvents`, and in `CepHistory` the time stamps.
Definitions marked *Mutant* are the plausible bugs that show a property can fail; no
specification uses them.

### MpmcQueue

`sequence`, `value`, `enqueue_pos` and `dequeue_pos` are the fields of `MpmcQueue` and
`Slot`; `pc`, `pos` and `item` are the program counter and locals of the call each thread is
in. `push` is split into the load of `enqueue_pos` (`PushLoad`), the load of the slot's
sequence number with the three-way comparison (`PushReady`, `PushFull`, `PushBehind`), the
compare-exchange (`PushClaim`, `PushLose`), the write (`PushWrite`) and the store that
publishes (`PushPublish`); `pop` likewise. `PushCheck` and `PopCheck` are the load of the
sequence number with the branch it leads to. `compare_exchange_weak` may fail spuriously.

Loads may be stale, whatever their ordering. A Relaxed load returns any value of the position
between the last one the thread saw and the current one (`RelaxedLoad`); an Acquire load returns
any number the slot has ever had (`AcquireLoad`), which is a little more than the hardware allows,
since a thread may here see an older number after a newer one. So `push` can return `Err` after the
`pop` that freed the slot has returned, and `pop` can return `None` after the `push` of the head
has. What Acquire and Release do give is order: a thread that claims a position has seen the number
stored for that position, and `ProtocolInv` shows that this number is then still the slot's
latest, so the thread finds the value as it was left at that store. Only therefore are accesses to `value`
modelled in the current state. Positions are naturals: 2^64 calls are out of reach, so wrap-around
is not modelled.

`BoundedFifo` is what the queue promises. The refinement mapping takes a push to have
happened when its compare-exchange succeeds: the item is then in the queue, in the
producer's hands until it is written. An unsuccessful push or pop is a stuttering step.

### CepEngine

`active[r]` is the HashMap of rule `r`; its domain is the set of keys. `process` composes the
code's passes over the list of one key in their order: `Unexpired` (retain), `Advanced` (the
reversed loop with its break), `Dropped` (retain after a completion), `Started` (push). An
alert is `Fires(r, event)`. A payload is a sequence of pieces, and no piece occurs inside
another, so a pattern occurs in the bytes where its pieces occur (`OccursAt`, `HasPattern`).
`PortBound` is the constant 1024 of `IsRareAdminPort`.

### AnomalyDetector

The hash functions are constants, so that collisions are values of a parameter. A HyperLogLog
is the set of its non-zero buckets: with 1024 buckets the estimate reaches 25.0 exactly when
25 buckets are non-zero, since linear counting is used up to 102 non-zero buckets and the raw
estimate above that is far beyond the threshold whatever the ranks are. `Table`, `Buckets`,
`Flooded` and `Scanned` are the state after `maybe_roll_window`, which reads the clock a
second time (`SecondRead`): time may pass between the reading that decides and the one that
becomes `window_start`.

### Pipeline

Each `fetch_add` and each critical section is a step. A queue is a sequence, as `RefinesFifo`
allows, and an operation takes effect in one step. Either may fail without need, since it may have
read an old sequence number: a `push` whose slot has been used before may be refused although the
queue has room (`SlotLooksTaken`, `PushErr`), and a `pop` that returns `None` changes nothing, so it is
no step. Detectors return any number of alerts up to a bound,
numbered by a counter of their own; a batch is any sequence of events of any sources.
`produced`, `handled` and `recorded` are history.

### Signature, Simulator and Engine

`Signature` computes what the automaton finds: all occurrences of all patterns, in the order in
which they end. `Simulator` computes the batches of a tick; the random source is the choice
of one of them, and each packet also says for which kind of traffic it was made (`kind`), which
no detector reads.

`Engine` puts the detectors' own modules into the workers: `Anomaly(w)` and `Cep(w)` are
instances over the record of worker `w`. Where `Pipeline` splits a worker's turn into accesses
to shared memory and lets a detector find anything, `Engine` handles an event in one step at
one instant and computes the alerts; statistics and the store are left to `Pipeline`. Both
are needed: the interleavings are those of `Pipeline`, the verdicts those of `Engine`.

The thresholds are scaled down: a flood reaches the SYN threshold, a scan reaches the threshold for
ports, and benign packets and probes by themselves reach neither (`TrafficAssumption`). In the code a scan's SYNs alone
stay below the SYN threshold; in the run they reach it too, which `TrafficAssumption` leaves open. Properties about an attack are
conditional on what the engine cannot help: the queue took its packets, and the worker got to
them within one window (`BurstReported`) or within the rule's window (`ExploitReported`). `Push`
drops an event under the same condition as in `Pipeline`.

`NoneAccusedFalsely` looks at each alert with everything its worker has handled of the accused source up to
and including the event that raised it, in the order of handling. A flood alert needs
`FloodThreshold` SYNs of that source in that window, unless other sources of its worker
collide with it in every row of the sketch (`Distinguished`); in that case it may be accused for their
SYNs, as with any Count-Min sketch. An alert for a port scan needs a packet of a scan in the same window;
the CEP alert needs an earlier SYN within the rule's window and a malicious payload now.

`ShardedAsWhole` is a refinement: the CEP engines of all workers, taken together, behave as one
`CepEngine` that sees every event. It rests on a source staying with one worker.

### Session

One page, several engines. A click sends `/login` and keeps its `token` in the handler, while
`API_BASE` and `TOKEN` are globals: when two logins overlap, the later click's base can meet the
earlier click's token. A login is sent, checked by the engine (`CheckLogin`) and, two awaits later,
handled by the page (`LoginOk`, `LoginRefused`), or fails (`LoginFails`); the engine can be restarted in
between. `Restart` is the container's restart policy with any new value of
`API_TOKEN`, unset and empty included.

A login sends its token as JSON, a poll behind `Bearer ` in a header. `Carried` says what becomes of a token on the
second way: `fetch` drops white space at the end of the header and throws for characters outside Latin-1
(`Unsendable`), and `require_auth` reads no token where `to_str` finds a byte outside visible ASCII or where
nothing is left behind `Bearer` (`Unreadable`). An empty `TOKEN` is falsy, and no header is sent.
What the login screen says is left out. `during` (in `logins`) and `restarted` are history.

### Monitor

The composition of the pipeline with its observers. The capture script is one process: a
round loads the four fields of `/stats` one by one (`CaptureLoad`), appends the row, gets a
page (`CaptureAlerts`) and keeps the alerts whose key is new; a failure at any point
(`CaptureFails`) ends the round and keeps what it has appended. The dashboard's polls run side
by side; each awaits two answers and then replaces what is shown (`PollApply`). A missing or
wrong token is one of the ways a request fails. `fetched`, `outpaced` and the polls' `during`
are history.

## 3. Runs

| Run | Question | Instance |
|---|---|---|
| `queue_safety` | exclusive slots, bounded ring, the inductive invariant, refinement of the FIFO, with stale loads of positions and sequence numbers | 2 producers, 2 consumers, 2 slots, 2 items, 5 pushes and more in flight: over two laps |
| `queue_progress` | calls return; accepted items are delivered | 2 producers, 2 consumers, 2 slots, liveness without symmetry |
| `queue_capacity_one` | *violation*: a ring of one slot overwrites | 1 slot |
| `cep_detection` | alerts are justified, none is missed, none doubled, order of the list | 2 sources, a two-step and a three-step rule, 5 events of 4 shapes, windows of 1 and 2 ticks |
| `cep_event_time` | *violation*: the window is not measured in event time | events delayed by up to 3 ticks |
| `cep_stale_kept` | *violation*: partial matches of a silent source stay | 2 sources, fairness of time and of the worker |
| `anomaly_detection` | no flood missed, one alert per window, false alarms only by collision, scans exact, nothing kept of earlier windows | 3 sources, 2×2 table with collisions in both rows, counters that saturate at 3, ports that share a bucket, windows of 2 ticks, 4 events |
| `anomaly_sliding_window` | *violation*: the window tumbles | 1 source |
| `pipeline` | conservation, affinity, alert order, store contents; the producer never blocks; a worker that runs handles everything queued for it | 2 workers, 2 sources, queues of 1, store of 2, 3 events in batches of up to 2, up to 2 alerts of the first detector and 1 of the last for one event; liveness without symmetry |
| `engine` | attacks that get through are reported, nobody is accused falsely, the workers' CEP engines are one | 2 workers, 3 sources of which two share a worker and a column in one of two rows, 1 batch with every attack (8 packets), queues of 4, so that some are dropped; clock to 2, windows of 1 |
| `session` | why polls are refused, when a second polling loop starts | 2 engines, 7 tokens (fallback, empty, another, that one with a space behind it, a space, one outside ASCII, one outside Latin-1), 2 clicks, 1 restart |
| `monitoring` | pages are snapshots, the series never falls, capture is complete up to the page's length and twin ids, the display goes back only on overlap | 2 workers, 2 events of one millisecond, 2 alerts each, store and dashboard page of 2, capture page of 1, 2 rounds or polls |

The bounds are chosen so that every limit is hit: the ring wraps more than twice, queues
overflow, the alert store forgets, counters saturate, windows roll over between and during
events, partial matches expire at exactly the window's length. Where a bound stops the system
(`MaxEnqueues`, `MaxEvents`, `MaxTime`, `MaxProduced`, `MaxTicks`,
`MaxClicks`, `MaxRestarts`, `MaxPolls`) the end is not a deadlock of the
program; the queue runs need no exemption because a consumer can always call `pop` again.

**Fairness.** `queue_progress`: a thread inside a call keeps running (weak fairness of its
steps); a store becomes visible to a thread that loads again and again, be it a position or a
sequence number, and a compare-exchange with the right value does not fail spuriously for ever (strong fairness of
those two outcomes), which is what the hardware provides; consumers call `pop` in a loop as
`spawn_workers` does; nobody has to push. A lock-free queue does not promise that each call
returns however often others win the race: `CallsReturn` holds because strong fairness of
`PushClaim` and `PopClaim` is assumed and the number of pushes is bounded.
`pipeline`: the producer thread runs; `ProducerNeverBlocks` assumes nothing of the
workers, and `WorkersIndependent` assumes in its own premise that the one worker it speaks of
runs, and nothing of the producer and the other workers. Each may stop anywhere but between
taking and releasing the lock of the store, which is one step (`RecordStore`).
`cep_stale_kept`: time passes and the worker gets events; no particular source sends again.

## 4. Findings

1. **`MpmcQueue::new(1)` builds a broken queue** (`queue_capacity_one`). The assertion
   accepts 1. With one slot "published at pos" and "free for pos + 1" are the same sequence
   number, so the second push overwrites the first item. The engine uses 1 << 16.
2. **The CEP window is processing time** (`cep_event_time`): after a backlog, events whose
   time stamps are further apart than the window make an alert.
3. **Expired partial matches are kept** (`cep_stale_kept`) until their source sends again.
4. **The anomaly window tumbles** (`anomaly_sliding_window`), although the documentation calls
   it sliding: a burst over the boundary is split.

Seen while reading, with no run of their own:

* `pop` may return `None` although a `push` has completed: when an earlier push is between claim and
  publication, or, with any number of threads, when its Acquire load of the sequence number returns an
  old one. In the same two ways `push` may return `Err` on a queue with room, and the
  pipeline then drops the event. Nothing accepted is lost by it (`RefinesFifo`, `EventsConserved`,
  `ItemsDelivered`).
* A token that `/login` accepts may be refused on every poll: the empty token, for which the dashboard
  sends no `Authorization` header; a token that ends in white space, which `fetch` trims; and one
  with characters outside visible ASCII, which `to_str` rejects (outside Latin-1 the poll fails in
  `fetch`, without being sent). The same silence follows a restart with another token, also one between the
  engine's answer and the page's handler, and two overlapping logins at different engines.
  `RefusedForAReason` says that there is no other way in the model.
* The condition `HasSignaturePayload` of the CEP rule only looks for `passwd`: a probe followed by any
  of the other signatures raises signature alerts, and no CEP alert.
* `docs/RUNBOOK.md` calls one dead worker a reduced capacity; the sources of that worker are not
  inspected at all from then on, while those of the others are as before (`SourceAffinity`,
  `WorkersIndependent`).
* A restart of the engine resets counters and alert ids in the middle of a capture.

Also: a CEP rule with one step would never fire; the
comment in `cep.rs` about visiting the match furthest along first is contradicted by the
`rev()` beneath it (the list is oldest and furthest first, `PartialsOrdered`);
`port_cardinality` keeps a 1 KB sketch per source although the module is introduced as
fixed-memory; `docs/DESIGN.md` still describes one shared queue in places; the `/rules` listing
omits signatures that `signature.rs` has; alert ids are unique only within one detector of one
worker, so `capture_telemetry.py` can take two alerts of one millisecond for one
(`CaptureMissesLittle` says that it loses nothing else); the dashboard does not order the
answers of overlapping polls, so its counters can go back (`GoesBackOnlyOnOverlap` says when).

## 5. Proofs

Eight modules hold the theorems; `PROJECT.json` lists 44 of them. Every safety property that a
passing run checks, every action property and both refinements are proved for all values of the
constants that satisfy the named `ASSUME`s. Each proof has the same plan: an invariant that is
inductive, `Init => IInv`, one lemma per action for `IInv /\ [Next]_vars => IInv'`, and a last
lemma that takes the property from it.

### The queue (`MpmcQueueProofs`)

For any sets of producers, consumers and items and any `Capacity >= 2` (finding 1 shows that 1 is
rightly excluded), and with stale loads: `TypeOK`, `ExclusiveAccess`, `QueueBounded`, `ProtocolInv` and
the refinement `RefinesFifo`.

That two producers are not in one slot depends on what the slot's sequence number said when they
claimed. `ProtocolInv` therefore looks at the last `Capacity` positions claimed by push: each slot is
the slot of exactly one of them, and its sequence number says how far that position has got –
being written, published, being emptied, given back (`SlotState`). `ProducerState` and
`ConsumerState` say that a thread inside a slot is the only one with its position and that the
sequence number still is the one that admits it. A thread at its compare-exchange has seen its
position's number, perhaps an old one, so it knows only a
lower bound on the slot's number; if the exchange succeeds its position is the current one and the
window pins the number down. The arithmetic lemmas say that two positions less than `Capacity` apart
have different slots.

`ProtocolInv` goes from threads to slots. The refinement also needs the converse, that a position
which is claimed and not published *has* its producer inside the slot: that is `HolderState`,
inductive relative to `ProtocolInv`. Without it an item could be neither in the slot nor in anybody's hands.

`QueueIsFifo` maps the items of the claimed positions to a sequence (`QueuedSequence`): a successful
compare-exchange of `push` appends, one of `pop` takes the head, every other step stutters.

### The detectors (`AnomalyProofs`, `CepProofs`)

For any sources, ports, table, hash functions, bucket function, counter width, window and thresholds
with `FloodThreshold <= CounterMax`:

* `NeverUndercounts`, `FloodRaised`, `OneAlertPerWindow` and `AnomalyTypeOK` come from `HistoryInv`.
  `FloodRaised` needs the sketch (a source at the threshold has an estimate at the threshold) and
  `AlertedSetsExact`: a source is in `alerted_flood_this_window` exactly when the log has its alert in
  this window. The same equivalence makes alerts unique. The rollover is the delicate case: the set is
  emptied and the window number rises in the same step.
* `SketchesOfWindow` and `ScanExact` come from `ScanInv`. `ScanExact` compares cardinalities, so it
  needs the kept buckets to be finite and to be exactly those of the window; that a source already
  alerted still has the threshold's buckets (`AlertedStaysFull`) is `ScanExact` at the event that
  raised the alert.
* `FloodJustified` comes from `FloodInv`. The property counts within a moving window while the detector
  counts within a fixed one: the invariant says that the exact count is the number of SYNs of the
  log in this window, that a row in which a source is alone never exceeds it, and that everything
  logged in this window lies between `window_start` and now, hence less than a window back.

For any rules of two steps or more, any windows, sources and events:

* `CepTypeOK` and `PartialsOrdered` are inductive together (`CepInv`). Their proof computes the passes of
  `process` position by position (`RetainedElements` of `DataLemmas` is what `Vec::retain` does, for
  lists of any length), and shows that filtering, the reversed loop with its `break`, and the final push
  keep the list sorted both by age and by progress.
* `AlertJustified` needs a witness for every partial match: `Witnessed` says that the steps it has made
  are events of its source, in order, the first of them when it began.
* `SequenceDetected` needs the converse, `Tracked`: every first step within the window that no alert has
  come after has a partial match that is as far along as *any* matching that begins there. This is
  where greedy matching is shown to be enough.
* `FiresOncePerStart` is a count: `Counted` says that the partial matches and the alerts of a source are
  together no more than its first steps.

### Pipeline, observers, session (`PipelineProofs`, `MonitorProofs`, `SessionProofs`)

For any workers, sources, capacities and routing hash, `PipelineInv` has one part per fact a reader
would need: `PipelineShape` (types), `EventsConserved` (each event is in one place or one statistic),
`EventOrder` (batch, queue and hand are each in order, each older than what comes before it, and all at
the worker of their source), `HandledOrder`, `PendingOrder`, `RecordedOrder` and `StoreIsRecent`.
`SourceAffinity` and `AlertsInEventOrder` follow only from these together: an alert in hand is ordered
with the recorded ones because its event is ordered with the handled ones, which is so because the
queue was. `IdsRise` (an id is never given twice by one detector of one worker) is proved over it.

`WatchingChangesNothing` proves that `Monitor` refines `Pipeline`, so all of this holds while being
watched. `SeriesInv` orders the four loads of a row under way with the rows already written. In
`DashboardInv` every page in hand or shown is a `Snapshot` of the store's history, and a poll that
began after another was applied has no lower count; `GoesBackOnlyOnOverlap` is an action property that
follows from it. `CaptureInv` keeps `seen_ids` exact for the rows: the keys seen are the keys of the
rows, no two rows have one key, and only alerts that left the page are without one.

`SessionInv` says that a login that is not done was under way when any later one was sent
(`LoginsOverlap`). Without overlap, the token of a login that the engine has accepted is
the engine's token unless that has been restarted since it checked: while the handler has not run
(`AcceptedInTime`), and when it has, which then is the only one that ever did (`LoggedInOnce`). The theorem makes no
assumption on `Carried` but that the fallback token is carried as it is.

### The engine end to end (`EngineProofs`)

For any workers, queues, sources, routing, hash functions and clock. `EngineBase` relates the history to
the traffic:

* `Line(w)` is what worker `w` has handled followed by what is queued for it; handling an event does not
  change it. `OrderInv`: a line holds events of its shard only, in the order in which they were sent, and
  the rest of the batch comes later.
* `DrawnInv`: the events of a tick are packets of one batch, at the places they say, and that batch is
  laid out as `next_batch` does it (`Laid`): benign, flood, payload, probe and exploit, scan.
* `SynsBounded`: there are at most as many SYNs as the ticks allow. `TimeInv`: times of entries and
  windows never go back.

On top of it:

* `TraversalReported` computes the automaton's answer for the payloads of the traffic
  (`ScanFinds`): both overlapping patterns, and no third.
* `NoneAccusedFalsely` (`FairInv`): a source's sketch holds the buckets of ordinary ports unless it has
  scanned in this window; in a row where a source is alone among those of its worker, its
  counter is at most the number of its SYNs that the worker has logged in this window (`CountsOwn`), and the estimate is
  the least of the rows; a partial match began at a SYN of its source in the log
  (`StartsLogged`). Each entry of the log is judged by the entries before it (`FairEntry`), so later
  ones cannot spoil it.
* `ExploitReported` (`SequenceInv`): probe and exploit are neighbours in their batch and go to one worker,
  so by `OrderInv` they are neighbours in its line; after a SYN the youngest partial match of its
  source began at that SYN.
* `BurstReported` (`BurstInv`): for every source and every window, past or present, what has reached a
  threshold is reported. For the current window this needs what the detector's collections say of the
  log (`Tells`); a counter that saturates still covers the count, as `FloodThreshold <= CounterMax`. The
  property then follows by counting: a burst that is complete, from one source and in one window
  has as many entries there as its size, and a scan's have the buckets of all its ports.
* `ShardedAsWhole`: `Merged` puts the lists of all workers together. Since a source has lists with one
  worker only (`CepTypes`), the `CHOOSE` in the refinement mapping has one choice and a worker's
  `process` is the merged engine's `process`. `CountInv` and `SynsBounded` show that the bound the
  abstract engine is given is never reached.

What the theorems assume of the constants is what the code has. `DetectorAssumption`: at least one
row, hash functions with values in the table, thresholds above zero and within the counter's width
(50 against `u32`). `TrafficAssumption`: the 80 SYNs of a flood reach the threshold of 50; the 39 ports of a
scan fall into 38 different buckets under the `FxHasher` of `rustc-hash` 1.1 with 1024 buckets (the
four benign ports into four), so a scan reaches 25 and ordinary ports stay below it.

### What is only model-checked

The properties under fairness – `CallsReturn`, `ItemsDelivered`, `ProducerNeverBlocks` and
`WorkersIndependent` – since liveness and `ENABLED` are out of this prover's reach; and the four
violations of section 4. The functions that recurse over a list (`Retained`, the lists of
`process`) are recursive functions over a range of numbers; what they compute is proved by the
least-number principle (`LeastNumber`), because the library's induction theorems cannot be applied.

## 6. What is not modelled

* The text, ids, severities and JSON of alerts; logging; the notebook and charts; build and
  container files.
* `HyperLogLog::clear`, `flow_key` (dead code), and the statistical accuracy of either sketch.
* Wrap-around of `usize` positions and of the `u64` statistics.
* `/health`, which loads a prefix of what `/stats` loads, and `/rules`, which is a constant; the
  dashboard's filters and drawing.
* Source ports, destination addresses and time stamps of the simulator's packets (time stamps are in
  `CepHistory`); the severities of signatures.
* The XDP filter: reference code that no build target compiles and nothing loads. It handles one
  packet at a time, and nothing reads the counters it keeps.
* A thread that panics with the store's lock held: the code between lock and unlock cannot.

## 7. Plan

Done, in order: the queue with its abstract specification and invariant; the two stateful
detectors with histories; the pipeline; the API and its clients; signatures, the simulator, the
engine end to end; the session; the proofs of every safety property, action property and refinement
that a run checks.

What is left, in order of importance:

1. A refinement between the two views of a worker: an `Engine` step against the steps that `Pipeline`
   makes of the same event, so that a result about verdicts carries over to the recorded alerts.
2. The queue inside the pipeline: `Pipeline` has a `BoundedFifo` whose operations may fail without need,
   which is what `QueueIsFifo` leaves open; a refinement would join the two modules.
3. A restart of the engine while the capture is running.
