------------------------------- MODULE Pipeline -------------------------------
(***************************************************************************)
(* engine/src/pipeline.rs: the producer thread routes every event to the    *)
(* queue of one worker; each worker pops its own queue, runs the three      *)
(* detectors and records their alerts in the shared store.  Steps are as    *)
(* fine as other threads can observe: every fetch_add on a statistic is a   *)
(* step of its own, and so is every critical section of the alert mutex.    *)
(*                                                                          *)
(* MpmcQueue shows that a queue is a bounded FIFO: here it is a sequence,   *)
(* and push and pop are single steps.  Both may give up although they need  *)
(* not, because the sequence number they loaded was an old one: push may be *)
(* refused by a queue with room (PushErr), and a pop that finds nothing     *)
(* changes nothing, so that it is no step here.  What the detectors find    *)
(* depends on state this module leaves to AnomalyDetector and CepEngine:    *)
(* here each returns any number of alerts up to MaxAlerts.                  *)
(***************************************************************************)
EXTENDS Integers, Sequences, FiniteSets, FiniteSetsExt

CONSTANTS
  Sources,             \* source addresses
  ShardKey,            \* ShardKey[s]: NetworkEvent::shard_key, a hash of src_ip
  WORKER_COUNT,
  QUEUE_CAPACITY,
  ALERT_HISTORY_CAP,
  MaxAlerts,           \* MaxAlerts[d]: most alerts detector d returns at once
  MaxBatch,            \* bound on the length of a batch
  MaxProduced          \* bound on the number of events produced

ASSUME PipelineAssumption ==
  /\ ShardKey \in [Sources -> Nat]
  /\ WORKER_COUNT \in Nat \ {0}
  /\ QUEUE_CAPACITY \in Nat \ {0}
  /\ ALERT_HISTORY_CAP \in Nat \ {0}
  /\ DOMAIN MaxAlerts = {"signature", "anomaly", "cep"}
  /\ \A d \in DOMAIN MaxAlerts : MaxAlerts[d] \in Nat
  /\ MaxBatch \in Nat /\ MaxProduced \in Nat

VARIABLES
  batch,               \* the rest of the batch the producer is pushing
  dropping,            \* a push has failed and is not yet counted
  queues,              \* queues[w], oldest event first
  stage,               \* stage[w]: what worker w does next
  event,               \* event[w]: the event w works on
  pending,             \* pending[w]: alerts found and not yet recorded
  counted,             \* counted[w]: alerts_fired counts Head(pending[w])
  next_id,             \* next_id[w][d]: the id counter of w's detector d
  alerts,              \* the alert store, oldest first
  events_processed, events_dropped, alerts_fired,
  produced,            \* history: events produced so far
  handled,             \* history: events popped, in order, with their worker
  recorded             \* history: every alert that entered the store, in order

producerVars == <<batch, dropping, produced>>
workerVars == <<stage, event, pending, counted, next_id>>
pipelineVars == <<producerVars, workerVars, queues, alerts, events_processed,
                  events_dropped, alerts_fired, handled, recorded>>

Workers == 0..(WORKER_COUNT - 1)

\* A worker's detectors, in the order in which an event passes them.
Detectors == {"signature", "anomaly", "cep"}

\* Events are told apart by their source and the order in which they arise.
NoEvent == [src_ip |-> "none", n |-> 0]

PipelineInit ==
  /\ batch = <<>>
  /\ dropping = FALSE
  /\ queues = [w \in Workers |-> <<>>]
  /\ stage = [w \in Workers |-> "pop"]
  /\ event = [w \in Workers |-> NoEvent]
  /\ pending = [w \in Workers |-> <<>>]
  /\ counted = [w \in Workers |-> FALSE]
  /\ next_id = [w \in Workers |-> [d \in Detectors |-> 1]]
  /\ alerts = <<>>
  /\ events_processed = 0
  /\ events_dropped = 0
  /\ alerts_fired = 0
  /\ produced = 0
  /\ handled = <<>>
  /\ recorded = <<>>

-----------------------------------------------------------------------------
(* spawn_producer *)

\* Mutant: routing by flow_key, which differs between packets of one source.
ShardByFlow(e) == (ShardKey[e.src_ip] + e.n) % WORKER_COUNT

\* (event.shard_key() as usize) % worker_count
Shard(e) == ShardKey[e.src_ip] % WORKER_COUNT

\* What Simulator::next_batch may return after that many events: benign events
\* and injected attacks alike are events of any sources in any order.
Batches(before) ==
  UNION {{[i \in 1..k |-> [src_ip |-> src[i], n |-> before + i]] : src \in [1..k -> Sources]}
         : k \in 1..Min({MaxBatch, MaxProduced - before})}

\* sim.next_batch(), after the sleep
NextBatch ==
  /\ batch = <<>> /\ ~dropping
  /\ batch' \in Batches(produced)
  /\ produced' = produced + Len(batch')
  /\ UNCHANGED <<dropping, queues, workerVars, alerts, events_processed,
                 events_dropped, alerts_fired, handled, recorded>>

\* push returns Ok(()).
PushOk ==
  /\ batch # <<>> /\ ~dropping
  /\ LET w == Shard(Head(batch))
     IN /\ Len(queues[w]) < QUEUE_CAPACITY
        /\ queues' = [queues EXCEPT ![w] = Append(@, Head(batch))]
  /\ batch' = Tail(batch)
  /\ UNCHANGED <<dropping, produced, workerVars, alerts, events_processed,
                 events_dropped, alerts_fired, handled, recorded>>

\* enqueue_pos of w's queue: the events pushed to it so far.
EnqueuePos(w) ==
  Len(queues[w]) + Cardinality({i \in DOMAIN handled : handled[i].worker = w})

\* The slot that the next push to w compares has been used before: its number,
\* as push sees it, may say that the slot is still taken.
SlotLooksTaken(w) == EnqueuePos(w) >= QUEUE_CAPACITY

\* Mutant: the producer waits for room instead of dropping the event.
PushErrBlocks ==
  /\ batch # <<>> /\ ~dropping
  /\ SlotLooksTaken(Shard(Head(batch)))
  /\ UNCHANGED pipelineVars

\* push returns Err: the event is gone.  The queue is full, or looks so.
PushErr ==
  /\ batch # <<>> /\ ~dropping
  /\ SlotLooksTaken(Shard(Head(batch)))
  /\ dropping' = TRUE
  /\ batch' = Tail(batch)
  /\ UNCHANGED <<queues, produced, workerVars, alerts, events_processed,
                 events_dropped, alerts_fired, handled, recorded>>

\* stats.events_dropped.fetch_add(1)
CountDropped ==
  /\ dropping
  /\ dropping' = FALSE
  /\ events_dropped' = events_dropped + 1
  /\ UNCHANGED <<batch, produced, queues, workerVars, alerts, events_processed,
                 alerts_fired, handled, recorded>>

-----------------------------------------------------------------------------
(* spawn_workers *)

\* queue.pop() returns Some(event).  On None -- the queue is empty, or looks so --
\* the worker sleeps and tries again.
PopEvent(w) ==
  /\ stage[w] = "pop" /\ pending[w] = <<>>
  /\ queues[w] # <<>>
  /\ event' = [event EXCEPT ![w] = Head(queues[w])]
  /\ queues' = [queues EXCEPT ![w] = Tail(@)]
  /\ stage' = [stage EXCEPT ![w] = "count"]
  /\ handled' = Append(handled, [worker |-> w, event |-> Head(queues[w])])
  /\ UNCHANGED <<producerVars, pending, counted, next_id, alerts, events_processed,
                 events_dropped, alerts_fired, recorded>>

\* Mutant: load, add and store instead of fetch_add.  The value stored is one
\* more than some earlier value, and what others counted in between is lost.
CountProcessedStale(w) ==
  /\ stage[w] = "count"
  /\ events_processed' \in 1..(events_processed + 1)
  /\ stage' = [stage EXCEPT ![w] = "signature"]
  /\ UNCHANGED <<producerVars, queues, event, pending, counted, next_id, alerts,
                 events_dropped, alerts_fired, handled, recorded>>

\* stats.events_processed.fetch_add(1)
CountProcessed(w) ==
  /\ stage[w] = "count"
  /\ events_processed' = events_processed + 1
  /\ stage' = [stage EXCEPT ![w] = "signature"]
  /\ UNCHANGED <<producerVars, queues, event, pending, counted, next_id, alerts,
                 events_dropped, alerts_fired, handled, recorded>>

After(detector) ==
  CASE detector = "signature" -> "anomaly"
    [] detector = "anomaly"   -> "cep"
    [] detector = "cep"       -> "pop"

\* The k alerts that detector d of w returns for the worker's event, numbered by
\* the detector's own counter.
Found(w, d, k) ==
  [i \in 1..k |-> [src_ip |-> event[w].src_ip, n |-> event[w].n,
                   detector |-> d, id |-> next_id[w][d] + i - 1]]

\* sig.scan, anomaly.observe, cep.process: each returns its whole Vec before
\* the first alert of it is recorded.
Detect(w) ==
  /\ stage[w] \in Detectors /\ pending[w] = <<>>
  /\ \E k \in 0..MaxAlerts[stage[w]] :
       /\ pending' = [pending EXCEPT ![w] = Found(w, stage[w], k)]
       /\ next_id' = [next_id EXCEPT ![w][stage[w]] = @ + k]
  /\ stage' = [stage EXCEPT ![w] = After(stage[w])]
  /\ UNCHANGED <<producerVars, queues, event, counted, alerts, events_processed,
                 events_dropped, alerts_fired, handled, recorded>>

\* record_alert: stats.alerts_fired.fetch_add(1), outside the lock
RecordCount(w) ==
  /\ pending[w] # <<>> /\ ~counted[w]
  /\ alerts_fired' = alerts_fired + 1
  /\ counted' = [counted EXCEPT ![w] = TRUE]
  /\ UNCHANGED <<producerVars, queues, stage, event, pending, next_id, alerts,
                 events_processed, events_dropped, handled, recorded>>

\* Mutant: the history is cut before the alert is added.
TrimmedFirst(store, alert) ==
  Append(IF Len(store) > ALERT_HISTORY_CAP THEN Tail(store) ELSE store, alert)

\* Mutant: a full store refuses the new alert instead of forgetting the oldest.
TrimmedNewest(store, alert) ==
  IF Len(store) = ALERT_HISTORY_CAP THEN store ELSE Append(store, alert)

\* push_back, then pop_front if the store is longer than its cap
Trimmed(store, alert) ==
  LET longer == Append(store, alert)
  IN IF Len(longer) > ALERT_HISTORY_CAP THEN Tail(longer) ELSE longer

\* Mutant: the lock is taken before the counter is incremented, and kept.
RecordStoreLocked(w) ==
  /\ counted[w] /\ \A v \in Workers \ {w} : ~counted[v]
  /\ alerts' = Trimmed(alerts, Head(pending[w]))
  /\ recorded' = Append(recorded, Head(pending[w]))
  /\ pending' = [pending EXCEPT ![w] = Tail(@)]
  /\ counted' = [counted EXCEPT ![w] = FALSE]
  /\ UNCHANGED <<producerVars, queues, stage, event, next_id, events_processed,
                 events_dropped, alerts_fired, handled>>

\* record_alert: what it does while it holds the lock
RecordStore(w) ==
  /\ counted[w]
  /\ alerts' = Trimmed(alerts, Head(pending[w]))
  /\ recorded' = Append(recorded, Head(pending[w]))
  /\ pending' = [pending EXCEPT ![w] = Tail(@)]
  /\ counted' = [counted EXCEPT ![w] = FALSE]
  /\ UNCHANGED <<producerVars, queues, stage, event, next_id, events_processed,
                 events_dropped, alerts_fired, handled>>

-----------------------------------------------------------------------------

ProducerStep == NextBatch \/ PushOk \/ PushErr \/ CountDropped

WorkerStep(w) ==
  \/ PopEvent(w) \/ CountProcessed(w) \/ Detect(w)
  \/ RecordCount(w) \/ RecordStore(w)

PipelineNext == ProducerStep \/ \E w \in Workers : WorkerStep(w)

PipelineSpec == PipelineInit /\ [][PipelineNext]_pipelineVars

\* The producer thread runs; the workers may stall for ever.
ProducerFairSpec == PipelineSpec /\ WF_pipelineVars(ProducerStep)

-----------------------------------------------------------------------------
(* Properties *)

PipelineEvents == [src_ip : Sources, n : 1..MaxProduced]

\* Types; a worker with a counted alert has one to store, and the store and the
\* queues never exceed their caps.
PipelineTypeOK ==
  /\ batch \in Seq(PipelineEvents) /\ Len(batch) <= MaxBatch
  /\ dropping \in BOOLEAN
  /\ \A w \in Workers :
       /\ queues[w] \in Seq(PipelineEvents) /\ Len(queues[w]) <= QUEUE_CAPACITY
       /\ stage[w] \in {"pop", "count"} \cup Detectors
       /\ \A d \in Detectors : next_id[w][d] \in Nat \ {0}
       /\ event[w] \in PipelineEvents \cup {NoEvent}
       /\ counted[w] => pending[w] # <<>>
  /\ Len(alerts) <= ALERT_HISTORY_CAP
  /\ {events_processed, events_dropped, produced} \subseteq 0..MaxProduced
  /\ alerts_fired \in Nat

Uncounted == Cardinality({w \in Workers : stage[w] = "count"})
QueuedPlaces == {x \in Workers \X (1..QUEUE_CAPACITY) : x[2] <= Len(queues[x[1]])}
Queued == Cardinality(QueuedPlaces)

\* Every event is accounted for: what the producer generated is still in its
\* hands, queued, in a worker's hands, or in exactly one of the two statistics.
EventsConserved ==
  produced = Len(batch) + (IF dropping THEN 1 ELSE 0) + events_dropped
             + Queued + Uncounted + events_processed

\* "every event for a given source IP is guaranteed to reach this same worker's
\* queue": the events of one source are handled by one worker, in the order in
\* which they arose, none twice.
SourceAffinity ==
  \A i, j \in DOMAIN handled :
    i < j /\ handled[i].event.src_ip = handled[j].event.src_ip
      => /\ handled[i].worker = handled[j].worker
         /\ handled[i].event.n < handled[j].event.n

\* The alerts about one source enter the shared store in the order of its
\* events, those of one detector in the order of their ids, whatever the other
\* workers record in between.
AlertsInEventOrder ==
  \A i, j \in DOMAIN recorded :
    i < j /\ recorded[i].src_ip = recorded[j].src_ip
      => /\ recorded[i].n <= recorded[j].n
         /\ recorded[i].detector = recorded[j].detector => recorded[i].id < recorded[j].id

\* The store holds the last ALERT_HISTORY_CAP alerts recorded, all of them and
\* in order, and alerts_fired runs ahead of it by the alerts being stored.
StoreIsRecent ==
  /\ Len(alerts) = Min({ALERT_HISTORY_CAP, Len(recorded)})
  /\ \A i \in DOMAIN alerts :
       alerts[i] = recorded[Len(recorded) - Len(alerts) + i]
  /\ alerts_fired = Len(recorded) + Cardinality({w \in Workers : counted[w]})

\* "drop under sustained overload rather than block the capture thread": the
\* producer finishes every batch even if no worker ever takes a step.
ProducerNeverBlocks == batch # <<>> ~> batch = <<>> /\ ~dropping

\* "the remaining workers keep running": whatever the producer and the other
\* workers do, one that keeps running handles every event that was queued for
\* it and stores every alert it finds.  Nobody stops inside the critical section,
\* and what was pushed becomes visible to a worker that keeps popping.
WorkersIndependent ==
  \A w \in Workers :
    WF_pipelineVars(WorkerStep(w)) =>
      /\ \A n \in 1..MaxProduced :
           (\E i \in DOMAIN queues[w] : queues[w][i].n = n)
             ~> (\E i \in DOMAIN handled : handled[i].worker = w /\ handled[i].event.n = n)
      /\ pending[w] # <<>> ~> pending[w] = <<>>
=============================================================================
