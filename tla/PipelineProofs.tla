---------------------------- MODULE PipelineProofs ----------------------------
(***************************************************************************)
(* Proofs about engine/src/pipeline.rs for every set of sources, every      *)
(* routing hash, every number of workers, every capacity of the queues and  *)
(* of the alert store, and any number of alerts per event.                  *)
(***************************************************************************)
EXTENDS Pipeline, DataLemmas, FiniteSetTheorems

-----------------------------------------------------------------------------
(* The inductive invariant. *)

PipelineAlerts ==
  [src_ip : Sources, n : 1..MaxProduced, detector : Detectors, id : Nat \ {0}]

Stages == {"pop", "count"} \cup Detectors

\* The domains and the ranges of the state; a worker past the pop has an event,
\* one that has counted an alert has it in hand.
PipelineShape ==
  /\ batch \in Seq(PipelineEvents) /\ Len(batch) <= MaxBatch
  /\ dropping \in BOOLEAN
  /\ queues \in [Workers -> Seq(PipelineEvents)]
  /\ stage \in [Workers -> Stages]
  /\ event \in [Workers -> PipelineEvents \cup {NoEvent}]
  /\ pending \in [Workers -> Seq(PipelineAlerts)]
  /\ counted \in [Workers -> BOOLEAN]
  /\ next_id \in [Workers -> [Detectors -> Nat \ {0}]]
  /\ alerts \in Seq(PipelineAlerts)
  /\ events_processed \in Nat /\ events_dropped \in Nat /\ alerts_fired \in Nat
  /\ produced \in 0..MaxProduced
  /\ handled \in Seq([worker : Workers, event : PipelineEvents])
  /\ recorded \in Seq(PipelineAlerts)
  /\ \A w \in Workers :
       /\ Len(queues[w]) <= QUEUE_CAPACITY
       /\ stage[w] # "pop" => event[w] # NoEvent
       /\ counted[w] => pending[w] # <<>>

\* A sequence of events in the order in which they arose.
InOrder(events) ==
  \A i, j \in 1..Len(events) : i < j => events[i].n < events[j].n

\* Along the way of an event - the producer's batch, the queue of its worker,
\* the worker's hand - every event is younger than those further on, and it is
\* at the worker its source belongs to.
EventOrder ==
  /\ InOrder(batch)
  /\ \A j \in 1..Len(batch) : batch[j].n <= produced
  /\ \A w \in Workers :
       /\ InOrder(queues[w])
       /\ event[w].n <= produced
       /\ event[w] # NoEvent => Shard(event[w]) = w
       /\ \A j \in 1..Len(batch) : event[w].n < batch[j].n
       /\ \A i \in 1..Len(queues[w]) :
            /\ Shard(queues[w][i]) = w
            /\ queues[w][i].n <= produced
            /\ event[w].n < queues[w][i].n
            /\ \A j \in 1..Len(batch) : queues[w][i].n < batch[j].n

\* What a worker has handled is its own, in order, and no younger than what it
\* has in hand.
HandledOrder ==
  /\ \A i \in 1..Len(handled) :
       /\ handled[i].worker = Shard(handled[i].event)
       /\ handled[i].event.n <= event[handled[i].worker].n
  /\ \A i, j \in 1..Len(handled) :
       i < j /\ handled[i].worker = handled[j].worker
         => handled[i].event.n < handled[j].event.n

\* The alerts in a worker's hand are about its event, from one detector, with
\* increasing ids that the detector's counter has passed.
PendingOrder ==
  \A w \in Workers :
    /\ pending[w] # <<>> => event[w] # NoEvent
    /\ \A k \in 1..Len(pending[w]) :
         /\ pending[w][k].src_ip = event[w].src_ip
         /\ pending[w][k].n = event[w].n
         /\ pending[w][k].id < next_id[w][pending[w][k].detector]
    /\ \A k, l \in 1..Len(pending[w]) :
         k < l => /\ pending[w][k].detector = pending[w][l].detector
                  /\ pending[w][k].id < pending[w][l].id

\* An alert in the store's history comes before whatever the worker of its
\* source has in hand or will find.
RecordedOrder ==
  \A i \in 1..Len(recorded) : \A w \in Workers :
    Shard(recorded[i]) = w =>
      /\ recorded[i].n <= event[w].n
      /\ recorded[i].id < next_id[w][recorded[i].detector]
      /\ \A k \in 1..Len(pending[w]) :
           recorded[i].detector = pending[w][k].detector
             => recorded[i].id < pending[w][k].id

\* The inductive invariant of the pipeline.
PipelineInv ==
  /\ PipelineShape /\ EventsConserved
  /\ EventOrder /\ HandledOrder
  /\ PendingOrder /\ RecordedOrder /\ AlertsInEventOrder
  /\ StoreIsRecent

-----------------------------------------------------------------------------
(* Sequences: a push to a queue and a pop from it. *)

\* Taking the head leaves an ordered sequence of younger events.
LEMMA TailInOrder ==
  ASSUME NEW s \in Seq(PipelineEvents), s # <<>>, InOrder(s)
  PROVE  /\ InOrder(Tail(s))
         /\ \A i \in 1..Len(Tail(s)) : Head(s).n < Tail(s)[i].n
BY TailElements DEF InOrder

\* An event that is younger than all of an ordered sequence may follow it.
LEMMA AppendInOrder ==
  ASSUME NEW s \in Seq(PipelineEvents), NEW e \in PipelineEvents, InOrder(s),
         \A i \in 1..Len(s) : s[i].n < e.n
  PROVE  InOrder(Append(s, e))
BY AppendElements DEF InOrder

\* The smaller of two numbers.
LEMMA MinOfTwo ==
  ASSUME NEW a \in Int, NEW b \in Int
  PROVE  Min({a, b}) = IF a <= b THEN a ELSE b
<1> DEFINE m == IF a <= b THEN a ELSE b
<1>1. m \in {a, b} /\ \A y \in {a, b} : m <= y
  OBVIOUS
<1>2. \A x \in {a, b} : (\A y \in {a, b} : x <= y) => x = m
  OBVIOUS
<1> HIDE DEF m
<1>3. \A x \in {a, b} : (\A y \in {a, b} : x <= y) <=> x = m
  BY <1>1, <1>2
<1>4. Min({a, b}) = m
  BY <1>1, <1>3, Zenon DEF Min
<1> QED BY <1>4 DEF m

\* Simulator::next_batch: its events are new, in order and within the bounds.
LEMMA BatchFacts ==
  ASSUME produced \in 0..MaxProduced, NEW b \in Batches(produced)
  PROVE  /\ b \in Seq(PipelineEvents) /\ Len(b) \in Nat
         /\ Len(b) <= MaxBatch /\ produced + Len(b) <= MaxProduced
         /\ \A i \in 1..Len(b) : b[i].n = produced + i
<1> USE PipelineAssumption
<1>0. PICK k \in 1..Min({MaxBatch, MaxProduced - produced}) :
        \E src \in [1..k -> Sources] :
          b = [i \in 1..k |-> [src_ip |-> src[i], n |-> produced + i]]
  <2>1. PICK k \in 1..Min({MaxBatch, MaxProduced - produced}) :
          b \in {[i \in 1..k |-> [src_ip |-> src[i], n |-> produced + i]]
                   : src \in [1..k -> Sources]}
    BY Zenon DEF Batches
  <2> QED BY <2>1
<1>1. PICK src \in [1..k -> Sources] :
        b = [i \in 1..k |-> [src_ip |-> src[i], n |-> produced + i]]
  BY <1>0
<1>2. k \in Nat /\ k <= MaxBatch /\ k <= MaxProduced - produced
  <2>1. MaxBatch \in Int /\ MaxProduced - produced \in Int
    OBVIOUS
  <2>2. Min({MaxBatch, MaxProduced - produced})
          = IF MaxBatch <= MaxProduced - produced THEN MaxBatch ELSE MaxProduced - produced
    BY <2>1, MinOfTwo
  <2> QED BY <1>0, <2>2
<1>3. b \in [1..k -> PipelineEvents]
  BY <1>1, <1>2 DEF PipelineEvents
<1>4. b \in Seq(PipelineEvents)
  BY <1>2, <1>3, SeqDef
<1>5. Len(b) = k
  BY <1>2, <1>3, <1>4, LenProperties
<1> QED BY <1>1, <1>2, <1>4, <1>5

-----------------------------------------------------------------------------
(* Types. *)

\* Every worker has an index below WORKER_COUNT (`as usize % worker_count`).
LEMMA ShardIsWorker ==
  ASSUME NEW e, e.src_ip \in Sources
  PROVE  Shard(e) \in Workers
<1>1. ShardKey[e.src_ip] \in Nat /\ WORKER_COUNT \in Nat \ {0}
  BY PipelineAssumption
<1> QED BY <1>1 DEF Shard, Workers

\* NoEvent is no event of the simulator's.
LEMMA NoEventApart == NoEvent \notin PipelineEvents
BY DEF NoEvent, PipelineEvents

\* The alerts a detector returns: as many as it found, about the worker's event,
\* numbered from its counter on.
LEMMA FoundAlerts ==
  ASSUME PipelineShape, NEW w \in Workers, NEW d \in Detectors, NEW k \in Nat,
         event[w] \in PipelineEvents
  PROVE  /\ Found(w, d, k) \in Seq(PipelineAlerts) /\ Len(Found(w, d, k)) = k
         /\ \A i \in 1..k :
              Found(w, d, k)[i] = [src_ip |-> event[w].src_ip, n |-> event[w].n,
                                   detector |-> d, id |-> next_id[w][d] + i - 1]
<1>1. next_id[w][d] \in Nat \ {0}
  BY DEF PipelineShape
<1>2. \A i \in 1..k : Found(w, d, k)[i]
        = [src_ip |-> event[w].src_ip, n |-> event[w].n,
           detector |-> d, id |-> next_id[w][d] + i - 1]
  BY DEF Found
<1>3. Found(w, d, k) \in [1..k -> PipelineAlerts]
  <2>1. event[w].src_ip \in Sources /\ event[w].n \in 1..MaxProduced
    BY DEF PipelineEvents
  <2>2. ASSUME NEW i \in 1..k PROVE next_id[w][d] + i - 1 \in Nat \ {0}
    <3>1. PICK m \in Nat : m = next_id[w][d] /\ m # 0
      BY <1>1
    <3>2. m + i - 1 \in Nat /\ m + i - 1 # 0
      BY <3>1
    <3> QED BY <3>1, <3>2
  <2>3. ASSUME NEW i \in 1..k PROVE Found(w, d, k)[i] \in PipelineAlerts
    <3>1. PICK x \in Nat \ {0} : x = next_id[w][d] + i - 1
      BY <2>2
    <3>2. Found(w, d, k)[i] = [src_ip |-> event[w].src_ip, n |-> event[w].n,
                               detector |-> d, id |-> x]
      BY <1>2, <3>1
    <3> QED BY <2>1, <3>2 DEF PipelineAlerts
  <2> QED BY <2>3 DEF Found
<1>4. Found(w, d, k) \in Seq(PipelineAlerts)
  BY <1>3, SeqDef
<1>5. Len(Found(w, d, k)) = k
  BY <1>3, <1>4, LenProperties
<1> QED BY <1>2, <1>4, <1>5

\* A worker with a stage past the pop has an event of the simulator's.
LEMMA WorkerEvent ==
  ASSUME PipelineShape, NEW w \in Workers, stage[w] # "pop"
  PROVE  event[w] \in PipelineEvents
BY DEF PipelineShape

LEMMA InitShape ==
  ASSUME PipelineInit
  PROVE  PipelineShape
<1> USE PipelineAssumption
<1>1. \A S : <<>> \in Seq(S) /\ Len(<<>>) = 0
  BY EmptySeq
<1>2. dropping \in BOOLEAN /\ counted \in [Workers -> BOOLEAN]
  BY Zenon DEF PipelineInit
<1>4. /\ queues \in [Workers -> Seq(PipelineEvents)]
      /\ pending \in [Workers -> Seq(PipelineAlerts)]
      /\ next_id \in [Workers -> [Detectors -> Nat \ {0}]]
  BY <1>1 DEF PipelineInit
<1>3. /\ stage \in [Workers -> Stages]
      /\ event \in [Workers -> PipelineEvents \cup {NoEvent}]
      /\ \A w \in Workers : stage[w] = "pop" /\ ~counted[w] /\ Len(queues[w]) = 0
  BY <1>1 DEF PipelineInit, Stages
<1> QED BY <1>1, <1>2, <1>3, <1>4 DEF PipelineInit, PipelineShape

LEMMA NextShape ==
  ASSUME PipelineShape, [PipelineNext]_pipelineVars
  PROVE  PipelineShape'
<1> USE PipelineAssumption
<1>1. CASE UNCHANGED pipelineVars
  BY <1>1 DEF PipelineShape, pipelineVars, producerVars, workerVars
<1>2. CASE NextBatch
  <2>1. /\ batch' \in Seq(PipelineEvents) /\ Len(batch') <= MaxBatch
        /\ produced' \in 0..MaxProduced
    BY <1>2, BatchFacts DEF NextBatch, PipelineShape
  <2> QED BY <1>2, <2>1 DEF NextBatch, PipelineShape, workerVars
<1>3. CASE PushOk
  <2> DEFINE e == Head(batch)
             w == Shard(e)
  <2>1. /\ e \in PipelineEvents /\ Tail(batch) \in Seq(PipelineEvents)
        /\ Len(Tail(batch)) <= MaxBatch
    BY <1>3, TailElements DEF PushOk, PipelineShape
  <2>2. w \in Workers
    BY <2>1, ShardIsWorker DEF PipelineEvents
  <2>3. /\ Append(queues[w], e) \in Seq(PipelineEvents)
        /\ Len(queues[w]) < QUEUE_CAPACITY
        /\ Len(Append(queues[w], e)) <= QUEUE_CAPACITY
    BY <1>3, <2>1, <2>2, AppendElements DEF PushOk, PipelineShape
  <2>4. /\ queues' = [queues EXCEPT ![w] = Append(queues[w], e)] /\ batch' = Tail(batch)
        /\ UNCHANGED <<dropping, produced, workerVars, alerts, events_processed,
                       events_dropped, alerts_fired, handled, recorded>>
    BY <1>3 DEF PushOk
  <2> HIDE DEF e, w
  <2> QED BY <2>1, <2>2, <2>3, <2>4 DEF PipelineShape, workerVars
<1>4. CASE PushErr
  <2>1. Tail(batch) \in Seq(PipelineEvents) /\ Len(Tail(batch)) <= MaxBatch
    BY <1>4, TailElements DEF PushErr, PipelineShape
  <2> QED BY <1>4, <2>1 DEF PushErr, PipelineShape, workerVars
<1>5. CASE CountDropped
  <2>1. dropping' \in BOOLEAN
    BY <1>5, Zenon DEF CountDropped
  <2>2. events_dropped' \in Nat
    BY <1>5 DEF CountDropped, PipelineShape
  <2>3. UNCHANGED <<batch, produced, queues, stage, event, pending, counted, next_id, alerts,
                    events_processed, alerts_fired, handled, recorded>>
    BY <1>5 DEF CountDropped, workerVars
  <2> QED BY <2>1, <2>2, <2>3 DEF PipelineShape
<1>6. ASSUME NEW w \in Workers, PopEvent(w)
      PROVE  PipelineShape'
  <2> DEFINE e == Head(queues[w])
  <2>1. /\ e \in PipelineEvents /\ Tail(queues[w]) \in Seq(PipelineEvents)
        /\ Len(Tail(queues[w])) <= QUEUE_CAPACITY
    BY <1>6, TailElements DEF PopEvent, PipelineShape
  <2>2. Append(handled, [worker |-> w, event |-> e])
          \in Seq([worker : Workers, event : PipelineEvents])
    BY <2>1, AppendElements DEF PipelineShape
  <2>3. /\ event' = [event EXCEPT ![w] = e]
        /\ queues' = [queues EXCEPT ![w] = Tail(queues[w])]
        /\ stage' = [stage EXCEPT ![w] = "count"]
        /\ handled' = Append(handled, [worker |-> w, event |-> e])
        /\ UNCHANGED <<producerVars, pending, counted, next_id, alerts, events_processed,
                       events_dropped, alerts_fired, recorded>>
    BY <1>6 DEF PopEvent
  <2>4. e # NoEvent
    BY <2>1, NoEventApart
  <2> HIDE DEF e
  <2>5. /\ queues' \in [Workers -> Seq(PipelineEvents)]
        /\ \A v \in Workers : Len(queues'[v]) <= QUEUE_CAPACITY
    BY <2>1, <2>3 DEF PipelineShape
  <2>6. /\ stage' \in [Workers -> Stages]
        /\ event' \in [Workers -> PipelineEvents \cup {NoEvent}]
        /\ \A v \in Workers : stage'[v] # "pop" => event'[v] # NoEvent
    BY <2>1, <2>3, <2>4 DEF PipelineShape, Stages
  <2>7. handled' \in Seq([worker : Workers, event : PipelineEvents])
    BY <2>2, <2>3
  <2>8. /\ UNCHANGED <<batch, dropping, produced, pending, counted, next_id, alerts>>
        /\ UNCHANGED <<events_processed, events_dropped, alerts_fired, recorded>>
    BY <2>3 DEF producerVars
  <2>9. \A v \in Workers : counted'[v] => pending'[v] # <<>>
    BY <2>8 DEF PipelineShape
  <2> QED BY <2>5, <2>6, <2>7, <2>8, <2>9 DEF PipelineShape
<1>7. ASSUME NEW w \in Workers, CountProcessed(w)
      PROVE  PipelineShape'
  <2>1. stage' = [stage EXCEPT ![w] = "signature"] /\ stage[w] = "count"
    BY <1>7 DEF CountProcessed
  <2>2. /\ UNCHANGED <<batch, dropping, produced, queues, event, pending, counted, next_id>>
        /\ UNCHANGED <<alerts, events_dropped, alerts_fired, handled, recorded>>
        /\ events_processed' = events_processed + 1
    BY <1>7 DEF CountProcessed, producerVars
  <2>3. /\ stage' \in [Workers -> Stages]
        /\ \A v \in Workers : stage'[v] # "pop" => event'[v] # NoEvent
    BY <2>1, <2>2 DEF PipelineShape, Stages, Detectors
  <2> QED BY <2>2, <2>3 DEF PipelineShape
<1>8. ASSUME NEW w \in Workers, Detect(w)
      PROVE  PipelineShape'
  <2>1. PICK d \in Detectors : d = stage[w]
    BY <1>8 DEF Detect
  <2>2. PICK k \in 0..MaxAlerts[d] :
          /\ pending' = [pending EXCEPT ![w] = Found(w, d, k)]
          /\ next_id' = [next_id EXCEPT ![w][d] = @ + k]
    BY <1>8, <2>1 DEF Detect
  <2>3. k \in Nat /\ event[w] \in PipelineEvents
    BY <2>1, <2>2, WorkerEvent DEF Detectors
  <2>4. Found(w, d, k) \in Seq(PipelineAlerts)
    BY <2>3, FoundAlerts
  <2>5. next_id' \in [Workers -> [Detectors -> Nat \ {0}]]
    BY <2>1, <2>2, <2>3 DEF PipelineShape
  <2>6. /\ stage' = [stage EXCEPT ![w] = After(d)] /\ pending[w] = <<>>
        /\ UNCHANGED <<producerVars, queues, event, counted, alerts, events_processed,
                       events_dropped, alerts_fired, handled, recorded>>
    BY <1>8, <2>1 DEF Detect
  <2>7. After(d) \in Stages
    BY <2>1 DEF After, Stages, Detectors
  <2>8. event[w] # NoEvent /\ ~counted[w]
    BY <1>8, <2>3, <2>6, NoEventApart DEF PipelineShape
  <2>9. pending' \in [Workers -> Seq(PipelineAlerts)] /\ stage' \in [Workers -> Stages]
    BY <2>2, <2>4, <2>6, <2>7 DEF PipelineShape
  <2>10. \A v \in Workers :
          /\ stage'[v] # "pop" => event'[v] # NoEvent
          /\ counted'[v] => pending'[v] # <<>>
    BY <2>2, <2>6, <2>8 DEF PipelineShape
  <2> QED BY <2>5, <2>6, <2>9, <2>10 DEF PipelineShape, producerVars
<1>9. ASSUME NEW w \in Workers, RecordCount(w)
      PROVE  PipelineShape'
  BY <1>9 DEF RecordCount, PipelineShape, producerVars
<1>10. ASSUME NEW w \in Workers, RecordStore(w)
      PROVE  PipelineShape'
  <2> DEFINE a == Head(pending[w])
  <2>1. pending[w] # <<>> /\ a \in PipelineAlerts /\ Tail(pending[w]) \in Seq(PipelineAlerts)
    BY <1>10, TailElements DEF RecordStore, PipelineShape
  <2>2. Append(recorded, a) \in Seq(PipelineAlerts)
    BY <2>1, AppendElements DEF PipelineShape
  <2>3. Trimmed(alerts, a) \in Seq(PipelineAlerts)
    <3>1. Append(alerts, a) \in Seq(PipelineAlerts) /\ Append(alerts, a) # <<>>
      <4>1. alerts \in Seq(PipelineAlerts)
        BY DEF PipelineShape
      <4> QED BY <2>1, <4>1, AppendProperties
    <3>2. Tail(Append(alerts, a)) \in Seq(PipelineAlerts)
      BY <3>1, TailElements
    <3> QED BY <3>1, <3>2 DEF Trimmed
  <2>4. /\ alerts' = Trimmed(alerts, a) /\ recorded' = Append(recorded, a)
        /\ pending' = [pending EXCEPT ![w] = Tail(pending[w])]
        /\ counted' = [counted EXCEPT ![w] = FALSE]
        /\ UNCHANGED <<producerVars, queues, stage, event, next_id, events_processed,
                       events_dropped, alerts_fired, handled>>
    BY <1>10 DEF RecordStore
  <2> HIDE DEF a
  <2> QED BY <2>1, <2>2, <2>3, <2>4 DEF PipelineShape, producerVars
<1> QED BY <1>1, <1>2, <1>3, <1>4, <1>5, <1>6, <1>7, <1>8, <1>9, <1>10
        DEF PipelineNext, ProducerStep, WorkerStep

-----------------------------------------------------------------------------
(* Conservation of events. *)

LEMMA WorkersFinite ==
  /\ IsFiniteSet(Workers)
  /\ \A S \in SUBSET Workers : IsFiniteSet(S) /\ Cardinality(S) \in Nat
<1>1. WORKER_COUNT - 1 \in Int
  BY PipelineAssumption
<1>2. IsFiniteSet(Workers)
  BY <1>1, FS_Interval DEF Workers
<1> QED BY <1>2, FS_Subset, FS_CardinalityType

\* The occupied places of the queues can be counted.
LEMMA PlacesFinite ==
  IsFiniteSet(QueuedPlaces) /\ Queued \in Nat
<1>1. IsFiniteSet(1..QUEUE_CAPACITY)
  BY PipelineAssumption, FS_Interval
<1>2. IsFiniteSet(Workers \X (1..QUEUE_CAPACITY))
  BY <1>1, WorkersFinite, FS_Product
<1>3. QueuedPlaces \in SUBSET (Workers \X (1..QUEUE_CAPACITY))
  BY DEF QueuedPlaces
<1> QED BY <1>2, <1>3, FS_Subset, FS_CardinalityType DEF Queued

\* A push occupies one place more.
LEMMA PushFillsPlace ==
  ASSUME PipelineShape, NEW w \in Workers, NEW e \in PipelineEvents,
         Len(queues[w]) < QUEUE_CAPACITY,
         queues' = [queues EXCEPT ![w] = Append(queues[w], e)]
  PROVE  Queued' = Queued + 1
<1>1. PICK k \in Nat : k = Len(queues[w])
  BY LenProperties DEF PipelineShape
<1>2. /\ queues \in [Workers -> Seq(PipelineEvents)]
      /\ Len(queues'[w]) = k + 1
      /\ \A v \in Workers : v # w => queues'[v] = queues[v]
  BY <1>1, AppendElements DEF PipelineShape
<1>3. \A v \in Workers : Len(queues[v]) \in Nat
  BY <1>2, LenProperties
<1>4. k + 1 \in 1..QUEUE_CAPACITY
  BY <1>1, PipelineAssumption
<1>5. QueuedPlaces' = QueuedPlaces \cup {<<w, k + 1>>}
  <2>1. ASSUME NEW v \in Workers, NEW i \in 1..QUEUE_CAPACITY
        PROVE  i <= Len(queues'[v]) <=> i <= Len(queues[v]) \/ (v = w /\ i = k + 1)
    <3>1. CASE v = w
      BY <1>1, <1>2, <3>1
    <3>2. CASE v # w
      BY <1>2, <3>2
    <3> QED BY <3>1, <3>2
  <2> QED BY <1>4, <2>1 DEF QueuedPlaces
<1>6. <<w, k + 1>> \notin QueuedPlaces
  BY <1>1 DEF QueuedPlaces
<1> QED BY <1>5, <1>6, PlacesFinite, FS_AddElement DEF Queued

\* A pop frees one.
LEMMA PopFreesPlace ==
  ASSUME PipelineShape, NEW w \in Workers, queues[w] # <<>>,
         queues' = [queues EXCEPT ![w] = Tail(queues[w])]
  PROVE  Queued' = Queued - 1
<1>1. PICK k \in Nat \ {0} : k = Len(queues[w])
  BY TailElements DEF PipelineShape
<1>2. /\ queues \in [Workers -> Seq(PipelineEvents)]
      /\ Len(queues'[w]) = k - 1 /\ k <= QUEUE_CAPACITY
      /\ \A v \in Workers : v # w => queues'[v] = queues[v]
  BY <1>1, TailElements DEF PipelineShape
<1>3. \A v \in Workers : Len(queues[v]) \in Nat
  BY <1>2, LenProperties
<1>4. k \in 1..QUEUE_CAPACITY
  BY <1>1, <1>2, PipelineAssumption
<1>5. QueuedPlaces' = QueuedPlaces \ {<<w, k>>}
  <2>1. ASSUME NEW v \in Workers, NEW i \in 1..QUEUE_CAPACITY
        PROVE  i <= Len(queues'[v]) <=> i <= Len(queues[v]) /\ ~(v = w /\ i = k)
    <3>1. CASE v = w
      BY <1>1, <1>2, <3>1
    <3>2. CASE v # w
      BY <1>2, <3>2
    <3> QED BY <3>1, <3>2
  <2> QED BY <2>1 DEF QueuedPlaces
<1>6. <<w, k>> \in QueuedPlaces
  BY <1>1, <1>4 DEF QueuedPlaces
<1> QED BY <1>5, <1>6, PlacesFinite, FS_RemoveElement DEF Queued

\* Nothing has been produced yet.
LEMMA InitConserved ==
  ASSUME PipelineInit
  PROVE  EventsConserved
<1>1. Len(batch) = 0 /\ QueuedPlaces = {}
  BY EmptySeq DEF PipelineInit, QueuedPlaces
<1>2. Queued = 0 /\ Uncounted = 0
  BY <1>1, FS_EmptySet DEF PipelineInit, Queued, Uncounted
<1> QED BY <1>1, <1>2 DEF PipelineInit, EventsConserved

\* Every step moves an event from one place to the next, or leaves all of them.
LEMMA NextConserved ==
  ASSUME PipelineShape, EventsConserved, [PipelineNext]_pipelineVars
  PROVE  EventsConserved'
<1> DEFINE D == IF dropping THEN 1 ELSE 0
<1>0. /\ Len(batch) \in Nat /\ D \in Nat /\ Queued \in Nat /\ Uncounted \in Nat
      /\ events_dropped \in Nat /\ events_processed \in Nat /\ produced \in Nat
      /\ produced = Len(batch) + D + events_dropped + Queued + Uncounted + events_processed
  BY LenProperties, PlacesFinite, WorkersFinite
     DEF PipelineShape, Uncounted, EventsConserved
<1>11. /\ EventsConserved' <=>
            produced' = Len(batch') + D' + events_dropped' + Queued' + Uncounted'
                        + events_processed'
       /\ UNCHANGED dropping => D' = D
       /\ ~dropping /\ dropping' => D = 0 /\ D' = 1
       /\ dropping /\ ~dropping' => D = 1 /\ D' = 0
  BY DEF EventsConserved
<1> HIDE DEF D
<1>1. CASE UNCHANGED <<batch, dropping, produced, queues, stage,
                       events_dropped, events_processed>>
  BY <1>0, <1>1, <1>11 DEF Queued, QueuedPlaces, Uncounted
<1>2. CASE NextBatch
  <2>1. /\ Len(batch') \in Nat /\ Len(batch) = 0 /\ produced' = produced + Len(batch')
        /\ UNCHANGED <<dropping, queues, stage, events_dropped, events_processed>>
    BY <1>2, BatchFacts, EmptySeq DEF NextBatch, PipelineShape, workerVars
  <2>2. Queued' = Queued /\ Uncounted' = Uncounted
    BY <2>1 DEF Queued, QueuedPlaces, Uncounted
  <2> QED BY <1>0, <1>11, <2>1, <2>2
<1>3. CASE PushOk
  <2>1. /\ Head(batch) \in PipelineEvents /\ Len(batch') = Len(batch) - 1
        /\ UNCHANGED <<dropping, produced, stage, events_dropped, events_processed>>
    BY <1>3, TailElements DEF PushOk, PipelineShape, workerVars
  <2>2. PICK w \in Workers : w = Shard(Head(batch))
    BY <2>1, ShardIsWorker DEF PipelineEvents
  <2>3. Queued' = Queued + 1
    BY <1>3, <2>1, <2>2, PushFillsPlace DEF PushOk
  <2>4. Uncounted' = Uncounted
    BY <2>1 DEF Uncounted
  <2> QED BY <1>0, <1>11, <2>1, <2>3, <2>4
<1>4. CASE PushErr
  <2>1. /\ Len(batch') = Len(batch) - 1 /\ ~dropping /\ dropping'
        /\ UNCHANGED <<queues, produced, stage, events_dropped, events_processed>>
    BY <1>4, TailElements DEF PushErr, PipelineShape, workerVars
  <2>2. Queued' = Queued /\ Uncounted' = Uncounted
    BY <2>1 DEF Queued, QueuedPlaces, Uncounted
  <2> QED BY <1>0, <1>11, <2>1, <2>2
<1>5. CASE CountDropped
  <2>1. /\ dropping /\ ~dropping' /\ events_dropped' = events_dropped + 1
        /\ UNCHANGED <<batch, queues, produced, stage, events_processed>>
    BY <1>5 DEF CountDropped, workerVars
  <2>2. Queued' = Queued /\ Uncounted' = Uncounted
    BY <2>1 DEF Queued, QueuedPlaces, Uncounted
  <2> QED BY <1>0, <1>11, <2>1, <2>2
<1>6. ASSUME NEW w \in Workers, PopEvent(w)
      PROVE  EventsConserved'
  <2>1. /\ queues[w] # <<>> /\ queues' = [queues EXCEPT ![w] = Tail(queues[w])]
        /\ stage[w] = "pop" /\ stage' = [stage EXCEPT ![w] = "count"]
        /\ UNCHANGED <<batch, dropping, produced, events_dropped, events_processed>>
    BY <1>6 DEF PopEvent, producerVars
  <2>2. Queued' = Queued - 1
    BY <2>1, PopFreesPlace
  <2>3. {v \in Workers : stage'[v] = "count"} = {v \in Workers : stage[v] = "count"} \cup {w}
    BY <2>1 DEF PipelineShape
  <2>4. Uncounted' = Uncounted + 1
    BY <2>1, <2>3, WorkersFinite, FS_AddElement DEF Uncounted
  <2> QED BY <1>0, <1>11, <2>1, <2>2, <2>4
<1>7. ASSUME NEW w \in Workers, CountProcessed(w)
      PROVE  EventsConserved'
  <2>1. /\ stage[w] = "count" /\ stage' = [stage EXCEPT ![w] = "signature"]
        /\ events_processed' = events_processed + 1
        /\ UNCHANGED <<batch, dropping, produced, queues, events_dropped>>
    BY <1>7 DEF CountProcessed, producerVars
  <2>2. {v \in Workers : stage'[v] = "count"} = {v \in Workers : stage[v] = "count"} \ {w}
    BY <2>1 DEF PipelineShape
  <2>3. Uncounted' = Uncounted - 1
    BY <2>1, <2>2, WorkersFinite, FS_RemoveElement DEF Uncounted
  <2>4. Queued' = Queued
    BY <2>1 DEF Queued, QueuedPlaces
  <2> QED BY <1>0, <1>11, <2>1, <2>3, <2>4
<1>8. ASSUME NEW w \in Workers, Detect(w)
      PROVE  EventsConserved'
  <2>1. /\ stage[w] # "count" /\ stage' = [stage EXCEPT ![w] = After(stage[w])]
        /\ After(stage[w]) # "count"
        /\ UNCHANGED <<batch, dropping, produced, queues, events_dropped, events_processed>>
    BY <1>8 DEF Detect, producerVars, Detectors, After
  <2>2. {v \in Workers : stage'[v] = "count"} = {v \in Workers : stage[v] = "count"}
    BY <2>1 DEF PipelineShape
  <2>3. Uncounted' = Uncounted /\ Queued' = Queued
    BY <2>1, <2>2 DEF Queued, QueuedPlaces, Uncounted
  <2> QED BY <1>0, <1>11, <2>1, <2>3
<1>9. ASSUME NEW w \in Workers, RecordCount(w) \/ RecordStore(w)
      PROVE  EventsConserved'
  BY <1>1, <1>9 DEF RecordCount, RecordStore, producerVars
<1>10. CASE UNCHANGED pipelineVars
  BY <1>1, <1>10 DEF pipelineVars, producerVars, workerVars
<1> QED BY <1>2, <1>3, <1>4, <1>5, <1>6, <1>7, <1>8, <1>9, <1>10
        DEF PipelineNext, ProducerStep, WorkerStep

-----------------------------------------------------------------------------
(* The alert store. *)

\* A store that holds the last alerts of a history, up to its cap.
Recent(store, history) ==
  /\ Len(store) = Min({ALERT_HISTORY_CAP, Len(history)})
  /\ \A i \in 1..Len(store) : store[i] = history[Len(history) - Len(store) + i]

\* push_back and pop_front: such a store is one of the longer history after them.
LEMMA TrimmedIsRecent ==
  ASSUME NEW store \in Seq(PipelineAlerts), NEW history \in Seq(PipelineAlerts),
         NEW a \in PipelineAlerts, Recent(store, history)
  PROVE  Recent(Trimmed(store, a), Append(history, a))
<1> DEFINE l == Append(store, a)
           h == Append(history, a)
<1>0. PICK n \in Nat, r \in Nat : n = Len(store) /\ r = Len(history)
  BY LenProperties
<1>1. /\ ALERT_HISTORY_CAP \in Nat \ {0}
      /\ n = IF ALERT_HISTORY_CAP <= r THEN ALERT_HISTORY_CAP ELSE r
      /\ \A i \in 1..n : store[i] = history[r - n + i]
  <2>1. ALERT_HISTORY_CAP \in Nat \ {0}
    BY PipelineAssumption
  <2>2. Min({ALERT_HISTORY_CAP, r})
          = IF ALERT_HISTORY_CAP <= r THEN ALERT_HISTORY_CAP ELSE r
    BY <2>1, MinOfTwo
  <2> QED BY <1>0, <2>1, <2>2 DEF Recent
<1>2. /\ l \in Seq(PipelineAlerts) /\ Len(l) = n + 1
      /\ l[n + 1] = a /\ \A i \in 1..n : l[i] = store[i]
  BY <1>0, AppendElements
<1>3. /\ h \in Seq(PipelineAlerts) /\ Len(h) = r + 1
      /\ h[r + 1] = a /\ \A i \in 1..r : h[i] = history[i]
  BY <1>0, AppendElements
<1> HIDE DEF l, h
<1>4. Len(Tail(l)) = n /\ \A i \in 1..n : Tail(l)[i] = l[i + 1]
  <2>1. l # <<>>
    BY <1>2, EmptySeq
  <2>2. /\ Len(Tail(l)) = Len(l) - 1
        /\ \A i \in 1..(Len(l) - 1) : Tail(l)[i] = l[i + 1]
    BY <1>2, <2>1, TailElements
  <2> QED BY <1>2, <2>2
<1>5. Trimmed(store, a) = IF n + 1 > ALERT_HISTORY_CAP THEN Tail(l) ELSE l
  BY <1>2 DEF Trimmed, l
<1>6. CASE ALERT_HISTORY_CAP <= r
  <2>1. Trimmed(store, a) = Tail(l) /\ n = ALERT_HISTORY_CAP
    BY <1>1, <1>5, <1>6
  <2>2. ASSUME NEW i \in 1..n PROVE Tail(l)[i] = h[(r + 1) - n + i]
    <3>1. CASE i = n
      <4>1. Tail(l)[i] = a /\ (r + 1) - n + i = r + 1
        BY <1>2, <1>4, <3>1
      <4> QED BY <1>3, <4>1
    <3>2. CASE i # n
      <4>1. i + 1 \in 1..n /\ r - n + (i + 1) \in 1..r /\ r - n + (i + 1) = (r + 1) - n + i
        BY <1>6, <2>1, <3>2
      <4>2. Tail(l)[i] = store[i + 1]
        BY <1>2, <1>4, <4>1
      <4>3. store[i + 1] = history[r - n + (i + 1)]
        BY <1>1, <4>1
      <4>4. history[r - n + (i + 1)] = h[r - n + (i + 1)]
        BY <1>3, <4>1
      <4> QED BY <4>1, <4>2, <4>3, <4>4
    <3> QED BY <3>1, <3>2
  <2>3. Min({ALERT_HISTORY_CAP, r + 1}) = n
    BY <1>1, <1>6, <2>1, MinOfTwo
  <2>4. Recent(Tail(l), h)
    BY <1>3, <1>4, <2>2, <2>3 DEF Recent
  <2> QED BY <2>1, <2>4 DEF h
<1>7. CASE ~(ALERT_HISTORY_CAP <= r)
  <2>1. Trimmed(store, a) = l /\ n = r
    BY <1>1, <1>5, <1>7
  <2>2. ASSUME NEW i \in 1..(r + 1) PROVE l[i] = h[(r + 1) - (r + 1) + i]
    <3>1. CASE i = r + 1
      BY <1>2, <1>3, <2>1, <3>1
    <3>2. CASE i # r + 1
      <4>1. i \in 1..n /\ i \in 1..r /\ r - n + i = i /\ (r + 1) - (r + 1) + i = i
        BY <2>1, <3>2
      <4>2. l[i] = store[i]
        BY <1>2, <4>1
      <4>3. store[i] = history[i]
        BY <1>1, <4>1
      <4>4. history[i] = h[i]
        BY <1>3, <4>1
      <4> QED BY <4>1, <4>2, <4>3, <4>4
    <3> QED BY <3>1, <3>2
  <2>3. Min({ALERT_HISTORY_CAP, r + 1}) = r + 1
    BY <1>1, <1>7, MinOfTwo
  <2>4. Recent(l, h)
    BY <1>2, <1>3, <2>1, <2>2, <2>3 DEF Recent
  <2> QED BY <2>1, <2>4 DEF h
<1> QED BY <1>6, <1>7

\* The store without its counters.
LEMMA StoreParts ==
  ASSUME PipelineShape
  PROVE  StoreIsRecent <=>
           /\ Recent(alerts, recorded)
           /\ alerts_fired = Len(recorded) + Cardinality({w \in Workers : counted[w]})
<1>1. DOMAIN alerts = 1..Len(alerts)
  BY LenProperties DEF PipelineShape
<1> QED BY <1>1 DEF StoreIsRecent, Recent

LEMMA InitStore ==
  ASSUME PipelineInit
  PROVE  StoreIsRecent
<1>1. /\ alerts = <<>> /\ recorded = <<>> /\ Len(<<>>) = 0 /\ alerts_fired = 0
      /\ {w \in Workers : counted[w]} = {}
  BY EmptySeq DEF PipelineInit
<1>2. Min({ALERT_HISTORY_CAP, 0}) = 0
  BY PipelineAssumption, MinOfTwo
<1>3. DOMAIN alerts = {}
  BY <1>1
<1> QED BY <1>1, <1>2, <1>3, FS_EmptySet DEF StoreIsRecent

\* An alert is counted, then stored; the store forgets only its oldest alert.
LEMMA NextStore ==
  ASSUME PipelineShape, StoreIsRecent, [PipelineNext]_pipelineVars
  PROVE  StoreIsRecent'
<1> DEFINE C == {w \in Workers : counted[w]}
           K == Cardinality(C)
<1>0. /\ IsFiniteSet(C) /\ K \in Nat
      /\ alerts_fired = Len(recorded) + K
      /\ alerts_fired \in Nat /\ Len(recorded) \in Nat
      /\ counted \in [Workers -> BOOLEAN]
  BY WorkersFinite, LenProperties DEF StoreIsRecent, PipelineShape
<1>4. PipelineShape'
  BY NextShape
<1>1. CASE UNCHANGED <<alerts, recorded, alerts_fired, counted>>
  BY <1>1 DEF StoreIsRecent
<1>2. ASSUME NEW w \in Workers, RecordCount(w)
      PROVE  StoreIsRecent'
  <2>1. /\ UNCHANGED <<alerts, recorded>> /\ ~counted[w]
        /\ alerts_fired' = alerts_fired + 1 /\ counted' = [counted EXCEPT ![w] = TRUE]
    BY <1>2 DEF RecordCount
  <2>2. {v \in Workers : counted'[v]} = C \cup {w} /\ w \notin C
    BY <1>0, <2>1
  <2>3. K' = K + 1
    BY <1>0, <2>2, FS_AddElement
  <2> HIDE DEF K
  <2>4. alerts_fired' = Len(recorded') + K'
    BY <1>0, <2>1, <2>3
  <2> QED BY <2>1, <2>4 DEF StoreIsRecent, K
<1>3. ASSUME NEW w \in Workers, RecordStore(w)
      PROVE  StoreIsRecent'
  <2>1. /\ counted[w] /\ counted' = [counted EXCEPT ![w] = FALSE]
        /\ alerts' = Trimmed(alerts, Head(pending[w]))
        /\ recorded' = Append(recorded, Head(pending[w]))
        /\ alerts_fired' = alerts_fired
    BY <1>3 DEF RecordStore
  <2>2. {v \in Workers : counted'[v]} = C \ {w} /\ w \in C
    BY <1>0, <2>1
  <2>3. K' = K - 1
    BY <1>0, <2>2, FS_RemoveElement
  <2>4. PICK a \in PipelineAlerts : a = Head(pending[w])
    BY <2>1, TailElements DEF PipelineShape
  <2>5. Recent(Trimmed(alerts, a), Append(recorded, a))
    <3>1. alerts \in Seq(PipelineAlerts) /\ recorded \in Seq(PipelineAlerts)
      BY DEF PipelineShape
    <3>2. Recent(alerts, recorded)
      BY StoreParts
    <3> QED BY <3>1, <3>2, TrimmedIsRecent
  <2>6. Len(recorded') = Len(recorded) + 1
    BY <2>1, <2>4, AppendElements DEF PipelineShape
  <2> HIDE DEF K
  <2>7. alerts_fired' = Len(recorded') + K'
    BY <1>0, <2>1, <2>3, <2>6
  <2>8. Recent(alerts, recorded)'
    BY <2>1, <2>4, <2>5 DEF Recent
  <2>9. DOMAIN alerts' = 1..Len(alerts')
    BY <1>4, LenProperties DEF PipelineShape
  <2> QED BY <2>7, <2>8, <2>9 DEF StoreIsRecent, Recent, K
<1> QED BY <1>1, <1>2, <1>3
        DEF PipelineNext, ProducerStep, WorkerStep, NextBatch, PushOk, PushErr, CountDropped,
            PopEvent, CountProcessed, Detect, pipelineVars, workerVars


-----------------------------------------------------------------------------
(* The order of events. *)

\* An event that no worker has: younger than none.
LEMMA EventNumbers ==
  ASSUME PipelineShape, NEW w \in Workers
  PROVE  event[w].n \in 0..MaxProduced
BY PipelineAssumption DEF PipelineShape, PipelineEvents, NoEvent

LEMMA InitEventOrder ==
  ASSUME PipelineInit
  PROVE  EventOrder /\ HandledOrder
<1>1. /\ batch = <<>> /\ handled = <<>> /\ Len(<<>>) = 0 /\ produced = 0
      /\ \A w \in Workers : queues[w] = <<>> /\ event[w] = NoEvent
  BY EmptySeq DEF PipelineInit
<1>2. \A i : i \notin 1..0
  OBVIOUS
<1>3. NoEvent.n = 0
  BY DEF NoEvent
<1> QED BY <1>1, <1>2, <1>3 DEF EventOrder, HandledOrder, InOrder

\* A batch of new events: younger than all the producer has routed.
LEMMA NextBatchOrder ==
  ASSUME PipelineShape, EventOrder, NextBatch
  PROVE  EventOrder'
<1>1. /\ batch' \in Batches(produced) /\ produced' = produced + Len(batch')
      /\ UNCHANGED <<queues, event>>
  BY DEF NextBatch, workerVars
<1>2. /\ Len(batch') \in Nat /\ produced \in Nat
      /\ \A i \in 1..Len(batch') : batch'[i].n = produced + i
  BY <1>1, BatchFacts DEF PipelineShape
<1>3. InOrder(batch') /\ \A j \in 1..Len(batch') : batch'[j].n <= produced'
  BY <1>1, <1>2 DEF InOrder
<1>4. ASSUME NEW x \in Int, x <= produced
      PROVE  x <= produced' /\ \A j \in 1..Len(batch') : x < batch'[j].n
  BY <1>1, <1>2, <1>4
<1>5. ASSUME NEW w \in Workers
      PROVE  /\ event[w].n \in Int /\ event[w].n <= produced
             /\ \A i \in 1..Len(queues[w]) : queues[w][i].n \in Int /\ queues[w][i].n <= produced
  <2>1. queues[w] \in Seq(PipelineEvents)
    BY DEF PipelineShape
  <2>2. \A i \in 1..Len(queues[w]) : queues[w][i] \in PipelineEvents
    BY <2>1, ElementOfSeq
  <2> QED BY <2>2, EventNumbers DEF EventOrder, PipelineEvents
<1>6. ASSUME NEW w \in Workers
      PROVE  /\ event[w].n <= produced'
             /\ \A j \in 1..Len(batch') : event[w].n < batch'[j].n
  BY <1>4, <1>5
<1>7. ASSUME NEW w \in Workers, NEW i \in 1..Len(queues[w])
      PROVE  /\ queues[w][i].n <= produced'
             /\ \A j \in 1..Len(batch') : queues[w][i].n < batch'[j].n
  BY <1>4, <1>5
<1> QED BY <1>1, <1>3, <1>6, <1>7 DEF EventOrder

\* The head of the batch leaves it, to its queue or for good.
LEMMA PushOrder ==
  ASSUME PipelineShape, EventOrder, PushOk \/ PushErr
  PROVE  EventOrder'
<1>1. /\ batch \in Seq(PipelineEvents) /\ batch # <<>> /\ batch' = Tail(batch)
      /\ UNCHANGED <<produced, event>>
  BY DEF PushOk, PushErr, PipelineShape, workerVars
<1>2. PICK e \in PipelineEvents : e = Head(batch)
  BY <1>1, TailElements
<1>3. /\ InOrder(batch') /\ \A j \in 1..Len(batch') : batch'[j].n <= produced
      /\ \A j \in 1..Len(batch') : e.n < batch'[j].n
      /\ \A w \in Workers : \A j \in 1..Len(batch') : event[w].n < batch'[j].n
      /\ \A w \in Workers : \A i \in 1..Len(queues[w]) :
           \A j \in 1..Len(batch') : queues[w][i].n < batch'[j].n
      /\ \A w \in Workers : event[w].n < e.n
      /\ \A w \in Workers : \A i \in 1..Len(queues[w]) : queues[w][i].n < e.n
      /\ e.n <= produced
  <2>1. Len(batch') = Len(batch) - 1 /\ Len(batch) \in Nat \ {0} /\ e = batch[1]
    BY <1>1, <1>2, TailElements
  <2>2. \A j \in 1..Len(batch') : j + 1 \in 1..Len(batch) /\ batch'[j] = batch[j + 1]
    BY <1>1, <2>1, TailElements
  <2>3. InOrder(batch') /\ \A j \in 1..Len(batch') : e.n < batch'[j].n
    BY <1>1, <1>2, TailInOrder DEF EventOrder
  <2>4. 1 \in 1..Len(batch)
    BY <2>1
  <2>5. \A j \in 1..Len(batch') : batch'[j].n <= produced
    BY <2>2 DEF EventOrder
  <2>6. \A w \in Workers :
          /\ \A j \in 1..Len(batch') : event[w].n < batch'[j].n
          /\ \A i \in 1..Len(queues[w]) :
               \A j \in 1..Len(batch') : queues[w][i].n < batch'[j].n
    BY <2>2 DEF EventOrder
  <2>7. /\ e.n <= produced
        /\ \A w \in Workers :
             /\ event[w].n < e.n
             /\ \A i \in 1..Len(queues[w]) : queues[w][i].n < e.n
    BY <2>1, <2>4 DEF EventOrder
  <2> QED BY <2>3, <2>5, <2>6, <2>7
<1>4. CASE PushErr
  BY <1>1, <1>3, <1>4 DEF PushErr, EventOrder
<1>5. CASE PushOk
  <2>1. PICK w \in Workers : w = Shard(e)
    BY <1>2, ShardIsWorker DEF PipelineEvents
  <2>2. /\ queues[w] \in Seq(PipelineEvents)
        /\ queues'[w] = Append(queues[w], e)
        /\ \A v \in Workers : v # w => queues'[v] = queues[v]
    BY <1>2, <1>5, <2>1 DEF PushOk, PipelineShape
  <2>3. InOrder(queues'[w])
    BY <1>2, <1>3, <2>1, <2>2, AppendInOrder DEF EventOrder
  <2>4. \A i \in 1..Len(queues'[w]) :
          queues'[w][i] = e \/ \E k \in 1..Len(queues[w]) : queues'[w][i] = queues[w][k]
    <3>1. /\ Len(queues[w]) \in Nat /\ Len(queues'[w]) = Len(queues[w]) + 1
          /\ queues'[w][Len(queues[w]) + 1] = e
          /\ \A i \in 1..Len(queues[w]) : queues'[w][i] = queues[w][i]
      BY <1>2, <2>2, AppendElements
    <3> QED BY <3>1
  <2>5. ASSUME NEW i \in 1..Len(queues'[w])
        PROVE  /\ Shard(queues'[w][i]) = w
               /\ queues'[w][i].n <= produced
               /\ event[w].n < queues'[w][i].n
               /\ \A j \in 1..Len(batch') : queues'[w][i].n < batch'[j].n
    <3>1. CASE queues'[w][i] = e
      BY <1>3, <2>1, <3>1
    <3>2. CASE queues'[w][i] # e
      <4>1. PICK k \in 1..Len(queues[w]) : queues'[w][i] = queues[w][k]
        BY <2>4, <3>2
      <4> QED BY <1>3, <4>1 DEF EventOrder
    <3> QED BY <3>1, <3>2
  <2>6. ASSUME NEW v \in Workers
        PROVE  /\ InOrder(queues'[v])
               /\ \A i \in 1..Len(queues'[v]) :
                    /\ Shard(queues'[v][i]) = v
                    /\ queues'[v][i].n <= produced
                    /\ event[v].n < queues'[v][i].n
                    /\ \A j \in 1..Len(batch') : queues'[v][i].n < batch'[j].n
    <3>1. CASE v = w
      BY <2>3, <2>5, <3>1
    <3>2. CASE v # w
      BY <1>3, <2>2, <3>2 DEF EventOrder
    <3> QED BY <3>1, <3>2
  <2>7. ASSUME NEW v \in Workers
        PROVE  /\ event[v].n <= produced
               /\ event[v] # NoEvent => Shard(event[v]) = v
               /\ \A j \in 1..Len(batch') : event[v].n < batch'[j].n
    BY <1>3 DEF EventOrder
  <2> QED BY <1>1, <1>3, <2>6, <2>7 DEF EventOrder
<1> QED BY <1>4, <1>5

\* A worker takes the oldest event of its own queue.
LEMMA PopOrder ==
  ASSUME PipelineShape, EventOrder, HandledOrder, NEW w \in Workers, PopEvent(w)
  PROVE  EventOrder' /\ HandledOrder'
<1>1. /\ queues[w] \in Seq(PipelineEvents) /\ queues[w] # <<>>
      /\ UNCHANGED <<batch, produced>>
      /\ event \in [Workers -> PipelineEvents \cup {NoEvent}]
      /\ handled \in Seq([worker : Workers, event : PipelineEvents])
  BY DEF PopEvent, PipelineShape, producerVars
<1>2. PICK e \in PipelineEvents : e = Head(queues[w])
  BY <1>1, TailElements
<1>3. /\ event'[w] = e /\ queues'[w] = Tail(queues[w])
      /\ \A v \in Workers : v # w => queues'[v] = queues[v] /\ event'[v] = event[v]
      /\ handled' = Append(handled, [worker |-> w, event |-> e])
  BY <1>1, <1>2 DEF PopEvent, PipelineShape
<1>4. /\ InOrder(queues'[w])
      /\ Shard(e) = w /\ e.n <= produced /\ event[w].n < e.n
      /\ \A j \in 1..Len(batch) : e.n < batch[j].n
      /\ \A i \in 1..Len(queues'[w]) :
           /\ e.n < queues'[w][i].n
           /\ Shard(queues'[w][i]) = w
           /\ queues'[w][i].n <= produced
           /\ \A j \in 1..Len(batch) : queues'[w][i].n < batch[j].n
  <2>1. /\ Len(queues'[w]) = Len(queues[w]) - 1 /\ Len(queues[w]) \in Nat \ {0}
        /\ e = queues[w][1]
    BY <1>1, <1>2, <1>3, TailElements
  <2>2. \A i \in 1..Len(queues'[w]) : i + 1 \in 1..Len(queues[w]) /\ queues'[w][i] = queues[w][i + 1]
    BY <1>1, <1>3, <2>1, TailElements
  <2>3. InOrder(queues'[w]) /\ \A i \in 1..Len(queues'[w]) : e.n < queues'[w][i].n
    BY <1>1, <1>2, <1>3, TailInOrder DEF EventOrder
  <2>4. 1 \in 1..Len(queues[w])
    BY <2>1
  <2> QED BY <2>1, <2>2, <2>3, <2>4 DEF EventOrder
<1>5. EventOrder'
  <2>1. ASSUME NEW v \in Workers
        PROVE  /\ InOrder(queues'[v])
               /\ event'[v].n <= produced
               /\ event'[v] # NoEvent => Shard(event'[v]) = v
               /\ \A j \in 1..Len(batch) : event'[v].n < batch[j].n
               /\ \A i \in 1..Len(queues'[v]) :
                    /\ Shard(queues'[v][i]) = v
                    /\ queues'[v][i].n <= produced
                    /\ event'[v].n < queues'[v][i].n
                    /\ \A j \in 1..Len(batch) : queues'[v][i].n < batch[j].n
    <3>1. CASE v = w
      BY <1>3, <1>4, <3>1
    <3>2. CASE v # w
      BY <1>3, <3>2 DEF EventOrder
    <3> QED BY <3>1, <3>2
  <2> QED BY <1>1, <2>1 DEF EventOrder
<1>6. HandledOrder'
  <2> DEFINE x == [worker |-> w, event |-> e]
             r == Len(handled)
  <2>1. x \in [worker : Workers, event : PipelineEvents] /\ x.worker = w /\ x.event = e
    BY <1>2
  <2>2. /\ r \in Nat /\ Len(handled') = r + 1 /\ handled'[r + 1] = x
        /\ \A i \in 1..r : handled'[i] = handled[i]
                           /\ handled[i] \in [worker : Workers, event : PipelineEvents]
    <3>1. handled' = Append(handled, x)
      BY <1>3
    <3> HIDE DEF x
    <3>2. PICK T : T = [worker : Workers, event : PipelineEvents]
      OBVIOUS
    <3>3. handled \in Seq(T) /\ x \in T
      BY <1>1, <2>1, <3>2
    <3>4. /\ Len(handled) \in Nat /\ Len(handled') = Len(handled) + 1
          /\ handled'[Len(handled) + 1] = x
          /\ \A i \in 1..Len(handled) : handled'[i] = handled[i] /\ handled[i] \in T
      BY <3>1, <3>3, AppendElements
    <3> QED BY <3>2, <3>4
  <2> HIDE DEF x, r
  <2>3. ASSUME NEW i \in 1..r
        PROVE  /\ handled[i].worker \in Workers
               /\ handled[i].worker = Shard(handled[i].event)
               /\ handled[i].event.n <= event'[handled[i].worker].n
               /\ handled[i].worker = w => handled[i].event.n < e.n
    <3>1. /\ handled[i].worker \in Workers /\ handled[i].event.n \in Int
          /\ handled[i].worker = Shard(handled[i].event)
          /\ handled[i].event.n <= event[handled[i].worker].n
      BY <2>2 DEF HandledOrder, PipelineEvents, r
    <3>2. event[w].n \in Int /\ e.n \in Int
      BY EventNumbers DEF PipelineEvents
    <3> QED BY <1>3, <1>4, <3>1, <3>2
  <2>4. ASSUME NEW i \in 1..(r + 1)
        PROVE  /\ handled'[i].worker = Shard(handled'[i].event)
               /\ handled'[i].event.n <= event'[handled'[i].worker].n
    <3>1. CASE i = r + 1
      <4>1. e.n <= e.n
        BY DEF PipelineEvents
      <4> QED BY <1>3, <1>4, <2>1, <2>2, <3>1, <4>1
    <3>2. CASE i # r + 1
      BY <2>2, <2>3, <3>2
    <3> QED BY <3>1, <3>2
  <2>5. ASSUME NEW i \in 1..(r + 1), NEW j \in 1..(r + 1), i < j,
               handled'[i].worker = handled'[j].worker
        PROVE  handled'[i].event.n < handled'[j].event.n
    <3>1. i \in 1..r /\ handled'[i] = handled[i]
      BY <2>2, <2>5
    <3>2. CASE j = r + 1
      BY <2>1, <2>2, <2>3, <2>5, <3>1, <3>2
    <3>3. CASE j # r + 1
      <4>1. j \in 1..r /\ handled'[j] = handled[j]
        BY <2>2, <2>5, <3>3
      <4> QED BY <2>5, <3>1, <4>1 DEF HandledOrder, r
    <3> QED BY <3>2, <3>3
  <2> QED BY <2>2, <2>4, <2>5 DEF HandledOrder
<1> QED BY <1>5, <1>6

LEMMA NextEventOrder ==
  ASSUME PipelineShape, EventOrder, HandledOrder, [PipelineNext]_pipelineVars
  PROVE  EventOrder' /\ HandledOrder'
<1>1. CASE UNCHANGED <<batch, produced, queues, event, handled>>
  BY <1>1 DEF EventOrder, HandledOrder
<1>2. CASE NextBatch \/ PushOk \/ PushErr
  <2>1. EventOrder'
    BY <1>2, NextBatchOrder, PushOrder
  <2>2. UNCHANGED <<event, handled>>
    BY <1>2 DEF NextBatch, PushOk, PushErr, workerVars
  <2> QED BY <2>1, <2>2 DEF HandledOrder
<1>3. ASSUME NEW w \in Workers, PopEvent(w)
      PROVE  EventOrder' /\ HandledOrder'
  BY <1>3, PopOrder
<1> QED BY <1>1, <1>2, <1>3
        DEF PipelineNext, ProducerStep, WorkerStep, CountDropped, CountProcessed, Detect,
            RecordCount, RecordStore, pipelineVars, producerVars, workerVars


-----------------------------------------------------------------------------
(* The order of alerts. *)

\* What is in the store's history are alerts.
LEMMA RecordedAlert ==
  ASSUME PipelineShape, NEW i \in 1..Len(recorded)
  PROVE  /\ recorded[i].n \in Int /\ recorded[i].id \in Nat
         /\ recorded[i].detector \in Detectors
<1>1. recorded \in Seq(PipelineAlerts)
  BY DEF PipelineShape
<1>2. recorded[i] \in PipelineAlerts
  BY <1>1, ElementOfSeq
<1> QED BY <1>2 DEF PipelineAlerts

LEMMA InitAlertOrder ==
  ASSUME PipelineInit
  PROVE  PendingOrder /\ RecordedOrder /\ AlertsInEventOrder
<1>1. /\ recorded = <<>> /\ Len(<<>>) = 0 /\ DOMAIN recorded = {}
      /\ \A w \in Workers : pending[w] = <<>>
  BY EmptySeq DEF PipelineInit
<1>2. \A i : i \notin 1..0
  OBVIOUS
<1> QED BY <1>1, <1>2 DEF PendingOrder, RecordedOrder, AlertsInEventOrder

\* A worker that pops has recorded all its alerts, about older events.
LEMMA PopAlerts ==
  ASSUME PipelineShape, EventOrder, PendingOrder, RecordedOrder,
         NEW w \in Workers, PopEvent(w)
  PROVE  PendingOrder' /\ RecordedOrder'
<1>1. /\ queues[w] \in Seq(PipelineEvents) /\ queues[w] # <<>>
      /\ UNCHANGED <<pending, next_id, recorded>>
      /\ pending[w] = <<>> /\ Len(<<>>) = 0
      /\ event \in [Workers -> PipelineEvents \cup {NoEvent}]
      /\ recorded \in Seq(PipelineAlerts)
  BY EmptySeq DEF PopEvent, PipelineShape
<1>2. PICK e \in PipelineEvents : e = Head(queues[w])
  BY <1>1, TailElements
<1>3. /\ event'[w] = e
      /\ \A v \in Workers : v # w => event'[v] = event[v]
  BY <1>1, <1>2 DEF PopEvent
<1>4. event[w].n < e.n
  <2>1. e = queues[w][1] /\ 1 \in 1..Len(queues[w])
    BY <1>1, <1>2, TailElements
  <2> QED BY <2>1 DEF EventOrder
<1>5. \A k : k \notin 1..0
  OBVIOUS
<1>6. PendingOrder'
  <2>1. ASSUME NEW v \in Workers, v # w
        PROVE  event'[v] = event[v]
    BY <1>3, <2>1
  <2>2. ASSUME NEW v \in Workers, v = w
        PROVE  pending[v] = <<>> /\ \A k : k \notin 1..Len(pending[v])
    BY <1>1, <1>5, <2>2
  <2> QED BY <1>1, <2>1, <2>2 DEF PendingOrder
<1>7. RecordedOrder'
  <2>1. ASSUME NEW i \in 1..Len(recorded), Shard(recorded[i]) = w
        PROVE  recorded[i].n <= event'[w].n
    <3>1. recorded[i].n \in Int /\ event[w].n \in Int /\ e.n \in Int
      BY EventNumbers, RecordedAlert DEF PipelineEvents
    <3>2. recorded[i].n <= event[w].n
      BY <2>1 DEF RecordedOrder
    <3> QED BY <1>3, <1>4, <3>1, <3>2
  <2>2. ASSUME NEW i \in 1..Len(recorded), NEW v \in Workers, Shard(recorded[i]) = v
        PROVE  recorded[i].n <= event'[v].n
    BY <1>3, <2>1, <2>2 DEF RecordedOrder
  <2> QED BY <1>1, <2>2 DEF RecordedOrder
<1> QED BY <1>6, <1>7

\* A detector numbers what it finds after all that it has found before.
LEMMA DetectAlerts ==
  ASSUME PipelineShape, PendingOrder, RecordedOrder,
         NEW w \in Workers, Detect(w)
  PROVE  PendingOrder' /\ RecordedOrder'
<1>1. PICK d \in Detectors : d = stage[w]
  BY DEF Detect
<1>2. PICK k \in 0..MaxAlerts[d] :
        /\ pending' = [pending EXCEPT ![w] = Found(w, d, k)]
        /\ next_id' = [next_id EXCEPT ![w][d] = @ + k]
  BY <1>1 DEF Detect
<1>3. k \in Nat /\ event[w] \in PipelineEvents /\ event[w] # NoEvent
  BY <1>1, <1>2, PipelineAssumption, WorkerEvent, NoEventApart DEF Detectors
<1>4. PICK c \in Nat : c = next_id[w][d]
  BY DEF PipelineShape
<1>5. /\ UNCHANGED <<event, recorded>>
      /\ next_id'[w][d] = c + k
      /\ \A x \in Detectors : x # d => next_id'[w][x] = next_id[w][x]
      /\ pending'[w] = Found(w, d, k)
      /\ \A v \in Workers : v # w => next_id'[v] = next_id[v] /\ pending'[v] = pending[v]
  BY <1>1, <1>2, <1>4 DEF Detect, PipelineShape
<1>6. /\ Len(pending'[w]) = k
      /\ \A i \in 1..k :
           /\ pending'[w][i].src_ip = event[w].src_ip
           /\ pending'[w][i].n = event[w].n
           /\ pending'[w][i].detector = d
           /\ pending'[w][i].id = c + i - 1
  <2>1. /\ Len(Found(w, d, k)) = k
        /\ \A i \in 1..k :
             Found(w, d, k)[i] = [src_ip |-> event[w].src_ip, n |-> event[w].n,
                                  detector |-> d, id |-> next_id[w][d] + i - 1]
    BY <1>3, FoundAlerts
  <2> QED BY <1>4, <1>5, <2>1
<1>7. PendingOrder'
  <2>1. ASSUME NEW i \in 1..k
        PROVE  /\ pending'[w][i].id < next_id'[w][pending'[w][i].detector]
               /\ \A j \in 1..k : i < j => pending'[w][i].id < pending'[w][j].id
    <3>1. c + i - 1 < c + k /\ \A j \in 1..k : i < j => c + i - 1 < c + j - 1
      BY <1>3
    <3> QED BY <1>5, <1>6, <3>1
  <2>2. ASSUME NEW v \in Workers
        PROVE  /\ pending'[v] # <<>> => event[v] # NoEvent
               /\ \A i \in 1..Len(pending'[v]) :
                    /\ pending'[v][i].src_ip = event[v].src_ip
                    /\ pending'[v][i].n = event[v].n
                    /\ pending'[v][i].id < next_id'[v][pending'[v][i].detector]
               /\ \A i, j \in 1..Len(pending'[v]) :
                    i < j => /\ pending'[v][i].detector = pending'[v][j].detector
                             /\ pending'[v][i].id < pending'[v][j].id
    <3>1. CASE v = w
      <4>1. event[w] # NoEvent /\ Len(pending'[w]) = k
        BY <1>3, <1>6
      <4>2. \A i, j \in 1..k : pending'[w][i].detector = pending'[w][j].detector
        BY <1>6
      <4>3. \A i \in 1..k : /\ pending'[w][i].src_ip = event[w].src_ip
                            /\ pending'[w][i].n = event[w].n
        BY <1>6
      <4> QED BY <2>1, <3>1, <4>1, <4>2, <4>3
    <3>2. CASE v # w
      BY <1>5, <3>2 DEF PendingOrder
    <3> QED BY <3>1, <3>2
  <2> QED BY <1>5, <2>2 DEF PendingOrder
<1>8. RecordedOrder'
  <2>1. ASSUME NEW i \in 1..Len(recorded), Shard(recorded[i]) = w
        PROVE  /\ recorded[i].n <= event[w].n
               /\ recorded[i].id < next_id'[w][recorded[i].detector]
               /\ \A j \in 1..k : recorded[i].detector = pending'[w][j].detector
                                    => recorded[i].id < pending'[w][j].id
    <3>1. PICK x \in Detectors, m \in Nat : x = recorded[i].detector /\ m = recorded[i].id
      BY RecordedAlert
    <3>2. recorded[i].n <= event[w].n /\ m < next_id[w][x]
      BY <2>1, <3>1 DEF RecordedOrder
    <3>3. CASE x = d
      <4>1. m < c /\ m < c + k /\ \A j \in 1..k : m < c + j - 1
        BY <1>3, <1>4, <3>2, <3>3
      <4> QED BY <1>5, <1>6, <3>1, <3>2, <3>3, <4>1
    <3>4. CASE x # d
      BY <1>5, <1>6, <3>1, <3>2, <3>4
    <3> QED BY <3>3, <3>4
  <2>2. ASSUME NEW i \in 1..Len(recorded), NEW v \in Workers, Shard(recorded[i]) = v
        PROVE  /\ recorded[i].n <= event[v].n
               /\ recorded[i].id < next_id'[v][recorded[i].detector]
               /\ \A j \in 1..Len(pending'[v]) :
                    recorded[i].detector = pending'[v][j].detector
                      => recorded[i].id < pending'[v][j].id
    <3>1. CASE v = w
      BY <1>6, <2>1, <2>2, <3>1
    <3>2. CASE v # w
      BY <1>5, <2>2, <3>2 DEF RecordedOrder
    <3> QED BY <3>1, <3>2
  <2> QED BY <1>5, <2>2 DEF RecordedOrder
<1> QED BY <1>7, <1>8

\* The alert a worker stores comes after those stored about its source before,
\* and ahead of those it has left.
LEMMA StoreAlert ==
  ASSUME PipelineShape, EventOrder, PendingOrder, RecordedOrder, AlertsInEventOrder,
         NEW w \in Workers, RecordStore(w)
  PROVE  PendingOrder' /\ RecordedOrder' /\ AlertsInEventOrder'
<1>1. /\ pending \in [Workers -> Seq(PipelineAlerts)] /\ recorded \in Seq(PipelineAlerts)
      /\ pending[w] # <<>>
      /\ UNCHANGED <<event, next_id>>
      /\ pending'[w] = Tail(pending[w])
      /\ \A v \in Workers : v # w => pending'[v] = pending[v]
  BY DEF RecordStore, PipelineShape
<1>2. PICK k \in Nat \ {0}, r \in Nat : k = Len(pending[w]) /\ r = Len(recorded)
  BY <1>1, TailElements, LenProperties
<1>3. PICK a \in PipelineAlerts : a = pending[w][1] /\ a = Head(pending[w])
  BY <1>1, TailElements
<1>4. /\ Len(pending'[w]) = k - 1
      /\ \A i \in 1..(k - 1) : /\ i + 1 \in 1..k /\ 1 < i + 1
                               /\ pending'[w][i] = pending[w][i + 1]
  BY <1>1, <1>2, TailElements
<1>5. /\ Len(recorded') = r + 1 /\ recorded'[r + 1] = a
      /\ \A i \in 1..r : recorded'[i] = recorded[i]
      /\ DOMAIN recorded' = 1..(r + 1) /\ DOMAIN recorded = 1..r
  <2>1. recorded' = Append(recorded, a)
    BY <1>3 DEF RecordStore
  <2> QED BY <1>1, <1>2, <2>1, AppendElements, LenProperties
<1>6. 1 \in 1..k
  BY <1>2
<1>11. \A i, j \in 1..k :
         i < j => /\ pending[w][i].detector = pending[w][j].detector
                  /\ pending[w][i].id < pending[w][j].id
  BY <1>2 DEF PendingOrder
<1>7. /\ Shard(a) = w /\ a.n = event[w].n /\ a.src_ip = event[w].src_ip
      /\ a.id < next_id[w][a.detector]
      /\ \A i \in 1..(k - 1) : /\ pending'[w][i].detector = a.detector
                               /\ a.id < pending'[w][i].id
  <2>1. a.src_ip = event[w].src_ip /\ a.n = event[w].n /\ a.id < next_id[w][a.detector]
    BY <1>2, <1>3, <1>6 DEF PendingOrder
  <2>2. Shard(event[w]) = w
    BY <1>1 DEF PendingOrder, EventOrder
  <2>3. Shard(a) = w
    BY <2>1, <2>2 DEF Shard
  <2>4. ASSUME NEW i \in 1..(k - 1)
        PROVE  pending'[w][i].detector = a.detector /\ a.id < pending'[w][i].id
    <3>1. i + 1 \in 1..k /\ 1 < i + 1 /\ pending'[w][i] = pending[w][i + 1]
      BY <1>4
    <3>2. /\ pending[w][1].detector = pending[w][i + 1].detector
          /\ pending[w][1].id < pending[w][i + 1].id
      BY <1>6, <1>11, <3>1
    <3> QED BY <1>3, <3>1, <3>2
  <2> QED BY <2>1, <2>3, <2>4
<1>8. PendingOrder'
  <2>1. ASSUME NEW v \in Workers
        PROVE  /\ pending'[v] # <<>> => event[v] # NoEvent
               /\ \A i \in 1..Len(pending'[v]) :
                    /\ pending'[v][i].src_ip = event[v].src_ip
                    /\ pending'[v][i].n = event[v].n
                    /\ pending'[v][i].id < next_id[v][pending'[v][i].detector]
               /\ \A i, j \in 1..Len(pending'[v]) :
                    i < j => /\ pending'[v][i].detector = pending'[v][j].detector
                             /\ pending'[v][i].id < pending'[v][j].id
    <3>1. CASE v = w
      <4>1. \A i, j \in 1..(k - 1) : i < j => i + 1 < j + 1
        BY <1>2
      <4>2. \A i \in 1..(k - 1) :
              /\ pending'[w][i].src_ip = event[w].src_ip
              /\ pending'[w][i].n = event[w].n
              /\ pending'[w][i].id < next_id[w][pending'[w][i].detector]
        BY <1>2, <1>4 DEF PendingOrder
      <4>3. ASSUME NEW i \in 1..(k - 1), NEW j \in 1..(k - 1), i < j
            PROVE  /\ pending'[w][i].detector = pending'[w][j].detector
                   /\ pending'[w][i].id < pending'[w][j].id
        <5>1. i + 1 \in 1..k /\ j + 1 \in 1..k /\ i + 1 < j + 1
          BY <1>4, <4>1, <4>3
        <5>2. /\ pending[w][i + 1].detector = pending[w][j + 1].detector
              /\ pending[w][i + 1].id < pending[w][j + 1].id
          BY <1>11, <5>1
        <5> QED BY <1>4, <5>2
      <4>4. event[w] # NoEvent
        BY <1>1 DEF PendingOrder
      <4> QED BY <1>4, <3>1, <4>2, <4>3, <4>4
    <3>2. CASE v # w
      BY <1>1, <3>2 DEF PendingOrder
    <3> QED BY <3>1, <3>2
  <2> QED BY <1>1, <2>1 DEF PendingOrder
<1>9. RecordedOrder'
  <2>1. ASSUME NEW i \in 1..(r + 1), NEW v \in Workers, Shard(recorded'[i]) = v
        PROVE  /\ recorded'[i].n <= event[v].n
               /\ recorded'[i].id < next_id[v][recorded'[i].detector]
               /\ \A j \in 1..Len(pending'[v]) :
                    recorded'[i].detector = pending'[v][j].detector
                      => recorded'[i].id < pending'[v][j].id
    <3>1. CASE i = r + 1
      <4>1. recorded'[i] = a /\ v = w
        BY <1>5, <1>7, <2>1, <3>1
      <4>2. a.n <= a.n
        BY DEF PipelineAlerts
      <4> QED BY <1>4, <1>7, <4>1, <4>2
    <3>2. CASE i # r + 1
      <4>1. i \in 1..r /\ recorded'[i] = recorded[i]
        BY <1>5, <3>2
      <4>2. /\ recorded[i].n <= event[v].n
            /\ recorded[i].id < next_id[v][recorded[i].detector]
            /\ \A j \in 1..Len(pending[v]) :
                 recorded[i].detector = pending[v][j].detector
                   => recorded[i].id < pending[v][j].id
        BY <1>2, <2>1, <4>1 DEF RecordedOrder
      <4>3. CASE v = w
        BY <1>2, <1>4, <4>1, <4>2, <4>3
      <4>4. CASE v # w
        BY <1>1, <4>1, <4>2, <4>4
      <4> QED BY <4>3, <4>4
    <3> QED BY <3>1, <3>2
  <2> QED BY <1>1, <1>5, <2>1 DEF RecordedOrder
<1>10. AlertsInEventOrder'
  <2>1. ASSUME NEW i \in 1..(r + 1), NEW j \in 1..(r + 1), i < j,
               recorded'[i].src_ip = recorded'[j].src_ip
        PROVE  /\ recorded'[i].n <= recorded'[j].n
               /\ recorded'[i].detector = recorded'[j].detector
                    => recorded'[i].id < recorded'[j].id
    <3>1. i \in 1..r /\ recorded'[i] = recorded[i]
      BY <1>2, <1>5, <2>1
    <3>2. CASE j = r + 1
      <4>1. recorded'[j] = a /\ recorded[i].src_ip = a.src_ip
        BY <1>5, <2>1, <3>1, <3>2
      <4>2. Shard(recorded[i]) = w
        BY <1>7, <4>1 DEF Shard
      <4>3. /\ recorded[i].n <= event[w].n
            /\ \A l \in 1..k : recorded[i].detector = pending[w][l].detector
                                 => recorded[i].id < pending[w][l].id
        BY <1>2, <3>1, <4>2 DEF RecordedOrder
      <4> QED BY <1>3, <1>6, <1>7, <3>1, <4>1, <4>3
    <3>3. CASE j # r + 1
      <4>1. j \in 1..r /\ recorded'[j] = recorded[j]
        BY <1>5, <3>3
      <4> QED BY <1>5, <2>1, <3>1, <4>1 DEF AlertsInEventOrder
    <3> QED BY <3>2, <3>3
  <2> QED BY <1>5, <2>1 DEF AlertsInEventOrder
<1> QED BY <1>8, <1>9, <1>10

LEMMA NextAlertOrder ==
  ASSUME PipelineShape, EventOrder, PendingOrder, RecordedOrder, AlertsInEventOrder,
         [PipelineNext]_pipelineVars
  PROVE  PendingOrder' /\ RecordedOrder' /\ AlertsInEventOrder'
<1>1. CASE UNCHANGED <<event, pending, next_id, recorded>>
  BY <1>1 DEF PendingOrder, RecordedOrder, AlertsInEventOrder
<1>2. ASSUME NEW w \in Workers, PopEvent(w) \/ Detect(w)
      PROVE  PendingOrder' /\ RecordedOrder' /\ AlertsInEventOrder'
  <2>1. PendingOrder' /\ RecordedOrder'
    BY <1>2, PopAlerts, DetectAlerts
  <2>2. UNCHANGED recorded
    BY <1>2 DEF PopEvent, Detect
  <2> QED BY <2>1, <2>2 DEF AlertsInEventOrder
<1>3. ASSUME NEW w \in Workers, RecordStore(w)
      PROVE  PendingOrder' /\ RecordedOrder' /\ AlertsInEventOrder'
  BY <1>3, StoreAlert
<1> QED BY <1>1, <1>2, <1>3
        DEF PipelineNext, ProducerStep, WorkerStep, NextBatch, PushOk, PushErr, CountDropped,
            CountProcessed, RecordCount, pipelineVars, workerVars

-----------------------------------------------------------------------------
(* The theorems. *)

\* PipelineInv holds in every state of every run.
THEOREM PipelineInvariant ==
  PipelineSpec => []PipelineInv
<1>1. PipelineInit => PipelineInv
  BY InitShape, InitConserved, InitEventOrder, InitAlertOrder, InitStore DEF PipelineInv
<1>2. PipelineInv /\ [PipelineNext]_pipelineVars => PipelineInv'
  BY NextShape, NextConserved, NextEventOrder, NextAlertOrder, NextStore DEF PipelineInv
<1> QED BY <1>1, <1>2, PTL DEF PipelineSpec

\* PipelineTypeOK, whose caps are those of the code - QUEUE_CAPACITY of the
\* queues, ALERT_HISTORY_CAP of the store - and whose statistics never count more
\* events than were produced.
THEOREM PipelineTypeCorrect ==
  PipelineSpec => []PipelineTypeOK
<1>1. ASSUME PipelineInv
      PROVE  PipelineTypeOK
  <2>1. PipelineShape /\ EventsConserved /\ StoreIsRecent
    BY <1>1 DEF PipelineInv
  <2>2. Len(alerts) <= ALERT_HISTORY_CAP
    <3>1. ALERT_HISTORY_CAP \in Nat /\ Len(recorded) \in Nat
      BY <2>1, PipelineAssumption, LenProperties DEF PipelineShape
    <3>2. Min({ALERT_HISTORY_CAP, Len(recorded)}) <= ALERT_HISTORY_CAP
      BY <3>1, MinOfTwo
    <3> QED BY <2>1, <3>2 DEF StoreIsRecent
  <2>3. {events_processed, events_dropped, produced} \subseteq 0..MaxProduced
    <3>1. PICK D \in Nat : D = IF dropping THEN 1 ELSE 0
      OBVIOUS
    <3>2. /\ Len(batch) \in Nat /\ Queued \in Nat /\ Uncounted \in Nat
          /\ produced = Len(batch) + D + events_dropped + Queued + Uncounted + events_processed
      BY <2>1, <3>1, LenProperties, PlacesFinite, WorkersFinite
         DEF PipelineShape, Uncounted, EventsConserved
    <3>3. events_processed \in Nat /\ events_dropped \in Nat /\ produced \in 0..MaxProduced
      BY <2>1 DEF PipelineShape
    <3>4. events_processed <= produced /\ events_dropped <= produced
      BY <3>2, <3>3
    <3> QED BY <3>3, <3>4, PipelineAssumption
  <2>4. \A w \in Workers :
          /\ queues[w] \in Seq(PipelineEvents) /\ Len(queues[w]) <= QUEUE_CAPACITY
          /\ stage[w] \in {"pop", "count"} \cup Detectors
          /\ \A d \in Detectors : next_id[w][d] \in Nat \ {0}
          /\ event[w] \in PipelineEvents \cup {NoEvent}
          /\ counted[w] => pending[w] # <<>>
    BY <2>1 DEF PipelineShape, Stages
  <2>5. /\ batch \in Seq(PipelineEvents) /\ Len(batch) <= MaxBatch
        /\ dropping \in BOOLEAN /\ alerts_fired \in Nat
    BY <2>1, Zenon DEF PipelineShape
  <2> QED BY <2>2, <2>3, <2>4, <2>5 DEF PipelineTypeOK
<1> QED BY <1>1, PipelineInvariant, PTL

\* EventsConserved: no event is lost between the producer and the statistics, and
\* none is counted twice.
THEOREM NoEventLost ==
  PipelineSpec => []EventsConserved
<1>1. PipelineInv => EventsConserved
  BY DEF PipelineInv
<1> QED BY <1>1, PipelineInvariant, PTL

\* SourceAffinity: "every event for a given source IP is guaranteed to reach this
\* same worker's queue", in order.
THEOREM OneWorkerPerSource ==
  PipelineSpec => []SourceAffinity
<1>1. ASSUME PipelineInv
      PROVE  SourceAffinity
  <2>1. DOMAIN handled = 1..Len(handled)
    BY <1>1, LenProperties DEF PipelineInv, PipelineShape
  <2>2. ASSUME NEW i \in 1..Len(handled), NEW j \in 1..Len(handled), i < j,
               handled[i].event.src_ip = handled[j].event.src_ip
        PROVE  /\ handled[i].worker = handled[j].worker
               /\ handled[i].event.n < handled[j].event.n
    <3>1. handled[i].worker = handled[j].worker
      BY <1>1, <2>2 DEF PipelineInv, HandledOrder, Shard
    <3> QED BY <1>1, <2>2, <3>1 DEF PipelineInv, HandledOrder
  <2> QED BY <2>1, <2>2 DEF SourceAffinity
<1> QED BY <1>1, PipelineInvariant, PTL

\* AlertsInEventOrder: the alerts about a source enter the store in the order of
\* its events, whatever the workers of other sources record in between.
THEOREM AlertsInOrder ==
  PipelineSpec => []AlertsInEventOrder
<1>1. PipelineInv => AlertsInEventOrder
  BY DEF PipelineInv
<1> QED BY <1>1, PipelineInvariant, PTL

\* StoreIsRecent: the store forgets its oldest alerts and no others, and
\* alerts_fired is ahead of it by the alerts between counter and store.
THEOREM StoreKeepsRecent ==
  PipelineSpec => []StoreIsRecent
<1>1. PipelineInv => StoreIsRecent
  BY DEF PipelineInv
<1> QED BY <1>1, PipelineInvariant, PTL

-----------------------------------------------------------------------------
(* The ids of alerts. *)

\* A detector's id counter belongs to one worker: among the alerts of a worker
\* and a detector, the ids increase in the order of the store.
IdsRise ==
  \A i, j \in 1..Len(recorded) :
    i < j /\ Shard(recorded[i]) = Shard(recorded[j])
          /\ recorded[i].detector = recorded[j].detector
      => recorded[i].id < recorded[j].id

LEMMA StoreId ==
  ASSUME PipelineInv, IdsRise, NEW w \in Workers, RecordStore(w)
  PROVE  IdsRise'
<1>0. PipelineShape /\ EventOrder /\ PendingOrder /\ RecordedOrder
  BY DEF PipelineInv
<1>1. /\ pending[w] \in Seq(PipelineAlerts) /\ pending[w] # <<>>
      /\ recorded \in Seq(PipelineAlerts)
  BY <1>0 DEF RecordStore, PipelineShape
<1>2. PICK r \in Nat : r = Len(recorded)
  BY <1>1, LenProperties
<1>3. PICK a \in PipelineAlerts :
        a = pending[w][1] /\ a = Head(pending[w]) /\ 1 \in 1..Len(pending[w])
  BY <1>1, TailElements
<1>4. recorded' = Append(recorded, a)
  BY <1>3 DEF RecordStore
<1>5. /\ Len(recorded') = r + 1 /\ recorded'[r + 1] = a
      /\ \A i \in 1..r : recorded'[i] = recorded[i]
  BY <1>1, <1>2, <1>4, AppendElements
<1>6. Shard(a) = w
  <2>1. a.src_ip = event[w].src_ip /\ event[w] # NoEvent
    BY <1>0, <1>1, <1>3 DEF PendingOrder
  <2> QED BY <1>0, <2>1 DEF EventOrder, Shard
<1>7. \A i \in 1..r : Shard(recorded[i]) = w /\ recorded[i].detector = a.detector
                        => recorded[i].id < a.id
  BY <1>0, <1>2, <1>3 DEF RecordedOrder
<1>8. ASSUME NEW i \in 1..(r + 1), NEW j \in 1..(r + 1), i < j,
             Shard(recorded'[i]) = Shard(recorded'[j]),
             recorded'[i].detector = recorded'[j].detector
      PROVE  recorded'[i].id < recorded'[j].id
  <2>1. i \in 1..r
    BY <1>8
  <2>2. CASE j = r + 1
    BY <1>5, <1>6, <1>7, <1>8, <2>1, <2>2
  <2>3. CASE j # r + 1
    <3>1. j \in 1..r
      BY <2>3
    <3> QED BY <1>2, <1>5, <1>8, <2>1, <3>1 DEF IdsRise
  <2> QED BY <2>2, <2>3
<1> QED BY <1>5, <1>8 DEF IdsRise, Shard

\* The ids that a worker's detector gives are never given again.
THEOREM IdsNeverRepeat ==
  PipelineSpec => []IdsRise
<1>1. PipelineInit => IdsRise
  <2>1. Len(<<>>) = 0 /\ \A i : i \notin 1..0
    OBVIOUS
  <2> QED BY <2>1 DEF PipelineInit, IdsRise
<1>2. ASSUME PipelineInv, IdsRise, [PipelineNext]_pipelineVars
      PROVE  IdsRise'
  <2>1. CASE UNCHANGED recorded
    BY <1>2, <2>1 DEF IdsRise, Shard
  <2>2. ASSUME NEW w \in Workers, RecordStore(w)
        PROVE  IdsRise'
    BY <1>2, <2>2, StoreId
  <2> QED BY <1>2, <2>1, <2>2
      DEF PipelineNext, ProducerStep, WorkerStep, NextBatch, PushOk, PushErr, CountDropped,
          PopEvent, Detect, CountProcessed, RecordCount, pipelineVars
<1>3. PipelineInv /\ IdsRise /\ [PipelineNext]_pipelineVars => IdsRise'
  BY <1>2
<1> QED BY <1>1, <1>3, PipelineInvariant, PTL DEF PipelineSpec
=============================================================================
