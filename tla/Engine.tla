-------------------------------- MODULE Engine --------------------------------
(***************************************************************************)
(* The engine end to end: the simulator's traffic, the routing to workers,  *)
(* and in every worker the three detectors of Signature, AnomalyDetector    *)
(* and CepEngine, each with a state of its own.  Pipeline has the threads   *)
(* at the grain of shared-memory accesses and leaves open what a detector   *)
(* finds; here that is computed, and a worker handles an event in one step, *)
(* at one instant.  The question is what becomes of the attacks.            *)
(***************************************************************************)
EXTENDS Simulator, Signature

CONSTANTS
  ShardKey,            \* ShardKey[s]: NetworkEvent::shard_key, a hash of src_ip
  WORKER_COUNT, QUEUE_CAPACITY,
  Rows, Columns, Hash, CounterMax, Bucket, FloodThreshold, ScanThreshold,
                       \* see AnomalyDetector
  Window,              \* five seconds: of the anomaly detector and the CEP rule
  MaxTime,             \* bound on the clock
  MaxTicks             \* bound on the batches

ASSUME EngineAssumption ==
  /\ ShardKey \in [Sources -> Nat]
  /\ {WORKER_COUNT, QUEUE_CAPACITY} \subseteq Nat \ {0}
  /\ {MaxTime, MaxTicks} \subseteq Nat

\* As in AnomalyDetector and CepEngine: 50 SYNs, 25 ports, five seconds.
ASSUME DetectorAssumption ==
  /\ Rows # {} /\ Hash \in [Rows -> [Sources -> Columns]]
  /\ CounterMax \in Nat \ {0} /\ FloodThreshold \in 1..CounterMax
  /\ {ScanThreshold, Window} \subseteq Nat \ {0}

\* A flood and a scan reach their thresholds, and the ports of all the other
\* traffic stay below theirs.
ASSUME TrafficAssumption ==
  /\ FloodBurst >= FloodThreshold
  /\ Cardinality({Bucket[ScannedPorts[i]] : i \in DOMAIN ScannedPorts}) >= ScanThreshold
  /\ IsFiniteSet(BenignPorts)
  /\ Cardinality({Bucket[p] : p \in BenignPorts \cup {80}}) < ScanThreshold

VARIABLES
  tick,                \* of the simulator
  batch,               \* the rest of the batch the producer is pushing
  queues,              \* queues[w], oldest event first
  anomaly,             \* anomaly[w]: the fields of w's WindowedAnomalyDetector
  cep,                 \* cep[w]: the field active of w's CepEngine
  clock,               \* what Instant::now() returns
  handled              \* history: handled[w]: events, with the rules that fired

engineVars == <<tick, batch, queues, anomaly, cep, clock, handled>>

Workers == 0..(WORKER_COUNT - 1)

\* Everything a packet can be, as far as a detector can see.
Shapes ==
  {[dst_port |-> p.dst_port, flags |-> p.flags, payload_sample |-> p.payload_sample] :
     p \in (UNION {{b[i] : i \in DOMAIN b} : b \in UNION {Injections(k) : k \in AttackKinds}})
           \cup Benign("benign", Request)}

CepRule == "probe_then_exploit_attempt"
CepRules == {CepRule}
CepSteps == [r \in CepRules |-> <<"IsSynOnly", "HasSignaturePayload">>]
CepWindow == [r \in CepRules |-> Window]

\* The detectors of worker w.
Anomaly(w) == INSTANCE AnomalyDetector WITH
  Ports <- Nat,
  syn_counts <- anomaly[w].syn_counts,
  port_cardinality <- anomaly[w].port_cardinality,
  alerted_flood_this_window <- anomaly[w].alerted_flood_this_window,
  alerted_scan_this_window <- anomaly[w].alerted_scan_this_window,
  window_start <- anomaly[w].window_start

Cep(w) == INSTANCE CepEngine WITH
  Rules <- CepRules, Steps <- CepSteps, Window <- CepWindow, PortBound <- 0,
  MaxPartials <- 0, active <- cep[w], now <- clock

EngineInit ==
  /\ tick = 0
  /\ batch = <<>>
  /\ queues = [w \in Workers |-> <<>>]
  /\ anomaly = [w \in Workers |->
       [syn_counts |-> [r \in Rows |-> [c \in Columns |-> 0]],
        port_cardinality |-> [s \in Sources |-> {}],
        alerted_flood_this_window |-> {}, alerted_scan_this_window |-> {},
        window_start |-> 0]]
  /\ cep = [w \in Workers |-> [r \in CepRules |-> [key \in {} |-> <<>>]]]
  /\ clock = 0
  /\ handled = [w \in Workers |-> <<>>]

-----------------------------------------------------------------------------

\* sim.next_batch(): an event is known by its tick and its place in the batch.
NextBatch ==
  /\ batch = <<>> /\ tick < MaxTicks
  /\ tick' = tick + 1
  /\ \E b \in next_batch(tick') :
       batch' = [i \in DOMAIN b |-> [tick |-> tick', n |-> i, packet |-> b[i]]]
  /\ UNCHANGED <<queues, anomaly, cep, clock, handled>>

\* Mutant: routing by flow_key, which differs between packets of one source.
ShardByFlow(e) == (ShardKey[e.packet.src_ip] + e.n) % WORKER_COUNT

\* (event.shard_key() as usize) % worker_count
Shard(e) == ShardKey[e.packet.src_ip] % WORKER_COUNT

\* push, which puts the event into a queue with room, or fails on a full queue
\* and on one that may look full because its next slot has been used before (see
\* Pipeline): then the event is dropped.
Push ==
  /\ batch # <<>>
  /\ LET w == Shard(Head(batch))
     IN \/ /\ Len(queues[w]) < QUEUE_CAPACITY
           /\ queues' = [queues EXCEPT ![w] = Append(@, Head(batch))]
        \/ /\ Len(queues[w]) + Len(handled[w]) >= QUEUE_CAPACITY
           /\ UNCHANGED queues
  /\ batch' = Tail(batch)
  /\ UNCHANGED <<tick, anomaly, cep, clock, handled>>

\* The state observe leaves.
AnomalyAfter(w, packet) ==
  [syn_counts |-> Anomaly(w)!Counted(packet),
   port_cardinality |-> Anomaly(w)!PortsAfter(packet),
   alerted_flood_this_window |-> Anomaly(w)!FloodedAfter(packet),
   alerted_scan_this_window |-> Anomaly(w)!ScannedAfter(packet),
   window_start |-> IF Anomaly(w)!WindowOver THEN clock ELSE anomaly[w].window_start]

\* The rules for which the worker records an alert, in their order.
Alerts(w, packet) ==
  scan(packet)
  \o (IF Anomaly(w)!FloodFires(packet) THEN <<"syn_flood_anomaly">> ELSE <<>>)
  \o (IF Anomaly(w)!ScanFires(packet) THEN <<"port_scan_anomaly">> ELSE <<>>)
  \o (IF Cep(w)!Fires(CepRule, packet) THEN <<CepRule>> ELSE <<>>)

\* One turn of a worker's loop that finds an event: pop, scan, observe, process.
Handle(w) ==
  /\ queues[w] # <<>>
  /\ queues' = [queues EXCEPT ![w] = Tail(@)]
  /\ LET e == Head(queues[w])
     IN /\ anomaly' = [anomaly EXCEPT ![w] = AnomalyAfter(w, e.packet)]
        /\ cep' = [cep EXCEPT ![w] = Cep(w)!ActiveAfter(e.packet)]
        /\ handled' = [handled EXCEPT ![w] = Append(@,
             [event |-> e, alerts |-> Alerts(w, e.packet), at |-> clock,
              window |-> AnomalyAfter(w, e.packet).window_start])]
  /\ UNCHANGED <<tick, batch, clock>>

Tick ==
  /\ clock < MaxTime
  /\ clock' = clock + 1
  /\ UNCHANGED <<tick, batch, queues, anomaly, cep, handled>>

EngineNext == NextBatch \/ Push \/ Tick \/ \E w \in Workers : Handle(w)

EngineSpec == EngineInit /\ [][EngineNext]_engineVars

-----------------------------------------------------------------------------
(* Properties *)

Handled == UNION {{handled[w][i] : i \in DOMAIN handled[w]} : w \in Workers}
Raised(h, rule) == \E i \in DOMAIN h.alerts : h.alerts[i] = rule

\* The handled events of an attack.
Attack(kind, t) == {h \in Handled : h.event.packet.kind = kind /\ h.event.tick = t}

\* "shard_key fixes this": a burst none of whose events was dropped, and which
\* its worker handles within one window, is reported in that window, whatever
\* else the source and the others on that worker send in between.
BurstReported ==
  \A t \in 1..tick :
    \A b \in {[kind |-> "flood", size |-> FloodBurst, rule |-> "syn_flood_anomaly"],
              [kind |-> "scan", size |-> Len(ScannedPorts), rule |-> "port_scan_anomaly"]} :
      LET burst == Attack(b.kind, t)
      IN burst # {} /\ Cardinality(burst) = b.size
         /\ Cardinality({h.window : h \in burst}) = 1
           => \E h \in Handled : \E g \in burst :
                /\ Raised(h, b.rule) /\ h.window = g.window
                /\ h.event.packet.src_ip = g.event.packet.src_ip

\* "this block fixes that": a probe and its exploit that both reach a worker
\* and are handled within the rule's window make the CEP rule fire.
ExploitReported ==
  \A t \in 1..tick : \A p \in Attack("probe", t), x \in Attack("exploit", t) :
    x.at - p.at <= Window => Raised(x, CepRule)

\* "which is exactly the kind of false negative a NIDS can't afford": both
\* signatures of the traversal are reported although they share a slash, each
\* once, and no other.
TraversalReported ==
  \A h \in Handled :
    h.event.packet.payload_sample = Traversal =>
      /\ Raised(h, "path_traversal_passwd") /\ Raised(h, "path_traversal_generic")
      /\ Cardinality({i \in DOMAIN h.alerts : h.alerts[i] \in SignatureRules}) = 2

\* What worker w has handled of the source of its i-th event, that event
\* included, and the part of it that was handled in the same window.
SoFar(w, i) ==
  {j \in 1..i : handled[w][j].event.packet.src_ip = handled[w][i].event.packet.src_ip}
InItsWindow(w, i) == {j \in SoFar(w, i) : handled[w][j].window = handled[w][i].window}

\* In some row of the sketch s shares its column with no source of its worker.
Distinguished(s) ==
  \E r \in Rows : \A u \in Sources \ {s} :
    ShardKey[u] % WORKER_COUNT = ShardKey[s] % WORKER_COUNT => Hash[r][u] # Hash[r][s]

\* Every alert rests on what its worker has handled of the accused source up to
\* and including the event that raised it, and on nothing older than a window:
\* a port scan on a packet of a scan, a flood on FloodThreshold SYNs of this
\* source alone -- unless other sources collide with it in every row of the
\* sketch --, the sequence on an earlier SYN and now a malicious payload.
NoneAccusedFalsely ==
  \A w \in Workers : \A i \in DOMAIN handled[w] :
    LET h == handled[w][i]
        packet(j) == handled[w][j].event.packet
    IN /\ Raised(h, "port_scan_anomaly")
            => \E j \in InItsWindow(w, i) : packet(j).kind = "scan"
       /\ Raised(h, "syn_flood_anomaly") /\ Distinguished(packet(i).src_ip)
            => Cardinality({j \in InItsWindow(w, i) : is_syn(packet(j))}) >= FloodThreshold
       /\ Raised(h, CepRule)
            => /\ packet(i).kind \in {"payload", "exploit"}
               /\ \E j \in SoFar(w, i) \ {i} :
                    is_syn(packet(j)) /\ h.at - handled[w][j].at <= Window

\* "which is now correct rather than approximate": the engines of the workers
\* together do what a single CepEngine would do that saw every event.
Whole == INSTANCE CepEngine WITH
  Rules <- CepRules, Steps <- CepSteps, Window <- CepWindow, PortBound <- 0,
  MaxPartials <- MaxTicks * (FloodBurst + Len(ScannedPorts) + 1),
  active <- [r \in CepRules |->
    [key \in UNION {DOMAIN cep[w][r] : w \in Workers} |->
       cep[CHOOSE w \in Workers : key \in DOMAIN cep[w][r]][r][key]]],
  now <- clock

ShardedAsWhole == Whole!CepSpec
=============================================================================
