--------------------------- MODULE AnomalyDetector ---------------------------
(***************************************************************************)
(* WindowedAnomalyDetector of engine/src/detection/anomaly.rs with its two  *)
(* sketches.  One worker owns it; observe is one action, but it reads the   *)
(* clock twice when the window rolls over, and time may pass in between.    *)
(*                                                                          *)
(* The hash functions are constants, so every collision the code can meet   *)
(* is some value of them.  A CountMinSketch estimate is the minimum over    *)
(* the rows, and is only ever compared with a bound.  A HyperLogLog is the  *)
(* set of its buckets that are not zero: with 1024 buckets the estimate is  *)
(* at least 25.0 exactly when at least 25 of them are (1024 ln(1024/1000) < *)
(* 25 < 1024 ln(1024/999), and from 103 non-zero buckets on the raw formula *)
(* gives at least 777), whatever their ranks are.                           *)
(***************************************************************************)
EXTENDS Integers, FiniteSets, NetworkEvent

CONSTANTS
  Sources,          \* source addresses
  Ports,            \* destination ports
  Shapes,           \* the events of one source, up to src_ip
  Rows,             \* rows of the Count-Min sketch
  Columns,          \* its columns
  Hash,             \* Hash[r][s]: the column of source s in row r
  CounterMax,       \* u32::MAX, where a counter saturates
  Bucket,           \* Bucket[p]: the HyperLogLog bucket of port p
  FloodThreshold,   \* syn_flood_threshold
  ScanThreshold,    \* non-zero buckets at which the estimate reaches
                    \* port_scan_threshold
  Window,           \* length of the window
  MaxTime           \* bound on the clock

ASSUME SketchAssumption ==
  /\ Rows # {}
  /\ Hash \in [Rows -> [Sources -> Columns]]
  /\ CounterMax \in Nat \ {0}

ASSUME ThresholdAssumption ==
  /\ FloodThreshold \in 1..CounterMax
  /\ ScanThreshold \in Nat \ {0}

ASSUME ShapeAssumption ==
  \A x \in Shapes : x.dst_port \in Ports /\ x.flags \subseteq {"SYN", "ACK"}

ASSUME ClockAssumption == Window \in Nat \ {0} /\ MaxTime \in Nat

VARIABLES
  syn_counts,                  \* the Count-Min table
  port_cardinality,            \* source -> its non-zero buckets
  alerted_flood_this_window,
  alerted_scan_this_window,
  window_start,
  clock                        \* what Instant::now() returns

sketchVars == <<syn_counts, port_cardinality>>
alertedVars == <<alerted_flood_this_window, alerted_scan_this_window>>
anomalyVars == <<sketchVars, alertedVars, window_start, clock>>

EmptyTable == [r \in Rows |-> [c \in Columns |-> 0]]

AnomalyInit ==
  /\ syn_counts = EmptyTable
  /\ port_cardinality = [s \in Sources |-> {}]
  /\ alerted_flood_this_window = {}
  /\ alerted_scan_this_window = {}
  /\ window_start = 0
  /\ clock = 0

-----------------------------------------------------------------------------
(* CountMinSketch *)

\* Mutant: the counter wraps around at u32::MAX.
wrapping_add(n) == (n + 1) % (CounterMax + 1)

\* Mutant: the counter grows past u32::MAX.
unbounded_add(n) == n + 1

\* saturating_add(1)
saturating_add(n) == IF n < CounterMax THEN n + 1 ELSE CounterMax

increment(table, s) ==
  [r \in Rows |-> [c \in Columns |->
     IF c = Hash[r][s] THEN saturating_add(table[r][c]) ELSE table[r][c]]]

\* Mutant: the estimate is the maximum over the rows.
EstimateMaxAtLeast(table, s, n) == \E r \in Rows : table[r][Hash[r][s]] >= n

\* estimate(s) >= n: the minimum over the rows reaches n.
EstimateAtLeast(table, s, n) == \A r \in Rows : table[r][Hash[r][s]] >= n

-----------------------------------------------------------------------------
(* WindowedAnomalyDetector *)

\* Mutant: the window rolls one tick late.
WindowOverLate == clock - window_start > Window

\* self.window_start.elapsed() >= self.window
WindowOver == clock - window_start >= Window

\* The state maybe_roll_window leaves, which the rest of observe works on.  The
\* HashMap has no entry for a source not seen in the window: {} here, since an
\* entry gets its first bucket in the call that makes it.
Table == IF WindowOver THEN EmptyTable ELSE syn_counts

\* Mutant: the window rolls and the HyperLogLogs are not cleared.
BucketsKept(s) == port_cardinality[s]

Buckets(s) == IF WindowOver THEN {} ELSE port_cardinality[s]

\* Mutant: the window rolls and the set of flood alerts is not cleared.
FloodedKept == alerted_flood_this_window

Flooded == IF WindowOver THEN {} ELSE alerted_flood_this_window
Scanned == IF WindowOver THEN {} ELSE alerted_scan_this_window

\* The second Instant::now(), which becomes window_start, may be later than the
\* one behind elapsed().
SecondRead == IF WindowOver THEN clock..(clock + 1) ELSE {clock}

Counted(event) ==
  IF is_syn(event) THEN increment(Table, event.src_ip) ELSE Table

Filled(event) == Buckets(event.src_ip) \cup {Bucket[event.dst_port]}

\* Mutant: the alert is not remembered for the rest of the window.
FloodFiresAgain(event) ==
  /\ is_syn(event)
  /\ EstimateAtLeast(Counted(event), event.src_ip, FloodThreshold)

\* The event raises "syn-flood-anomaly".
FloodFires(event) ==
  /\ is_syn(event)
  /\ EstimateAtLeast(Counted(event), event.src_ip, FloodThreshold)
  /\ event.src_ip \notin Flooded

\* Mutant: the estimate is taken before the event's own port is added.
ScanFiresBeforeAdd(event) ==
  /\ Cardinality(Buckets(event.src_ip)) >= ScanThreshold
  /\ event.src_ip \notin Scanned

\* The event raises "port-scan-anomaly".
ScanFires(event) ==
  /\ Cardinality(Filled(event)) >= ScanThreshold
  /\ event.src_ip \notin Scanned

\* What observe leaves in the three collections that are keyed by source.
PortsAfter(event) ==
  [s \in Sources |-> IF s = event.src_ip THEN Filled(event) ELSE Buckets(s)]
FloodedAfter(event) ==
  IF FloodFires(event) THEN Flooded \cup {event.src_ip} ELSE Flooded
ScannedAfter(event) ==
  IF ScanFires(event) THEN Scanned \cup {event.src_ip} ELSE Scanned

\* WindowedAnomalyDetector::observe, which begins with maybe_roll_window.
observe(event) ==
  /\ \E t \in SecondRead :
       /\ t <= MaxTime
       /\ clock' = t
       /\ window_start' = IF WindowOver THEN t ELSE window_start
  /\ syn_counts' = Counted(event)
  /\ port_cardinality' = PortsAfter(event)
  /\ alerted_flood_this_window' = FloodedAfter(event)
  /\ alerted_scan_this_window' = ScannedAfter(event)

AnomalyTick ==
  /\ clock < MaxTime
  /\ clock' = clock + 1
  /\ UNCHANGED <<sketchVars, alertedVars, window_start>>

Events == {[src_ip |-> s, dst_port |-> x.dst_port, flags |-> x.flags,
            payload_sample |-> x.payload_sample] : s \in Sources, x \in Shapes}

AnomalyNext == AnomalyTick \/ \E event \in Events : observe(event)

AnomalySpec == AnomalyInit /\ [][AnomalyNext]_anomalyVars

-----------------------------------------------------------------------------

\* Types; counters never leave u32, and a window never begins in the future
\* although its start is a second reading of the clock.
AnomalyTypeOK ==
  /\ syn_counts \in [Rows -> [Columns -> 0..CounterMax]]
  /\ port_cardinality \in [Sources -> SUBSET {Bucket[p] : p \in Ports}]
  /\ alerted_flood_this_window \in SUBSET Sources
  /\ alerted_scan_this_window \in SUBSET Sources
  /\ clock \in Nat
  /\ window_start \in 0..clock
=============================================================================
