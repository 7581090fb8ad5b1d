---------------------------- MODULE AnomalyProofs ----------------------------
(***************************************************************************)
(* Proofs about WindowedAnomalyDetector for every set of sources and ports, *)
(* every sketch size, every hash function with all its collisions, every    *)
(* counter width, threshold and window length.                              *)
(***************************************************************************)
EXTENDS AnomalyHistory, FiniteSetTheorems, TLAPS

-----------------------------------------------------------------------------
(* The sketch *)

\* A true count as a counter of the sketch can represent it.
Saturated(n) == IF n < CounterMax THEN n ELSE CounterMax

\* The exact SYN counts that maybe_roll_window leaves.
SynsKept == [s \in Sources |-> IF WindowOver THEN 0 ELSE syns[s]]

\* An event has a source and a port of the model.
LEMMA EventFields ==
  ASSUME NEW event \in Events
  PROVE  event.src_ip \in Sources /\ event.dst_port \in Ports
BY ShapeAssumption DEF Events

\* saturating_add stays within a counter, never falls, and keeps up with the
\* true count it stands for.
LEMMA SaturatingAdd ==
  ASSUME NEW x \in 0..CounterMax
  PROVE  /\ saturating_add(x) \in 0..CounterMax
         /\ saturating_add(x) >= x
         /\ \A n \in Nat : x >= Saturated(n) => saturating_add(x) >= Saturated(n + 1)
BY SketchAssumption DEF saturating_add, Saturated

\* The table that observe counts in is well typed.
LEMMA CountedType ==
  ASSUME AnomalyTypeOK, NEW event \in Events
  PROVE  /\ Table \in [Rows -> [Columns -> 0..CounterMax]]
         /\ Counted(event) \in [Rows -> [Columns -> 0..CounterMax]]
<1>1. Table \in [Rows -> [Columns -> 0..CounterMax]]
  BY SketchAssumption DEF Table, EmptyTable, AnomalyTypeOK
<1>2. increment(Table, event.src_ip) \in [Rows -> [Columns -> 0..CounterMax]]
  BY <1>1, SaturatingAdd DEF increment
<1> QED BY <1>1, <1>2 DEF Counted

\* CountMinSketch::increment: every row of every source keeps up with that
\* source's true count, and rows shared with the event's source only grow.
LEMMA CountedKeepsUp ==
  ASSUME AnomalyTypeOK, syns \in [Sources -> Nat], NeverUndercounts,
         NEW event \in Events, NEW s \in Sources, NEW r \in Rows
  PROVE  Counted(event)[r][Hash[r][s]] >=
           Saturated(SynsKept[s] + (IF s = event.src_ip /\ is_syn(event) THEN 1 ELSE 0))
<1> DEFINE col == Hash[r][s]
           x == Table[r][col]
<1>1. /\ col \in Columns /\ x \in 0..CounterMax /\ SynsKept[s] \in Nat
      /\ event.src_ip \in Sources
  BY CountedType, SketchAssumption, EventFields DEF SynsKept
<1>2. x >= Saturated(SynsKept[s])
  <2>1. CASE WindowOver
    BY <1>1, <2>1, SketchAssumption DEF Table, EmptyTable, SynsKept, Saturated
  <2>2. CASE ~WindowOver
    BY <2>2 DEF Table, SynsKept, Saturated, NeverUndercounts, EstimateAtLeast
  <2> QED BY <2>1, <2>2
<1>3. CASE ~is_syn(event)
  BY <1>1, <1>2, <1>3 DEF Counted
<1>4. CASE is_syn(event)
  <2>1. Counted(event)[r][col] =
          IF col = Hash[r][event.src_ip] THEN saturating_add(x) ELSE x
    BY <1>1, <1>4 DEF Counted, increment
  <2>2. CASE s = event.src_ip
    BY <1>1, <1>2, <1>4, <2>1, <2>2, SaturatingAdd
  <2>3. CASE s # event.src_ip
    <3>1. Saturated(SynsKept[s]) \in Nat
      BY <1>1, SketchAssumption DEF Saturated
    <3>2. saturating_add(x) \in Nat /\ saturating_add(x) >= x
      BY <1>1, SaturatingAdd
    <3> QED BY <1>1, <1>2, <1>4, <2>1, <2>3, <3>1, <3>2
  <2> QED BY <2>2, <2>3
<1> QED BY <1>3, <1>4

-----------------------------------------------------------------------------
(* The invariant *)

\* WindowedAnomalyDetector::new establishes the invariant.
LEMMA InitHistory ==
  ASSUME HistoryInit
  PROVE  HistoryInv
<1> USE SketchAssumption, ThresholdAssumption DEF HistoryInit, AnomalyInit
<1>1. AnomalyTypeOK
  BY DEF AnomalyTypeOK, EmptyTable
<1>2. log = <<>> /\ log \in Seq(LogEntries) /\ DOMAIN log = {}
  OBVIOUS
<1>3. HistoryTypeOK
  BY <1>1, <1>2 DEF HistoryTypeOK
<1>4. NeverUndercounts
  BY DEF NeverUndercounts, EstimateAtLeast, EmptyTable
<1>5. FloodRaised
  BY DEF FloodRaised
<1>6. AlertedSetsExact /\ OneAlertPerWindow
  BY <1>2 DEF AlertedSetsExact, FloodAlerted, ScanAlerted, OneAlertPerWindow
<1> QED BY <1>3, <1>4, <1>5, <1>6 DEF HistoryInv

\* No entry of the log is of a later window than the current one.
LEMMA LogEpochs ==
  ASSUME HistoryTypeOK
  PROVE  /\ epoch \in Nat
         /\ \A i \in DOMAIN log : log[i].epoch \in Nat /\ log[i].epoch <= epoch
<1>1. \A x \in LogEntries : x.epoch \in Nat
  BY DEF LogEntries
<1>2. \A i \in DOMAIN log : log[i] \in LogEntries
  <2>1. log \in Seq(LogEntries)
    BY DEF HistoryTypeOK
  <2> QED BY <2>1
<1> QED BY <1>1, <1>2 DEF HistoryTypeOK

\* What observing an event appends to the log.
LEMMA LogGrows ==
  ASSUME HistoryTypeOK, HistoryTypeOK', NEW event \in Events, Observed(event)
  PROVE  /\ DOMAIN log = 1..Len(log) /\ Len(log) \in Nat
         /\ DOMAIN log' = 1..(Len(log) + 1)
         /\ \A i \in DOMAIN log : log'[i] = log[i]
         /\ log'[Len(log) + 1] = Logged(event)
BY DEF HistoryTypeOK, Observed

\* observe keeps the types.
LEMMA ObservedTypes ==
  ASSUME HistoryInv, NEW event \in Events, Observed(event)
  PROVE  HistoryTypeOK'
<1>0. /\ HistoryTypeOK /\ AnomalyTypeOK
      /\ event.src_ip \in Sources /\ event.dst_port \in Ports
  BY EventFields DEF HistoryInv, HistoryTypeOK
<1>1. clock' \in Nat /\ window_start' \in 0..clock'
  BY <1>0 DEF Observed, observe, SecondRead, AnomalyTypeOK
<1>2. syn_counts' \in [Rows -> [Columns -> 0..CounterMax]]
  BY <1>0, CountedType DEF Observed, observe
<1>3. port_cardinality' \in [Sources -> SUBSET {Bucket[p] : p \in Ports}]
  BY <1>0 DEF Observed, observe, PortsAfter, Filled, Buckets, AnomalyTypeOK
<1>4. /\ alerted_flood_this_window' \in SUBSET Sources
      /\ alerted_scan_this_window' \in SUBSET Sources
  BY <1>0 DEF Observed, observe, FloodedAfter, ScannedAfter, Flooded, Scanned, AnomalyTypeOK
<1>5. syns' \in [Sources -> Nat]
  BY <1>0 DEF Observed, HistoryTypeOK
<1>6. epoch' \in Nat /\ epoch' >= epoch
  BY <1>0 DEF Observed, HistoryTypeOK
<1>7. Logged(event) \in LogEntries
  <2>1. is_syn(event) \in BOOLEAN /\ FloodFires(event) \in BOOLEAN /\ ScanFires(event) \in BOOLEAN
    BY DEF is_syn, FloodFires, ScanFires
  <2>2. \A s \in Sources, p \in Ports, t \in Nat, e \in Nat :
          \A b, f, c \in BOOLEAN :
            [src_ip |-> s, port |-> p, syn |-> b, at |-> t, epoch |-> e,
             flood |-> f, scan |-> c] \in LogEntries
    BY DEF LogEntries
  <2>3. clock' \in Nat /\ epoch' \in Nat
    BY <1>1, <1>6
  <2> QED BY <1>0, <2>1, <2>2, <2>3, Zenon DEF Logged
<1>8. log' \in Seq(LogEntries) /\ \A i \in DOMAIN log' : log'[i].epoch <= epoch'
  <2>1. log' = Append(log, Logged(event)) /\ log \in Seq(LogEntries)
    BY <1>0 DEF Observed, HistoryTypeOK
  <2>2. Logged(event).epoch = epoch'
    BY DEF Logged
  <2>3. /\ log' \in Seq(LogEntries) /\ DOMAIN log' = 1..(Len(log) + 1)
        /\ DOMAIN log = 1..Len(log) /\ Len(log) \in Nat
        /\ \A i \in DOMAIN log : log'[i] = log[i]
        /\ log'[Len(log) + 1] = Logged(event)
    BY <1>7, <2>1
  <2>4. \A i \in DOMAIN log : log[i].epoch \in Nat /\ log[i].epoch <= epoch
    BY <1>0, LogEpochs
  <2>5. epoch \in Nat
    BY <1>0 DEF HistoryTypeOK
  <2>6. ASSUME NEW i \in DOMAIN log' PROVE log'[i].epoch <= epoch'
    <3>1. CASE i = Len(log) + 1
      BY <1>6, <2>2, <2>3, <3>1
    <3>2. CASE i # Len(log) + 1
      <4>1. i \in DOMAIN log
        BY <2>3, <3>2
      <4> QED BY <1>6, <2>3, <2>4, <2>5, <4>1
    <3> QED BY <3>1, <3>2
  <2> QED BY <2>3, <2>6
<1> QED BY <1>1, <1>2, <1>3, <1>4, <1>5, <1>6, <1>8 DEF HistoryTypeOK, AnomalyTypeOK

\* The sketch keeps up with every source when an event is counted.
LEMMA ObservedNeverUndercounts ==
  ASSUME HistoryInv, NEW event \in Events, Observed(event)
  PROVE  NeverUndercounts'
<1>1. ASSUME NEW s \in Sources, NEW r \in Rows
      PROVE  syn_counts'[r][Hash[r][s]] >= Saturated(syns'[s])
  <2>1. syns'[s] = SynsKept[s] + (IF s = event.src_ip /\ is_syn(event) THEN 1 ELSE 0)
    BY DEF Observed, SynsKept
  <2>2. syn_counts' = Counted(event)
    BY DEF Observed, observe
  <2>3. AnomalyTypeOK /\ syns \in [Sources -> Nat] /\ NeverUndercounts
    BY DEF HistoryInv, HistoryTypeOK
  <2>4. Counted(event)[r][Hash[r][s]] >=
          Saturated(SynsKept[s] + (IF s = event.src_ip /\ is_syn(event) THEN 1 ELSE 0))
    BY <2>3, CountedKeepsUp
  <2> QED BY <2>1, <2>2, <2>4
<1> QED BY <1>1 DEF NeverUndercounts, EstimateAtLeast, Saturated

\* The sets of alerted sources go on saying what the log says.
LEMMA ObservedAlertedSets ==
  ASSUME HistoryInv, NEW event \in Events, Observed(event)
  PROVE  AlertedSetsExact'
<1>0. HistoryTypeOK /\ HistoryTypeOK' /\ AlertedSetsExact /\ event.src_ip \in Sources
  BY ObservedTypes, EventFields DEF HistoryInv
<1>1. /\ DOMAIN log = 1..Len(log) /\ Len(log) \in Nat
      /\ DOMAIN log' = 1..(Len(log) + 1)
      /\ \A i \in DOMAIN log : log'[i] = log[i]
      /\ log'[Len(log) + 1] = Logged(event)
  BY <1>0, LogGrows
<1>2. /\ Logged(event).flood = FloodFires(event) /\ Logged(event).scan = ScanFires(event)
      /\ Logged(event).src_ip = event.src_ip /\ Logged(event).epoch = epoch'
  BY DEF Logged
<1>3. /\ epoch' = IF WindowOver THEN epoch + 1 ELSE epoch
      /\ epoch \in Nat
      /\ \A i \in DOMAIN log : log[i].epoch \in Nat /\ log[i].epoch <= epoch
  BY <1>0, LogEpochs DEF Observed
<1>4. \A s \in Sources :
        /\ s \in Flooded <=> \E i \in DOMAIN log :
             log[i].flood /\ log[i].src_ip = s /\ log[i].epoch = epoch'
        /\ s \in Scanned <=> \E i \in DOMAIN log :
             log[i].scan /\ log[i].src_ip = s /\ log[i].epoch = epoch'
  <2>1. CASE WindowOver
    BY <1>3, <2>1 DEF Flooded, Scanned
  <2>2. CASE ~WindowOver
    BY <1>0, <1>3, <2>2 DEF Flooded, Scanned, AlertedSetsExact, FloodAlerted, ScanAlerted
  <2> QED BY <2>1, <2>2
<1>5. \A i \in DOMAIN log' : i \in DOMAIN log \/ i = Len(log) + 1
  BY <1>1
<1>6. /\ \A i \in DOMAIN log : i \in DOMAIN log'
      /\ Len(log) + 1 \in DOMAIN log'
  BY <1>1
<1>7. \A s \in Sources : s \in alerted_flood_this_window' <=> FloodAlerted(s)'
  <2>1. alerted_flood_this_window' =
          IF FloodFires(event) THEN Flooded \cup {event.src_ip} ELSE Flooded
    BY DEF Observed, observe, FloodedAfter
  <2> QED BY <1>0, <1>1, <1>2, <1>4, <1>5, <1>6, <2>1 DEF FloodAlerted
<1>8. \A s \in Sources : s \in alerted_scan_this_window' <=> ScanAlerted(s)'
  <2>1. alerted_scan_this_window' =
          IF ScanFires(event) THEN Scanned \cup {event.src_ip} ELSE Scanned
    BY DEF Observed, observe, ScannedAfter
  <2> QED BY <1>0, <1>1, <1>2, <1>4, <1>5, <1>6, <2>1 DEF ScanAlerted
<1> QED BY <1>7, <1>8 DEF AlertedSetsExact

\* A source whose count reaches the threshold raises its alert with this event,
\* or has done so in the window already.
LEMMA ObservedFloodRaised ==
  ASSUME HistoryInv, NEW event \in Events, Observed(event)
  PROVE  FloodRaised'
<1>0. /\ HistoryTypeOK' /\ NeverUndercounts' /\ AlertedSetsExact' /\ AlertedSetsExact
      /\ FloodRaised /\ HistoryTypeOK /\ event.src_ip \in Sources
  BY ObservedTypes, ObservedNeverUndercounts, ObservedAlertedSets, EventFields DEF HistoryInv
<1> SUFFICES ASSUME NEW s \in Sources, syns'[s] >= FloodThreshold
             PROVE  s \in alerted_flood_this_window'
  BY <1>0 DEF FloodRaised, AlertedSetsExact
<1>1. alerted_flood_this_window' =
        IF FloodFires(event) THEN Flooded \cup {event.src_ip} ELSE Flooded
  BY DEF Observed, observe, FloodedAfter
<1>2. CASE s = event.src_ip /\ is_syn(event)
  <2>1. syns'[s] \in Nat
    BY <1>0 DEF HistoryTypeOK
  <2>2. Saturated(syns'[s]) >= FloodThreshold /\ Saturated(syns'[s]) \in Nat
    BY <2>1, SketchAssumption, ThresholdAssumption DEF Saturated
  <2>3. \A r \in Rows : /\ syn_counts'[r][Hash[r][s]] >= Saturated(syns'[s])
                        /\ syn_counts'[r][Hash[r][s]] \in Nat
    BY <1>0, SketchAssumption
    DEF NeverUndercounts, EstimateAtLeast, Saturated, HistoryTypeOK, AnomalyTypeOK
  <2>4. syn_counts' = Counted(event)
    BY DEF Observed, observe
  <2>5. EstimateAtLeast(Counted(event), s, FloodThreshold)
    BY <2>2, <2>3, <2>4, ThresholdAssumption, SketchAssumption DEF EstimateAtLeast
  <2>6. FloodFires(event) \/ s \in Flooded
    BY <1>2, <2>5 DEF FloodFires
  <2> QED BY <1>1, <1>2, <2>6
<1>3. CASE ~(s = event.src_ip /\ is_syn(event))
  <2>1. syns'[s] = (IF WindowOver THEN 0 ELSE syns[s]) + 0
    BY <1>3 DEF Observed
  <2>2. ~WindowOver /\ syns'[s] = syns[s]
    BY <1>0, <2>1, SketchAssumption, ThresholdAssumption DEF HistoryTypeOK
  <2>3. s \in alerted_flood_this_window
    BY <1>0, <2>2 DEF FloodRaised, AlertedSetsExact
  <2> QED BY <1>1, <2>2, <2>3 DEF Flooded
<1> QED BY <1>2, <1>3

\* The new entry raises nothing that the window has raised for its source.
LEMMA ObservedOneAlert ==
  ASSUME HistoryInv, NEW event \in Events, Observed(event)
  PROVE  OneAlertPerWindow'
<1>0. HistoryTypeOK /\ HistoryTypeOK' /\ AlertedSetsExact /\ OneAlertPerWindow
  BY ObservedTypes DEF HistoryInv
<1>1. /\ DOMAIN log = 1..Len(log) /\ Len(log) \in Nat
      /\ DOMAIN log' = 1..(Len(log) + 1)
      /\ \A i \in DOMAIN log : log'[i] = log[i]
      /\ log'[Len(log) + 1] = Logged(event)
  BY <1>0, LogGrows
<1>2. SUFFICES ASSUME NEW i \in DOMAIN log', NEW j \in DOMAIN log', i < j,
                      log'[i].epoch = log'[j].epoch, log'[i].src_ip = log'[j].src_ip
               PROVE  ~(log'[i].flood /\ log'[j].flood) /\ ~(log'[i].scan /\ log'[j].scan)
  BY DEF OneAlertPerWindow
<1>3. i \in DOMAIN log /\ log'[i] = log[i]
  BY <1>1, <1>2
<1>4. CASE j \in DOMAIN log
  BY <1>0, <1>1, <1>2, <1>3, <1>4 DEF OneAlertPerWindow
<1>5. CASE j = Len(log) + 1
  <2>1. /\ log'[j].epoch = epoch' /\ log'[j].src_ip = event.src_ip
        /\ log'[j].flood = FloodFires(event) /\ log'[j].scan = ScanFires(event)
    BY <1>1, <1>5 DEF Logged
  <2>2. /\ log[i].epoch \in Nat /\ log[i].epoch <= epoch /\ epoch \in Nat
        /\ epoch' = IF WindowOver THEN epoch + 1 ELSE epoch
    BY <1>0, <1>3, LogEpochs DEF Observed
  <2>3. ~WindowOver /\ log[i].epoch = epoch /\ log[i].src_ip = event.src_ip
    BY <1>2, <1>3, <2>1, <2>2
  <2>4. event.src_ip \in Sources
    BY EventFields
  <2>5. /\ log[i].flood => event.src_ip \in Flooded
        /\ log[i].scan => event.src_ip \in Scanned
    BY <1>0, <1>3, <2>3, <2>4 DEF AlertedSetsExact, FloodAlerted, ScanAlerted, Flooded, Scanned
  <2> QED BY <1>3, <2>1, <2>5 DEF FloodFires, ScanFires
<1> QED BY <1>1, <1>4, <1>5

\* The passing of time disturbs nothing the invariant speaks of.
LEMMA TickHistory ==
  ASSUME HistoryInv, AnomalyTick, UNCHANGED <<syns, epoch, log>>
  PROVE  HistoryInv'
<1>1. /\ UNCHANGED <<syn_counts, port_cardinality, alerted_flood_this_window,
                     alerted_scan_this_window, window_start, syns, epoch, log>>
      /\ clock' = clock + 1
  BY DEF AnomalyTick, sketchVars, alertedVars
<1>2. HistoryTypeOK'
  BY <1>1 DEF HistoryInv, HistoryTypeOK, AnomalyTypeOK
<1>3. NeverUndercounts'
  BY <1>1 DEF HistoryInv, NeverUndercounts, EstimateAtLeast
<1>4. FloodRaised' /\ AlertedSetsExact' /\ OneAlertPerWindow'
  BY <1>1 DEF HistoryInv, FloodRaised, AlertedSetsExact, OneAlertPerWindow,
              FloodAlerted, ScanAlerted
<1> QED BY <1>2, <1>3, <1>4 DEF HistoryInv

\* Observing an event adds its bucket to what its source has in the window, after
\* a roll-over has forgotten everything.
LEMMA ObservedSketches ==
  ASSUME HistoryInv, SketchesOfWindow, NEW event \in Events, Observed(event)
  PROVE  SketchesOfWindow'
<1>0. HistoryTypeOK /\ HistoryTypeOK' /\ event.src_ip \in Sources
  BY ObservedTypes, EventFields DEF HistoryInv
<1>1. /\ DOMAIN log = 1..Len(log) /\ Len(log) \in Nat
      /\ DOMAIN log' = 1..(Len(log) + 1)
      /\ \A i \in DOMAIN log : log'[i] = log[i]
      /\ log'[Len(log) + 1] = Logged(event)
  BY <1>0, LogGrows
<1>2. /\ epoch' = IF WindowOver THEN epoch + 1 ELSE epoch
      /\ epoch \in Nat
      /\ \A i \in DOMAIN log : log[i].epoch \in Nat /\ log[i].epoch <= epoch
  BY <1>0, LogEpochs DEF Observed
<1> DEFINE Seen(s) == {i \in DOMAIN log : log[i].src_ip = s /\ log[i].epoch = epoch}
           SeenNow(s) == {i \in DOMAIN log' : log'[i].src_ip = s /\ log'[i].epoch = epoch'}
<1>3. SUFFICES ASSUME NEW s \in Sources
               PROVE  port_cardinality'[s] = {Bucket[log'[i].port] : i \in SeenNow(s)}
  BY DEF SketchesOfWindow
<1>4. Buckets(s) = {Bucket[log[i].port] : i \in {i \in Seen(s) : ~WindowOver}}
  <2>1. port_cardinality[s] = {Bucket[log[i].port] : i \in Seen(s)}
    BY <1>3 DEF SketchesOfWindow
  <2> QED BY <2>1 DEF Buckets
<1>5. SeenNow(s) = {i \in Seen(s) : ~WindowOver}
                   \cup (IF s = event.src_ip THEN {Len(log) + 1} ELSE {})
  <2>1. \A i \in DOMAIN log : i \in SeenNow(s) <=> i \in Seen(s) /\ ~WindowOver
    <3>1. ASSUME NEW i \in DOMAIN log
          PROVE  log'[i].epoch = epoch' <=> log[i].epoch = epoch /\ ~WindowOver
      BY <1>1, <1>2
    <3> QED BY <1>1, <3>1
  <2>2. Len(log) + 1 \in SeenNow(s) <=> s = event.src_ip
    BY <1>1 DEF Logged
  <2>3. DOMAIN log' = DOMAIN log \cup {Len(log) + 1} /\ Len(log) + 1 \notin DOMAIN log
    BY <1>1
  <2> QED BY <2>1, <2>2, <2>3
<1>6. port_cardinality'[s] = IF s = event.src_ip THEN Buckets(s) \cup {Bucket[event.dst_port]}
                             ELSE Buckets(s)
  BY <1>3 DEF Observed, observe, PortsAfter, Filled
<1>7. /\ log'[Len(log) + 1].port = event.dst_port
      /\ \A i \in Seen(s) : log'[i].port = log[i].port
  BY <1>1 DEF Logged
<1> HIDE DEF Seen, SeenNow
<1>8. {Bucket[log'[i].port] : i \in SeenNow(s)}
        = {Bucket[log[i].port] : i \in {i \in Seen(s) : ~WindowOver}}
          \cup (IF s = event.src_ip THEN {Bucket[event.dst_port]} ELSE {})
  BY <1>5, <1>7
<1> QED BY <1>4, <1>6, <1>8

\* Every step preserves the invariant.
LEMMA NextHistory ==
  ASSUME HistoryInv, [HistoryNext]_historyVars
  PROVE  HistoryInv'
<1>1. CASE AnomalyTick /\ UNCHANGED <<syns, epoch, log>>
  BY <1>1, TickHistory
<1>2. CASE \E event \in Events : Observed(event)
  <2>1. PICK event \in Events : Observed(event)
    BY <1>2
  <2> QED BY <2>1, ObservedTypes, ObservedNeverUndercounts, ObservedFloodRaised,
             ObservedAlertedSets, ObservedOneAlert DEF HistoryInv
<1>3. CASE UNCHANGED historyVars
  BY <1>3 DEF historyVars, anomalyVars, sketchVars, alertedVars, HistoryInv,
              HistoryTypeOK, AnomalyTypeOK, NeverUndercounts, EstimateAtLeast, FloodRaised,
              AlertedSetsExact, OneAlertPerWindow, FloodAlerted, ScanAlerted
<1> QED BY <1>1, <1>2, <1>3 DEF HistoryNext

-----------------------------------------------------------------------------
(* Port scans *)

\* What ScanExact rests on: the buckets of a source are those of the window, and
\* are finitely many.
ScanInv ==
  /\ SketchesOfWindow
  /\ \A s \in Sources : IsFiniteSet(port_cardinality[s])
  /\ ScanExact

\* A source that has its alert in this window has the threshold's buckets with
\* the next event too.
LEMMA AlertedStaysFull ==
  ASSUME HistoryInv, ScanInv, NEW event \in Events, event.src_ip \in Scanned,
         IsFiniteSet(Filled(event))
  PROVE  Cardinality(Filled(event)) >= ScanThreshold
<1>1. ~WindowOver /\ event.src_ip \in alerted_scan_this_window /\ event.src_ip \in Sources
  BY EventFields DEF Scanned
<1>2. PICK i \in DOMAIN log :
        log[i].scan /\ log[i].src_ip = event.src_ip /\ log[i].epoch = epoch
  BY <1>1 DEF HistoryInv, AlertedSetsExact, ScanAlerted
<1>3. DOMAIN log = 1..Len(log) /\ Len(log) \in Nat
  BY DEF HistoryInv, HistoryTypeOK
<1> DEFINE Full == {Bucket[p] : p \in PortsInWindow(i)}
<1>4. Cardinality(Full) >= ScanThreshold
  <2>1. i \in 1..i
    BY <1>3
  <2> QED BY <1>2, <2>1 DEF ScanInv, ScanExact
<1>5. Full \subseteq Filled(event)
  <2>1. ASSUME NEW p \in PortsInWindow(i)
        PROVE  Bucket[p] \in port_cardinality[event.src_ip]
    <3>1. PICK j \in 1..i : log[j].src_ip = log[i].src_ip /\ log[j].epoch = log[i].epoch
                            /\ p = log[j].port
      BY <2>1 DEF PortsInWindow
    <3>2. j \in DOMAIN log
      BY <1>3, <3>1
    <3> QED BY <1>1, <1>2, <3>1, <3>2 DEF ScanInv, SketchesOfWindow
  <2> QED BY <1>1, <2>1 DEF Filled, Buckets
<1>6. Cardinality(Full) <= Cardinality(Filled(event))
  BY <1>5, FS_Subset
<1>7. Cardinality(Full) \in Nat /\ Cardinality(Filled(event)) \in Nat
  BY <1>5, FS_Subset, FS_CardinalityType
<1> QED BY <1>4, <1>6, <1>7, ThresholdAssumption

\* Observing an event alerts its source when the buckets reach the threshold,
\* unless the window has its alert, and changes nothing about earlier events.
LEMMA ObservedScans ==
  ASSUME HistoryInv, ScanInv, NEW event \in Events, Observed(event)
  PROVE  ScanInv'
<1>0. /\ HistoryTypeOK /\ HistoryTypeOK' /\ AlertedSetsExact' /\ SketchesOfWindow'
      /\ event.src_ip \in Sources
  BY ObservedTypes, ObservedAlertedSets, ObservedSketches, EventFields DEF HistoryInv, ScanInv
<1>1. /\ DOMAIN log = 1..Len(log) /\ Len(log) \in Nat
      /\ DOMAIN log' = 1..(Len(log) + 1)
      /\ \A i \in DOMAIN log : log'[i] = log[i]
      /\ log'[Len(log) + 1] = Logged(event)
  BY <1>0, LogGrows
<1>2. \A s \in Sources : IsFiniteSet(port_cardinality'[s])
  <2>1. \A s \in Sources : IsFiniteSet(Buckets(s))
    BY FS_EmptySet DEF ScanInv, Buckets
  <2>2. IsFiniteSet(Filled(event))
    BY <1>0, <2>1, FS_AddElement DEF Filled
  <2> QED BY <2>1, <2>2 DEF Observed, observe, PortsAfter
<1>3. ASSUME NEW n \in DOMAIN log
      PROVE  Cardinality({Bucket[p] : p \in PortsInWindow(n)'}) >= ScanThreshold
               <=> \E i \in 1..n : /\ log'[i].scan /\ log'[i].src_ip = log'[n].src_ip
                                   /\ log'[i].epoch = log'[n].epoch
  <2>1. \A i \in 1..n : log'[i] = log[i]
    BY <1>1
  <2>2. n \in 1..n
    BY <1>1
  <2>3. PortsInWindow(n)' = PortsInWindow(n)
    BY <2>1, <2>2 DEF PortsInWindow
  <2> QED BY <2>1, <2>2, <2>3 DEF ScanInv, ScanExact
<1> DEFINE s == event.src_ip
<1>n. PICK N \in Nat : N = Len(log) + 1
  BY <1>1
<1>4. log'[N].src_ip = s /\ log'[N].epoch = epoch' /\ DOMAIN log' = 1..N
  BY <1>1, <1>n DEF Logged
<1>5. {Bucket[p] : p \in PortsInWindow(N)'} = Filled(event)
  <2>1. {Bucket[p] : p \in PortsInWindow(N)'} = port_cardinality'[s]
    <3>1. PortsInWindow(N)' = {log'[i].port : i \in {i \in 1..N : log'[i].src_ip = s
                                                            /\ log'[i].epoch = epoch'}}
      BY <1>4 DEF PortsInWindow
    <3>2. port_cardinality'[s] =
            {Bucket[log'[i].port] : i \in {i \in 1..N : log'[i].src_ip = s
                                                     /\ log'[i].epoch = epoch'}}
      BY <1>0, <1>4 DEF SketchesOfWindow
    <3> QED BY <3>1, <3>2
  <2> QED BY <1>0, <2>1 DEF Observed, observe, PortsAfter
<1>6. Cardinality(Filled(event)) >= ScanThreshold <=> s \in alerted_scan_this_window'
  <2>1. s \in alerted_scan_this_window' <=> ScanFires(event) \/ s \in Scanned
    BY DEF Observed, observe, ScannedAfter
  <2>2. IsFiniteSet(Filled(event))
    BY <1>0, <1>2 DEF Observed, observe, PortsAfter
  <2> QED BY <2>1, <2>2, AlertedStaysFull DEF ScanFires
<1>7. s \in alerted_scan_this_window'
        <=> \E i \in 1..N : /\ log'[i].scan /\ log'[i].src_ip = log'[N].src_ip
                            /\ log'[i].epoch = log'[N].epoch
  BY <1>0, <1>4 DEF AlertedSetsExact, ScanAlerted
<1>8. \A n \in DOMAIN log' : n \in DOMAIN log \/ n = N
  BY <1>1, <1>n
<1>9. ScanExact'
  BY <1>3, <1>5, <1>6, <1>7, <1>8 DEF ScanExact
<1> QED BY <1>0, <1>2, <1>9 DEF ScanInv

-----------------------------------------------------------------------------
(* Floods *)

\* The SYNs of a source in the current window, by their place in the log.
WindowSyns(s) ==
  {i \in DOMAIN log : log[i].src_ip = s /\ log[i].syn /\ log[i].epoch = epoch}

\* The SYNs of s among its events less than a window before the n-th.
RecentSyns(s, n) == {i \in Recent(s, n) : log[i].syn}

\* No other source shares the column of s in row r.
AloneIn(r, s) == \A u \in Sources \ {s} : Hash[r][u] # Hash[r][s]

\* What FloodJustified rests on: the exact counts are those of the log, where a
\* source is alone the sketch never exceeds its count, and what was logged in
\* the current window lies between its beginning and now.
FloodInv ==
  /\ \A s \in Sources : syns[s] = Cardinality(WindowSyns(s))
  /\ \A s \in Sources, r \in Rows : AloneIn(r, s) => syn_counts[r][Hash[r][s]] <= syns[s]
  /\ \A i \in DOMAIN log : log[i].epoch = epoch => window_start <= log[i].at
  /\ FloodJustified

\* WindowSyns is finite.
LEMMA WindowSynsFinite ==
  ASSUME HistoryTypeOK, NEW s
  PROVE  IsFiniteSet(WindowSyns(s)) /\ Cardinality(WindowSyns(s)) \in Nat
<1>1. DOMAIN log = 1..Len(log) /\ Len(log) \in Nat
  BY DEF HistoryTypeOK
<1>2. IsFiniteSet(DOMAIN log)
  BY <1>1, FS_Interval
<1>3. WindowSyns(s) \subseteq DOMAIN log
  BY DEF WindowSyns
<1> QED BY <1>2, <1>3, FS_Subset, FS_CardinalityType

\* The exact counts go on being those of the log.
LEMMA ObservedSyns ==
  ASSUME HistoryInv, NEW event \in Events, Observed(event), NEW s \in Sources,
         syns[s] = Cardinality(WindowSyns(s))
  PROVE  syns'[s] = Cardinality(WindowSyns(s)')
<1>0. HistoryTypeOK /\ HistoryTypeOK' /\ event.src_ip \in Sources
  BY ObservedTypes, EventFields DEF HistoryInv
<1>1. /\ DOMAIN log = 1..Len(log) /\ Len(log) \in Nat
      /\ DOMAIN log' = 1..(Len(log) + 1)
      /\ \A i \in DOMAIN log : log'[i] = log[i]
      /\ log'[Len(log) + 1] = Logged(event)
  BY <1>0, LogGrows
<1>2. /\ epoch' = IF WindowOver THEN epoch + 1 ELSE epoch
      /\ epoch \in Nat
      /\ \A i \in DOMAIN log : log[i].epoch \in Nat /\ log[i].epoch <= epoch
  BY <1>0, LogEpochs DEF Observed
<1> DEFINE Kept == IF WindowOver THEN {} ELSE WindowSyns(s)
           N == Len(log) + 1
<1>3. WindowSyns(s)' = Kept \cup (IF s = event.src_ip /\ is_syn(event) THEN {N} ELSE {})
  <2>1. ASSUME NEW i \in DOMAIN log
        PROVE  i \in WindowSyns(s)' <=> i \in Kept
    <3>1. log'[i].epoch = epoch' <=> log[i].epoch = epoch /\ ~WindowOver
      BY <1>1, <1>2
    <3>2. i \in DOMAIN log'
      BY <1>1
    <3> QED BY <1>1, <3>1, <3>2 DEF WindowSyns
  <2>2. N \in WindowSyns(s)' <=> s = event.src_ip /\ is_syn(event)
    BY <1>1 DEF WindowSyns, Logged
  <2>3. DOMAIN log' = DOMAIN log \cup {N}
    BY <1>1
  <2>4. WindowSyns(s)' \subseteq DOMAIN log' /\ Kept \subseteq DOMAIN log
    BY DEF WindowSyns
  <2> HIDE DEF Kept, N
  <2> QED BY <2>1, <2>2, <2>3, <2>4
<1>4. IsFiniteSet(Kept) /\ Cardinality(Kept) = (IF WindowOver THEN 0 ELSE syns[s])
  BY <1>0, WindowSynsFinite, FS_EmptySet
<1>5. N \notin Kept
  BY <1>1 DEF WindowSyns
<1>6. syns'[s] = (IF WindowOver THEN 0 ELSE syns[s])
                 + (IF s = event.src_ip /\ is_syn(event) THEN 1 ELSE 0)
  BY DEF Observed
<1>7. Cardinality(Kept) \in Nat
  BY <1>4, FS_CardinalityType
<1> HIDE DEF Kept, N
<1>8. CASE s = event.src_ip /\ is_syn(event)
  <2>1. WindowSyns(s)' = Kept \cup {N}
    BY <1>3, <1>8
  <2>2. Cardinality(Kept \cup {N}) = Cardinality(Kept) + 1
    BY <1>4, <1>5, FS_AddElement
  <2> QED BY <1>4, <1>6, <1>7, <1>8, <2>1, <2>2
<1>9. CASE ~(s = event.src_ip /\ is_syn(event))
  <2>1. WindowSyns(s)' = Kept
    BY <1>3, <1>9
  <2> QED BY <1>4, <1>6, <1>7, <1>9, <2>1
<1> QED BY <1>8, <1>9

\* Other sources do not reach the columns a source is alone in.
LEMMA ObservedAlone ==
  ASSUME HistoryInv, NEW event \in Events, Observed(event),
         NEW s \in Sources, NEW r \in Rows, AloneIn(r, s),
         syn_counts[r][Hash[r][s]] <= syns[s]
  PROVE  syn_counts'[r][Hash[r][s]] <= syns'[s]
<1> DEFINE col == Hash[r][s]
<1>0. HistoryTypeOK /\ AnomalyTypeOK /\ event.src_ip \in Sources /\ CounterMax \in Nat
  BY EventFields, SketchAssumption DEF HistoryInv, HistoryTypeOK
<1>1. PICK x \in 0..CounterMax : x = Table[r][col]
  BY <1>0, CountedType, SketchAssumption
<1>2. PICK k \in Nat : k = IF WindowOver THEN 0 ELSE syns[s]
  BY <1>0 DEF HistoryTypeOK
<1>3. x <= k
  BY <1>1, <1>2, SketchAssumption DEF Table, EmptyTable
<1>4. /\ syn_counts' = Counted(event)
      /\ syns'[s] = k + (IF s = event.src_ip /\ is_syn(event) THEN 1 ELSE 0)
  BY <1>2 DEF Observed, observe
<1>5. CASE ~is_syn(event)
  BY <1>1, <1>2, <1>3, <1>4, <1>5 DEF Counted
<1>6. CASE is_syn(event)
  <2>1. Counted(event)[r][col] =
          IF col = Hash[r][event.src_ip] THEN saturating_add(x) ELSE x
    BY <1>1, <1>6, SketchAssumption DEF Counted, increment
  <2>2. CASE s = event.src_ip
    <3>1. saturating_add(x) <= x + 1
      BY <1>0 DEF saturating_add
    <3>2. saturating_add(x) \in 0..CounterMax
      BY SaturatingAdd
    <3> QED BY <1>0, <1>2, <1>3, <1>4, <1>6, <2>1, <2>2, <3>1, <3>2
  <2>3. CASE s # event.src_ip
    <3>1. col # Hash[r][event.src_ip]
      BY <1>0, <2>3 DEF AloneIn
    <3> QED BY <1>2, <1>3, <1>4, <1>6, <2>1, <2>3, <3>1
  <2> QED BY <2>2, <2>3
<1> QED BY <1>5, <1>6

\* A window that is not over is shorter than Window, whichever of its two
\* readings of the clock observe began it with.
LEMMA ObservedTimes ==
  ASSUME HistoryInv, NEW event \in Events, Observed(event),
         \A i \in DOMAIN log : log[i].epoch = epoch => window_start <= log[i].at
  PROVE  /\ clock' - window_start' < Window
         /\ \A i \in DOMAIN log' : log'[i].epoch = epoch' => window_start' <= log'[i].at
<1>0. HistoryTypeOK /\ HistoryTypeOK' /\ AnomalyTypeOK /\ AnomalyTypeOK'
  BY ObservedTypes DEF HistoryInv, HistoryTypeOK
<1>1. /\ DOMAIN log = 1..Len(log) /\ Len(log) \in Nat
      /\ DOMAIN log' = 1..(Len(log) + 1)
      /\ \A i \in DOMAIN log : log'[i] = log[i]
      /\ log'[Len(log) + 1] = Logged(event)
  BY <1>0, LogGrows
<1>2. /\ epoch' = IF WindowOver THEN epoch + 1 ELSE epoch
      /\ epoch \in Nat
      /\ \A i \in DOMAIN log : log[i].epoch \in Nat /\ log[i].epoch <= epoch
  BY <1>0, LogEpochs DEF Observed
<1>3. /\ WindowOver => window_start' = clock'
      /\ ~WindowOver => window_start' = window_start /\ clock' = clock
  BY <1>0 DEF Observed, observe, SecondRead, AnomalyTypeOK
<1>4. clock' \in Nat /\ window_start' \in 0..clock' /\ clock \in Nat /\ window_start \in 0..clock
  BY <1>0 DEF AnomalyTypeOK
<1>5. clock' - window_start' < Window
  <2>1. PICK v \in Nat \ {0} : v = Window
    BY ClockAssumption
  <2>2. CASE WindowOver
    <3>1. PICK a \in Nat : a = clock' /\ a = window_start'
      BY <1>3, <1>4, <2>2
    <3>2. a - a < v
      BY <2>1
    <3> QED BY <2>1, <3>1, <3>2
  <2>3. CASE ~WindowOver
    <3>1. clock - window_start < v
      BY <1>4, <2>1, <2>3 DEF WindowOver
    <3> QED BY <1>3, <2>1, <2>3, <3>1
  <2> QED BY <2>2, <2>3
<1>6. ASSUME NEW i \in DOMAIN log', log'[i].epoch = epoch'
      PROVE  window_start' <= log'[i].at
  <2>1. CASE i = Len(log) + 1
    BY <1>1, <1>4, <2>1 DEF Logged
  <2>2. CASE i # Len(log) + 1
    <3>1. i \in DOMAIN log /\ log'[i] = log[i]
      BY <1>1, <2>2
    <3>2. log[i].epoch = epoch /\ ~WindowOver
      BY <1>2, <1>6, <3>1
    <3> QED BY <1>3, <3>1, <3>2
  <2> QED BY <2>1, <2>2
<1> QED BY <1>5, <1>6

\* What an event reports rests on the SYNs of its window, which are all recent.
LEMMA ObservedFloods ==
  ASSUME HistoryInv, FloodInv, NEW event \in Events, Observed(event)
  PROVE  FloodInv'
<1>0. HistoryTypeOK /\ HistoryTypeOK' /\ event.src_ip \in Sources
  BY ObservedTypes, EventFields DEF HistoryInv
<1>n. PICK N \in Nat : N = Len(log) + 1
  BY <1>0 DEF HistoryTypeOK
<1>1. /\ DOMAIN log = 1..Len(log) /\ Len(log) \in Nat
      /\ DOMAIN log' = 1..N
      /\ \A i \in DOMAIN log : log'[i] = log[i]
      /\ log'[N] = Logged(event)
  BY <1>0, <1>n, LogGrows
<1>2. \A s \in Sources : syns'[s] = Cardinality(WindowSyns(s)')
  BY ObservedSyns DEF FloodInv
<1>3. \A s \in Sources, r \in Rows :
        AloneIn(r, s) => syn_counts'[r][Hash[r][s]] <= syns'[s]
  BY ObservedAlone DEF FloodInv
<1>4. /\ clock' - window_start' < Window
      /\ \A i \in DOMAIN log' : log'[i].epoch = epoch' => window_start' <= log'[i].at
  BY ObservedTimes DEF FloodInv
<1>5. ASSUME NEW n \in DOMAIN log
      PROVE  \A s : RecentSyns(s, n)' = RecentSyns(s, n)
  <2>1. \A i \in 1..n : i \in DOMAIN log
    BY <1>1, <1>n
  <2> QED BY <1>1, <2>1 DEF RecentSyns, Recent
<1>6. ASSUME NEW s \in Sources, s = event.src_ip, FloodFires(event), Alone(s)
      PROVE  Cardinality(RecentSyns(s, N)') >= FloodThreshold
  <2>0. PICK R : R = RecentSyns(s, N)'
    OBVIOUS
  <2>1. PICK r \in Rows : AloneIn(r, s)
    BY <1>6 DEF Alone, AloneIn
  <2>2. PICK x \in Nat : x = syn_counts'[r][Hash[r][s]]
    <3>1. syn_counts' \in [Rows -> [Columns -> 0..CounterMax]] /\ Hash[r][s] \in Columns
      BY <1>0, SketchAssumption DEF HistoryTypeOK, AnomalyTypeOK
    <3> QED BY <3>1, SketchAssumption
  <2>3. x >= FloodThreshold
    BY <1>6, <2>2 DEF FloodFires, EstimateAtLeast, Observed, observe
  <2>4. x <= syns'[s]
    BY <1>3, <2>1, <2>2
  <2>5. WindowSyns(s)' \subseteq R
    <3>1. ASSUME NEW i \in DOMAIN log', log'[i].src_ip = s, log'[i].syn,
                 log'[i].epoch = epoch'
          PROVE  i \in R
      <4>1. log'[N].at = clock' /\ clock' \in Nat /\ window_start' \in Nat
        BY <1>0, <1>1 DEF Logged, HistoryTypeOK, AnomalyTypeOK
      <4>2. window_start' <= log'[i].at
        BY <1>4, <3>1
      <4>3. log'[i] \in LogEntries
        BY <1>0, <3>1 DEF HistoryTypeOK
      <4>4. log'[i].at \in Nat
        BY <4>3 DEF LogEntries
      <4>5. log'[N].at - log'[i].at < Window
        <5>1. PICK a \in Nat, b \in Nat, c \in Nat, v \in Nat :
                a = clock' /\ b = window_start' /\ c = log'[i].at /\ v = Window
          BY <4>1, <4>4, ClockAssumption
        <5>2. a - b < v /\ b <= c
          BY <1>4, <4>2, <5>1
        <5>3. a - c < v
          BY <5>2
        <5> QED BY <4>1, <5>1, <5>3
      <4>6. i \in 1..N
        BY <1>1
      <4> QED BY <2>0, <3>1, <4>5, <4>6 DEF RecentSyns, Recent
    <3> QED BY <3>1 DEF WindowSyns
  <2>6. IsFiniteSet(R)
    <3>1. R \subseteq 1..N
      BY <2>0 DEF RecentSyns, Recent
    <3>2. IsFiniteSet(1..N)
      BY FS_Interval
    <3> QED BY <3>1, <3>2, FS_Subset
  <2>7. Cardinality(WindowSyns(s)') <= Cardinality(R)
    BY <2>5, <2>6, FS_Subset
  <2>8. /\ syns'[s] = Cardinality(WindowSyns(s)') /\ syns'[s] \in Nat
        /\ Cardinality(R) \in Nat /\ FloodThreshold \in Nat
    BY <1>0, <1>2, <2>6, FS_CardinalityType, ThresholdAssumption, SketchAssumption
       DEF HistoryTypeOK
  <2>9. Cardinality(R) >= FloodThreshold
    BY <2>3, <2>4, <2>7, <2>8
  <2> QED BY <2>0, <2>9
<1>7. ASSUME NEW n \in DOMAIN log', NEW s, s = log'[n].src_ip, log'[n].flood, Alone(s)
      PROVE  Cardinality(RecentSyns(s, n)') >= FloodThreshold
  <2>1. CASE n = N
    BY <1>0, <1>1, <1>6, <1>7, <2>1 DEF Logged
  <2>2. CASE n # N
    <3>1. n \in DOMAIN log /\ log'[n] = log[n]
      BY <1>1, <1>n, <2>2
    <3>2. Cardinality(RecentSyns(s, n)) >= FloodThreshold
      BY <1>7, <3>1 DEF FloodInv, FloodJustified, RecentSyns
    <3> QED BY <1>5, <3>1, <3>2
  <2> QED BY <2>1, <2>2
<1>8. FloodJustified'
  BY <1>7 DEF FloodJustified, RecentSyns, Recent, Alone
<1> QED BY <1>2, <1>3, <1>4, <1>8 DEF FloodInv, AloneIn

-----------------------------------------------------------------------------
(* The theorems *)

\* The invariant holds in every state the detector can reach.
THEOREM HistoryInvariant == HistorySpec => []HistoryInv
BY InitHistory, NextHistory, PTL DEF HistorySpec

\* CountMinSketch::estimate is never below the source's SYNs of this window, for
\* every table size and every assignment of sources to columns.
THEOREM SketchNeverUndercounts == HistorySpec => []NeverUndercounts
<1>1. HistoryInv => NeverUndercounts
  BY DEF HistoryInv
<1> QED BY <1>1, HistoryInvariant, PTL

\* observe misses no flood: a source that sends the threshold's SYNs in a window
\* is reported in that window.
THEOREM NoFloodMissed == HistorySpec => []FloodRaised
<1>1. HistoryInv => FloodRaised
  BY DEF HistoryInv
<1> QED BY <1>1, HistoryInvariant, PTL

\* observe reports a source at most once per window for a flood and for a scan.
THEOREM AlertsOncePerWindow == HistorySpec => []OneAlertPerWindow
<1>1. HistoryInv => OneAlertPerWindow
  BY DEF HistoryInv
<1> QED BY <1>1, HistoryInvariant, PTL

\* Counters stay within u32 and the window never begins in the future.
THEOREM AnomalyTypeCorrect == HistorySpec => []AnomalyTypeOK
<1>1. HistoryInv => AnomalyTypeOK
  BY DEF HistoryInv, HistoryTypeOK
<1> QED BY <1>1, HistoryInvariant, PTL

\* What the scan alerts and the kept buckets say is right in every reachable state.
THEOREM ScanInvariant == HistorySpec => []ScanInv
<1>1. HistoryInit => ScanInv
  BY FS_EmptySet DEF HistoryInit, AnomalyInit, ScanInv, SketchesOfWindow, ScanExact
<1>2. HistoryInv /\ ScanInv /\ [HistoryNext]_historyVars => ScanInv'
  <2>1. ASSUME HistoryInv, ScanInv, [HistoryNext]_historyVars
        PROVE  ScanInv'
    <3>1. CASE \E event \in Events : Observed(event)
      BY <2>1, <3>1, ObservedScans
    <3>2. CASE \/ AnomalyTick /\ UNCHANGED <<syns, epoch, log>>
               \/ UNCHANGED historyVars
      <4>1. UNCHANGED <<port_cardinality, epoch, log>>
        BY <3>2 DEF AnomalyTick, sketchVars, historyVars, anomalyVars
      <4> QED BY <2>1, <4>1 DEF ScanInv, SketchesOfWindow, ScanExact, PortsInWindow
    <3> QED BY <2>1, <3>1, <3>2 DEF HistoryNext
  <2> QED BY <2>1
<1> QED BY <1>1, <1>2, HistoryInvariant, PTL DEF HistorySpec

\* maybe_roll_window and observe between them keep of each source exactly the
\* buckets of the ports it touched in this window.
THEOREM NothingOfEarlierWindows == HistorySpec => []SketchesOfWindow
<1>1. ScanInv => SketchesOfWindow
  BY DEF ScanInv
<1> QED BY <1>1, ScanInvariant, PTL

\* observe reports a scan at the very event that brings the buckets of a source's
\* ports to the threshold, and never without it.
THEOREM ScansReportedExactly == HistorySpec => []ScanExact
<1>1. ScanInv => ScanExact
  BY DEF ScanInv
<1> QED BY <1>1, ScanInvariant, PTL

\* The counts and times behind FloodJustified are right in every reachable state.
THEOREM FloodInvariant == HistorySpec => []FloodInv
<1>1. ASSUME HistoryInit
      PROVE  FloodInv
  <2>1. /\ log = <<>> /\ DOMAIN log = {} /\ \A s : WindowSyns(s) = {}
        /\ \A s \in Sources : syns[s] = 0
        /\ syn_counts = EmptyTable
    BY <1>1 DEF HistoryInit, AnomalyInit, WindowSyns
  <2>2. \A s \in Sources, r \in Rows : syn_counts[r][Hash[r][s]] = 0
    BY <2>1, SketchAssumption DEF EmptyTable
  <2> QED BY <2>1, <2>2, FS_EmptySet DEF FloodInv, FloodJustified
<1>2. HistoryInv /\ FloodInv /\ [HistoryNext]_historyVars => FloodInv'
  <2>1. ASSUME HistoryInv, FloodInv, [HistoryNext]_historyVars
        PROVE  FloodInv'
    <3>1. CASE \E event \in Events : Observed(event)
      BY <2>1, <3>1, ObservedFloods
    <3>2. CASE \/ AnomalyTick /\ UNCHANGED <<syns, epoch, log>>
               \/ UNCHANGED historyVars
      <4>1. UNCHANGED <<syn_counts, window_start, syns, epoch, log>>
        BY <3>2 DEF AnomalyTick, sketchVars, historyVars, anomalyVars
      <4> QED BY <2>1, <4>1 DEF FloodInv, FloodJustified, WindowSyns, Recent, Alone, AloneIn
    <3> QED BY <2>1, <3>1, <3>2 DEF HistoryNext
  <2> QED BY <2>1
<1> QED BY <1>1, <1>2, HistoryInvariant, PTL DEF HistorySpec

\* observe accuses no source of a flood that has a row of the sketch to itself
\* and has not sent the threshold's SYNs within the window's length.
THEOREM FloodsAreReal == HistorySpec => []FloodJustified
<1>1. FloodInv => FloodJustified
  BY DEF FloodInv
<1> QED BY <1>1, FloodInvariant, PTL
=============================================================================
