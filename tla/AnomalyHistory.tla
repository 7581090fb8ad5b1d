---------------------------- MODULE AnomalyHistory ----------------------------
(***************************************************************************)
(* AnomalyDetector together with an exact account of what it has been shown *)
(* and of the alerts it has raised, to compare the sketches with.           *)
(***************************************************************************)
EXTENDS AnomalyDetector, Sequences

CONSTANT MaxEvents   \* bound on the number of events observed

ASSUME HistoryBoundAssumption == MaxEvents \in Nat

VARIABLES
  syns,     \* syns[s]: SYNs of s since the window began
  epoch,    \* how often the window has rolled over
  log       \* every event observed: when, in which window, what it raised

historyVars == <<anomalyVars, syns, epoch, log>>

HistoryInit ==
  /\ AnomalyInit
  /\ syns = [s \in Sources |-> 0]
  /\ epoch = 0
  /\ log = <<>>

Logged(event) ==
  [src_ip |-> event.src_ip, port |-> event.dst_port, syn |-> is_syn(event),
   at |-> clock', epoch |-> epoch',
   flood |-> FloodFires(event), scan |-> ScanFires(event)]

Observed(event) ==
  /\ Len(log) < MaxEvents
  /\ observe(event)
  /\ syns' = [s \in Sources |->
                (IF WindowOver THEN 0 ELSE syns[s])
                + (IF s = event.src_ip /\ is_syn(event) THEN 1 ELSE 0)]
  /\ epoch' = IF WindowOver THEN epoch + 1 ELSE epoch
  /\ log' = Append(log, Logged(event))

HistoryNext ==
  \/ AnomalyTick /\ UNCHANGED <<syns, epoch, log>>
  \/ \E event \in Events : Observed(event)

HistorySpec == HistoryInit /\ [][HistoryNext]_historyVars

-----------------------------------------------------------------------------
(* Properties *)

\* "Estimated count is always >= true count" (CountMinSketch::estimate): for
\* every source, whatever collides with it, up to the width of a counter.
NeverUndercounts ==
  \A s \in Sources :
    EstimateAtLeast(syn_counts, s, IF syns[s] < CounterMax THEN syns[s] ELSE CounterMax)

\* The current window has raised a flood alert for s.
FloodAlerted(s) ==
  \E i \in DOMAIN log : log[i].flood /\ log[i].src_ip = s /\ log[i].epoch = epoch

\* ">=50 SYNs from one source per window => flood": a source at the threshold
\* has its alert in this window, however the estimate jumped over it and
\* whatever was reported in the windows before.
FloodRaised ==
  \A s \in Sources : syns[s] >= FloodThreshold => FloodAlerted(s)

\* "without spamming an alert on every subsequent packet": no source raises
\* the same alert twice in a window.
OneAlertPerWindow ==
  \A i, j \in DOMAIN log :
    i < j /\ log[i].epoch = log[j].epoch /\ log[i].src_ip = log[j].src_ip
      => ~(log[i].flood /\ log[j].flood) /\ ~(log[i].scan /\ log[j].scan)

\* The events of s, up to the n-th of the log, less than a window before it.
Recent(s, n) ==
  {i \in 1..n : log[i].src_ip = s /\ log[n].at - log[i].at < Window}

\* No other source shares the column of s in some row.
Alone(s) == \E r \in Rows : \A u \in Sources \ {s} : Hash[r][u] # Hash[r][s]

\* "too many X *within T seconds*": a source that collides with no other in
\* some row is reported only for that many SYNs of its own in the last window.
FloodJustified ==
  \A n \in DOMAIN log :
    log[n].flood /\ Alone(log[n].src_ip) =>
      Cardinality({i \in Recent(log[n].src_ip, n) : log[i].syn}) >= FloodThreshold

\* The ports of s seen in one window, up to the n-th event.
PortsInWindow(n) ==
  {log[i].port : i \in {i \in 1..n : /\ log[i].src_ip = log[n].src_ip
                                     /\ log[i].epoch = log[n].epoch}}

\* A source has its scan alert exactly from the event on that brings the ports
\* it touched in the window to the threshold, ports in one bucket counted once.
ScanExact ==
  \A n \in DOMAIN log :
    Cardinality({Bucket[p] : p \in PortsInWindow(n)}) >= ScanThreshold
      <=> \E i \in 1..n : /\ log[i].scan /\ log[i].src_ip = log[n].src_ip
                          /\ log[i].epoch = log[n].epoch

\* "Both are reset on a fixed window" (module documentation): what the detector keeps of each source
\* is the buckets of the ports it touched since the window began, and nothing of
\* sources and ports of the windows before, however late the roll-over came.
SketchesOfWindow ==
  \A s \in Sources :
    port_cardinality[s] =
      {Bucket[log[i].port] : i \in {i \in DOMAIN log : /\ log[i].src_ip = s
                                                      /\ log[i].epoch = epoch}}

\* "this is the sliding-window behavior a real NIDS needs: too many X within T
\* seconds" (module documentation): threshold SYNs within one window's length
\* raise an alert within it.
SlidingWindow ==
  \A n \in DOMAIN log :
    LET recent == Recent(log[n].src_ip, n)
    IN Cardinality({i \in recent : log[i].syn}) >= FloodThreshold
         => \E i \in recent : log[i].flood

-----------------------------------------------------------------------------
(***************************************************************************)
(* The inductive invariant behind NeverUndercounts, FloodRaised and         *)
(* OneAlertPerWindow: the two sets of sources already alerted say exactly   *)
(* what the log says of the current window.                                 *)
(***************************************************************************)
LogEntries ==
  [src_ip : Sources, port : Ports, syn : BOOLEAN, at : Nat, epoch : Nat,
   flood : BOOLEAN, scan : BOOLEAN]

HistoryTypeOK ==
  /\ AnomalyTypeOK
  /\ syns \in [Sources -> Nat]
  /\ epoch \in Nat
  /\ log \in Seq(LogEntries)
  /\ \A i \in DOMAIN log : log[i].epoch <= epoch

ScanAlerted(s) ==
  \E i \in DOMAIN log : log[i].scan /\ log[i].src_ip = s /\ log[i].epoch = epoch

AlertedSetsExact ==
  \A s \in Sources : /\ s \in alerted_flood_this_window <=> FloodAlerted(s)
                     /\ s \in alerted_scan_this_window <=> ScanAlerted(s)

HistoryInv ==
  /\ HistoryTypeOK /\ NeverUndercounts /\ FloodRaised
  /\ AlertedSetsExact /\ OneAlertPerWindow
=============================================================================
