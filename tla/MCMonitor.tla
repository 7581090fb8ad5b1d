------------------------------ MODULE MCMonitor ------------------------------
(* An instance of Monitor for TLC. *)
EXTENDS Monitor

\* "a" belongs to worker 0, "b" to worker 1.
Keys == [s \in {"a", "b"} |-> IF s = "b" THEN 7 ELSE 4]

\* Two detectors that number their alerts from one, so that ids repeat within a
\* worker as well as between workers.
FirstAndLast == [signature |-> 1, anomaly |-> 0, cep |-> 1]

\* The events bear the same millisecond.
SameMillisecond == [n \in 1..2 |-> 5]
=============================================================================
