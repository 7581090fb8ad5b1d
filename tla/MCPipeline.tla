----------------------------- MODULE MCPipeline -----------------------------
(* An instance of Pipeline for TLC. *)
EXTENDS Pipeline

\* "a" belongs to worker 0, "b" to worker 1.
Keys == [s \in {"a", "b"} |-> IF s = "b" THEN 7 ELSE 4]

\* The first detector may return two alerts for one event, the last detector one.
FirstAndLast == [signature |-> 2, anomaly |-> 0, cep |-> 1]
=============================================================================
