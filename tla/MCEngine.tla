------------------------------ MODULE MCEngine ------------------------------
(* An instance of Engine for TLC. *)
EXTENDS Engine

\* "a" and "c" belong to worker 0, "b" to worker 1.
Keys == [s \in {"a", "b", "c"} |-> IF s = "b" THEN 7 ELSE 4]

\* Every attack in every batch, one behind the other.
Periods == [flood |-> 1, payload |-> 1, exploit |-> 1, scan |-> 1]
PortsScanned == <<1007, 1014>>

\* All sources collide in one row of the sketch, none in the other.
OneRowCollides == [r \in {1, 2} |-> [s \in {"a", "b", "c"} |-> IF r = 1 THEN "a" ELSE s]]
OwnBucket == [p \in {80, 1007, 1014} |-> p]
=============================================================================
