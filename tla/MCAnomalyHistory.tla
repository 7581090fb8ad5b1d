--------------------------- MODULE MCAnomalyHistory ---------------------------
(* Hash functions and events with which TLC runs AnomalyHistory. *)
EXTENDS AnomalyHistory, TLC

Packet(flags, port) ==
  [flags |-> flags, payload_sample |-> <<>>, dst_port |-> port]

\* SYNs to two ports and one other packet to a third; ports 22 and 53 fall into
\* one bucket.
MixedShapes == {Packet({"SYN"}, 80), Packet({"SYN"}, 22), Packet({"SYN", "ACK"}, 53)}
SynShapes == {Packet({"SYN"}, 80)}
PortBucket == [p \in {22, 53, 80} |-> IF p < 80 THEN 0 ELSE 1]

\* Row 1 cannot tell "a" from "b", row 2 cannot tell "b" from "c": a and c are
\* alone in some row, b is not.
CollidingHash ==
  [r \in {1, 2} |-> [s \in {"a", "b", "c"} |->
     IF r = 1 THEN (IF s = "c" THEN 0 ELSE 1) ELSE (IF s = "a" THEN 0 ELSE 1)]]
OneHash == [r \in {1, 2} |-> [s \in {"a"} |-> 0]]
=============================================================================
