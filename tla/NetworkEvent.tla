----------------------------- MODULE NetworkEvent -----------------------------
(***************************************************************************)
(* The part of models.rs's NetworkEvent that the detectors look at.  An     *)
(* event is a record with                                                   *)
(*   src_ip          the source, a model value;                             *)
(*   dst_port        the port;                                              *)
(*   flags           the set of TCP flags that are set;                     *)
(*   payload_sample  the bytes of the sample, cut into the pieces that the  *)
(*                   patterns of the rules are made of; <<>> is empty.      *)
(***************************************************************************)
EXTENDS Integers, Sequences

\* Mutant: the ACK bit is not looked at.
is_syn_any(event) == "SYN" \in event.flags

\* SYN set and ACK clear.
is_syn(event) == "SYN" \in event.flags /\ "ACK" \notin event.flags

\* The pattern is found in the sample, beginning at its i-th piece.
OccursAt(pattern, payload, i) ==
  /\ i + Len(pattern) - 1 <= Len(payload)
  /\ SubSeq(payload, i, i + Len(pattern) - 1) = pattern

HasPattern(event, pattern) ==
  \E i \in DOMAIN event.payload_sample : OccursAt(pattern, event.payload_sample, i)
=============================================================================
