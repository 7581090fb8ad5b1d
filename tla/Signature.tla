------------------------------ MODULE Signature ------------------------------
(***************************************************************************)
(* SignatureDetector of engine/src/detection/signature.rs.  The automaton   *)
(* is modelled by what it finds: the occurrences of the patterns in the     *)
(* sample.  A sample is cut into pieces as in NetworkEvent, and a pattern   *)
(* into the same pieces; no piece occurs inside another one, so a pattern   *)
(* occurs in the bytes exactly where its pieces occur.                      *)
(***************************************************************************)
EXTENDS NetworkEvent, FiniteSets

\* The patterns of with_default_rules, and the rules they stand for.
patterns ==
  [path_traversal_passwd  |-> <<"/", "etc", "/", "passwd">>,
   sql_injection_union    |-> <<"UNION SELECT">>,
   xss_script_tag         |-> <<"<script>alert(">>,
   windows_cmd_exec       |-> <<"cmd.exe">>,
   path_traversal_generic |-> <<"..", "/", "..", "/">>]

SignatureRules == DOMAIN patterns

\* An occurrence is a rule with the first and the last piece it matches.
Occurrences(payload) ==
  {[rule |-> x[1], from |-> x[2], to |-> x[2] + Len(patterns[x[1]]) - 1] :
     x \in {x \in SignatureRules \X DOMAIN payload : OccursAt(patterns[x[1]], payload, x[2])}}

\* Mutant: find_iter, whose search goes on behind the match it found first, and
\* so loses an occurrence that shares bytes with it.
FoundLeftmost(payload) ==
  {o \in Occurrences(payload) :
     ~\E p \in Occurrences(payload) : p.from < o.from /\ o.from <= p.to}

\* find_overlapping_iter
Found(payload) == Occurrences(payload)

\* SignatureDetector::scan: the rules of the alerts, in the order in which the
\* occurrences end; no pattern is a suffix of another, so no two end together.
scan(event) ==
  LET found == Found(event.payload_sample)
      Ended(o) == Cardinality({p \in found : p.to <= o.to})
  IN [n \in 1..Cardinality(found) |-> (CHOOSE o \in found : Ended(o) = n).rule]
=============================================================================
