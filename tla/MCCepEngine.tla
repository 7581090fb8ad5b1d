----------------------------- MODULE MCCepEngine -----------------------------
(* Rules and events with which TLC runs CepEngine. *)
EXTENDS CepEngine, TLC

Shape(flags, payload, port) ==
  [flags |-> flags, payload_sample |-> payload, dst_port |-> port]

\* with_default_rules, with a window of two ticks.
DefaultSteps == [probe |-> <<"IsSynOnly", "HasSignaturePayload">>]
DefaultWindow == [probe |-> 2]

\* The default rule, and a longer one with the third condition of the
\* vocabulary in the middle, whose partial matches can be at different steps.
TwoRuleSteps ==
  [probe |-> <<"IsSynOnly", "HasSignaturePayload">>,
   sweep |-> <<"IsSynOnly", "DistinctPortAbove", "HasSignaturePayload">>]
TwoRuleWindow == [probe |-> 1, sweep |-> 2]

Probe       == Shape({"SYN"}, <<>>, 80)
ProbePasswd == Shape({"SYN"}, <<"passwd">>, 80)
HighPort    == Shape({"SYN", "ACK"}, <<"GET ", "/", "index.html">>, 9000)
HighExploit == Shape({"SYN", "ACK"}, <<"/", "etc", "/", "passwd">>, 9000)

\* Events that satisfy one condition, and events that satisfy two of them.
MixedShapes == {Probe, ProbePasswd, HighPort, HighExploit}
AttackShapes == {Probe, HighExploit}

SourceSymmetry == Permutations(Sources)
=============================================================================
