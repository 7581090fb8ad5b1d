------------------------------ MODULE Simulator ------------------------------
(***************************************************************************)
(* Simulator of engine/src/ingestion.rs: what next_batch may return at a    *)
(* tick.  The random source is the choice of one batch from a set.  Next to *)
(* its NetworkEvent fields a packet says which kind of traffic it was made  *)
(* for; nothing in the engine can see that.                                 *)
(***************************************************************************)
EXTENDS Integers, Sequences, FiniteSets

CONSTANTS
  Sources,        \* source addresses
  Attackers,      \* those of 10.0.0.x, from which attacks are injected
  BenignPorts,    \* 80, 443, 22, 53
  ScannedPorts,   \* the ports of a scan, in order: 1007, 1014, ..., 1273
  NormalCounts,   \* how many benign events a batch has: 20..59
  FloodBurst,     \* SYNs of a flood: 80
  Every           \* Every[kind]: the ticks between two attacks of a kind

AttackKinds == {"flood", "payload", "exploit", "scan"}

ASSUME SimulatorAssumption ==
  /\ Attackers \subseteq Sources
  /\ ScannedPorts \in Seq(Nat) /\ BenignPorts \subseteq Nat
  /\ NormalCounts \subseteq Nat /\ FloodBurst \in Nat
  /\ Every \in [AttackKinds -> Nat \ {0}]

Request == <<"GET ", "/", "index.html">>
Traversal == <<"GET ", "/", "..", "/", "..", "/", "etc", "/", "passwd">>

Packet(kind, s, port, flags, payload) ==
  [kind |-> kind, src_ip |-> s, dst_port |-> port, flags |-> flags,
   payload_sample |-> payload]

Syn(kind, s, port) == Packet(kind, s, port, {"SYN"}, <<>>)

\* benign_event, with the given payload
Benign(kind, payload) ==
  {Packet(kind, s, port, {"SYN", "ACK"}, payload) : s \in Sources, port \in BenignPorts}

Exploit(s) == Packet("exploit", s, 80, {"SYN", "ACK"}, Traversal)

\* Mutant: the probe and the exploit each draw an address of their own.
ProbeAndExploitApart ==
  {<<Syn("probe", s, 80), Exploit(u)>> : s \in Attackers, u \in Attackers}

ProbeAndExploit == {<<Syn("probe", s, 80), Exploit(s)>> : s \in Attackers}

\* What an attack of a kind appends to the batch.
Injections(kind) ==
  CASE kind = "flood"   -> {[i \in 1..FloodBurst |-> Syn("flood", s, 80)] : s \in Attackers}
    [] kind = "payload" -> {<<packet>> : packet \in Benign("payload", Traversal)}
    [] kind = "exploit" -> ProbeAndExploit
    [] kind = "scan"    -> {[i \in DOMAIN ScannedPorts |-> Syn("scan", s, ScannedPorts[i])]
                            : s \in Attackers}

\* What it appends at a tick, if (self.tick % n == 0).
Injected(kind, tick) ==
  IF tick % Every[kind] = 0 THEN Injections(kind) ELSE {<<>>}

\* Simulator::next_batch
next_batch(tick) ==
  {normal \o flood \o payload \o exploit \o scan :
     normal  \in UNION {[1..k -> Benign("benign", Request)] : k \in NormalCounts},
     flood   \in Injected("flood", tick),
     payload \in Injected("payload", tick),
     exploit \in Injected("exploit", tick),
     scan    \in Injected("scan", tick)}
=============================================================================
