----------------------------- MODULE EngineProofs -----------------------------
(***************************************************************************)
(* Proofs about Engine: the engines of the workers together are one         *)
(* CepEngine, every exploit behind its probe is reported, no benign source  *)
(* is accused, and no burst and no traversal goes unreported.               *)
(***************************************************************************)
EXTENDS Engine, DataLemmas, FiniteSetTheorems

-----------------------------------------------------------------------------
(* The traffic. *)

\* What the attacks append to a batch.
Attacks == UNION {Injections(kind) : kind \in AttackKinds}

\* Every packet the simulator sends.
Packets ==
  (UNION {{b[i] : i \in DOMAIN b} : b \in Attacks}) \cup Benign("benign", Request)

\* What the proofs need to know of a packet: a source, a shape, and what its
\* kind says of its flags, its payload and its port.
LEMMA PacketFacts ==
  ASSUME NEW p \in Packets
  PROVE  /\ p.src_ip \in Sources
         /\ [dst_port |-> p.dst_port, flags |-> p.flags, payload_sample |-> p.payload_sample]
              \in Shapes
         /\ is_syn(p) <=> p.kind \in {"flood", "scan", "probe"}
         /\ p.payload_sample \in {<<>>, Request, Traversal}
         /\ p.payload_sample = Traversal <=> p.kind \in {"payload", "exploit"}
         /\ p.kind # "scan" => p.dst_port \in BenignPorts \cup {80}
<1>0. Request # Traversal /\ <<>> # Traversal
  BY DEF Request, Traversal
<1>1. [dst_port |-> p.dst_port, flags |-> p.flags, payload_sample |-> p.payload_sample] \in Shapes
  BY DEF Packets, Attacks, Shapes
<1>2. CASE p \in Benign("benign", Request)
  BY <1>0, <1>1, <1>2 DEF Benign, Packet, is_syn
<1>3. CASE \E kind \in AttackKinds : \E b \in Injections(kind) : \E i \in DOMAIN b : p = b[i]
  <2>0. PICK kind \in AttackKinds : \E b \in Injections(kind) : \E i \in DOMAIN b : p = b[i]
    BY <1>3
  <2>1. PICK b \in Injections(kind) : \E i \in DOMAIN b : p = b[i]
    BY <2>0
  <2>2. CASE kind = "flood"
    <3>1. PICK s \in Attackers : b = [j \in 1..FloodBurst |-> Syn("flood", s, 80)]
      BY <2>1, <2>2 DEF Injections
    <3>2. p = Syn("flood", s, 80) /\ s \in Sources
      BY <2>1, <3>1, SimulatorAssumption
    <3> QED BY <1>0, <1>1, <3>2 DEF Syn, Packet, is_syn
  <2>3. CASE kind = "payload"
    <3>1. PICK q \in Benign("payload", Traversal) : b = <<q>>
      BY <2>1, <2>3 DEF Injections
    <3>2. p = q
      BY <2>1, <3>1
    <3> QED BY <1>0, <1>1, <3>1, <3>2 DEF Benign, Packet, is_syn
  <2>4. CASE kind = "exploit"
    <3>1. PICK s \in Attackers : b = <<Syn("probe", s, 80), Exploit(s)>>
      BY <2>1, <2>4 DEF Injections, ProbeAndExploit
    <3>2. s \in Sources /\ (p = Syn("probe", s, 80) \/ p = Exploit(s))
      BY <2>1, <3>1, SimulatorAssumption
    <3> QED BY <1>0, <1>1, <3>2 DEF Syn, Exploit, Packet, is_syn
  <2>5. CASE kind = "scan"
    <3>1. PICK s \in Attackers : b = [j \in DOMAIN ScannedPorts |-> Syn("scan", s, ScannedPorts[j])]
      BY <2>1, <2>5 DEF Injections
    <3>2. s \in Sources /\ \E j \in DOMAIN ScannedPorts : p = Syn("scan", s, ScannedPorts[j])
      BY <2>1, <3>1, SimulatorAssumption
    <3> QED BY <1>0, <1>1, <3>2 DEF Syn, Packet, is_syn
  <2> QED BY <2>1, <2>2, <2>3, <2>4, <2>5 DEF AttackKinds
<1> QED BY <1>2, <1>3 DEF Packets, Attacks

\* A piece of a batch.
LEMMA Piece ==
  ASSUME NEW kind \in AttackKinds, NEW t \in Nat, NEW q \in Injected(kind, t)
  PROVE  q \in Seq(Packets)
         /\ (q = <<>> \/ q \in Injections(kind))
<1>1. q = <<>> \/ q \in Injections(kind)
  BY DEF Injected
<1>2. ASSUME q \in Injections(kind)
      PROVE  q \in Seq(Packets)
  <2>1. q \in Attacks /\ \A i \in DOMAIN q : q[i] \in Packets
    BY <1>2 DEF Packets, Attacks
  <2>2. CASE kind = "flood"
    <3>1. PICK s \in Attackers : q = [j \in 1..FloodBurst |-> Syn("flood", s, 80)]
      BY <1>2, <2>2 DEF Injections
    <3> QED BY <2>1, <3>1, SimulatorAssumption, SeqDef
  <2>3. CASE kind = "payload"
    <3>1. PICK y \in Benign("payload", Traversal) : q = <<y>>
      BY <1>2, <2>3 DEF Injections
    <3>2. DOMAIN q = 1..1 /\ q[1] \in Packets
      BY <2>1, <3>1
    <3> QED BY <3>1, <3>2
  <2>4. CASE kind = "exploit"
    <3>1. PICK s \in Attackers : q = <<Syn("probe", s, 80), Exploit(s)>>
      BY <1>2, <2>4 DEF Injections, ProbeAndExploit
    <3>2. DOMAIN q = 1..2 /\ q[1] \in Packets /\ q[2] \in Packets
      BY <2>1, <3>1
    <3> QED BY <3>1, <3>2
  <2>5. CASE kind = "scan"
    <3>1. PICK s \in Attackers : q = [j \in DOMAIN ScannedPorts |-> Syn("scan", s, ScannedPorts[j])]
      BY <1>2, <2>5 DEF Injections
    <3>2. Len(ScannedPorts) \in Nat /\ DOMAIN ScannedPorts = 1..Len(ScannedPorts)
      BY SimulatorAssumption, LenProperties
    <3>3. q \in [1..Len(ScannedPorts) -> Packets]
      BY <2>1, <3>1, <3>2
    <3> QED BY <3>2, <3>3, SeqDef
  <2> QED BY <2>2, <2>3, <2>4, <2>5 DEF AttackKinds
<1> QED BY <1>1, <1>2, EmptySeq


\* What an attack of each kind appends, if anything.
FloodPiece(q) ==
  /\ Len(q) \in {0, FloodBurst}
  /\ \E s : \A i \in 1..Len(q) : q[i].kind = "flood" /\ q[i].src_ip = s

PayloadPiece(q) == Len(q) \in {0, 1} /\ \A i \in 1..Len(q) : q[i].kind = "payload"

ExploitPiece(q) ==
  /\ Len(q) \in {0, 2}
  /\ \E s : \A i \in 1..Len(q) :
       /\ i = 1 => q[i].kind = "probe"
       /\ i = 2 => q[i].kind = "exploit"
       /\ q[i].src_ip = s

ScanPiece(q) ==
  /\ Len(q) \in {0, Len(ScannedPorts)}
  /\ \E s : \A i \in 1..Len(q) :
       q[i].kind = "scan" /\ q[i].src_ip = s /\ q[i].dst_port = ScannedPorts[i]

LEMMA Pieces ==
  ASSUME NEW t \in Nat
  PROVE  /\ \A q \in Injected("flood", t) : FloodPiece(q)
         /\ \A q \in Injected("payload", t) : PayloadPiece(q)
         /\ \A q \in Injected("exploit", t) : ExploitPiece(q)
         /\ \A q \in Injected("scan", t) : ScanPiece(q)
<1>0. \A kind \in AttackKinds : \A q \in Injected(kind, t) :
        (Len(q) = 0 /\ \A i : i \notin 1..Len(q)) \/ q \in Injections(kind)
  BY DEF Injected
<1>1. ASSUME NEW q \in Injected("flood", t)
      PROVE  FloodPiece(q)
  <2>1. CASE q \in Injections("flood")
    <3>1. PICK s \in Attackers : q = [j \in 1..FloodBurst |-> Syn("flood", s, 80)]
      BY <2>1 DEF Injections
    <3>2. Len(q) = FloodBurst
      BY <3>1, SimulatorAssumption
    <3>3. \A i \in 1..Len(q) : q[i].kind = "flood" /\ q[i].src_ip = s
      BY <3>1, <3>2 DEF Syn, Packet
    <3> QED BY <3>2, <3>3 DEF FloodPiece
  <2> QED BY <1>0, <2>1 DEF AttackKinds, FloodPiece
<1>2. ASSUME NEW q \in Injected("payload", t)
      PROVE  PayloadPiece(q)
  <2>1. CASE q \in Injections("payload")
    <3>1. PICK y \in Benign("payload", Traversal) : q = <<y>>
      BY <2>1 DEF Injections
    <3>2. y.kind = "payload"
      BY DEF Benign, Packet
    <3> QED BY <3>1, <3>2 DEF PayloadPiece
  <2> QED BY <1>0, <2>1 DEF AttackKinds, PayloadPiece
<1>3. ASSUME NEW q \in Injected("exploit", t)
      PROVE  ExploitPiece(q)
  <2>1. CASE q \in Injections("exploit")
    <3>1. PICK s \in Attackers : q = <<Syn("probe", s, 80), Exploit(s)>>
      BY <2>1 DEF Injections, ProbeAndExploit
    <3>2. Len(q) = 2 /\ q[1] = Syn("probe", s, 80) /\ q[2] = Exploit(s)
      BY <3>1
    <3>3. /\ q[1].kind = "probe" /\ q[1].src_ip = s
          /\ q[2].kind = "exploit" /\ q[2].src_ip = s
      BY <3>2 DEF Syn, Exploit, Packet
    <3>4. \A i \in 1..Len(q) : i = 1 \/ i = 2
      BY <3>2
    <3>5. \A i \in 1..Len(q) : /\ i = 1 => q[i].kind = "probe"
                               /\ i = 2 => q[i].kind = "exploit"
                               /\ q[i].src_ip = s
      BY <3>3, <3>4
    <3> QED BY <3>2, <3>5 DEF ExploitPiece
  <2> QED BY <1>0, <2>1 DEF AttackKinds, ExploitPiece
<1>4. ASSUME NEW q \in Injected("scan", t)
      PROVE  ScanPiece(q)
  <2>1. CASE q \in Injections("scan")
    <3>1. PICK s \in Attackers : q = [j \in DOMAIN ScannedPorts |-> Syn("scan", s, ScannedPorts[j])]
      BY <2>1 DEF Injections
    <3>2. Len(ScannedPorts) \in Nat /\ DOMAIN ScannedPorts = 1..Len(ScannedPorts)
      BY SimulatorAssumption, LenProperties
    <3>3. Len(q) = Len(ScannedPorts)
      BY <3>1, <3>2
    <3>4. \A i \in 1..Len(q) : /\ q[i].kind = "scan" /\ q[i].src_ip = s
                               /\ q[i].dst_port = ScannedPorts[i]
      BY <3>1, <3>2, <3>3 DEF Syn, Packet
    <3> QED BY <3>3, <3>4 DEF ScanPiece
  <2> QED BY <1>0, <2>1 DEF AttackKinds, ScanPiece
<1> QED BY <1>1, <1>2, <1>3, <1>4

\* The packets of a tick by their places: benign traffic up to k, then a flood
\* up to l, a traversal up to m, a probe and its exploit up to n, and a scan; the
\* whole of an attack from one address.
Laid(b, k, l, m, n) ==
  /\ b \in Seq(Packets)
  /\ k <= l /\ l <= m /\ m <= n /\ n <= Len(b)
  /\ l - k \in {0, FloodBurst} /\ m - l \in {0, 1} /\ n - m \in {0, 2}
  /\ Len(b) - n \in {0, Len(ScannedPorts)}
  /\ \A i \in 1..k : b[i].kind = "benign"
  /\ \E s : \A i \in (k + 1)..l : b[i].kind = "flood" /\ b[i].src_ip = s
  /\ \A i \in (l + 1)..m : b[i].kind = "payload"
  /\ \E s : \A i \in (m + 1)..n :
       /\ i = m + 1 => b[i].kind = "probe"
       /\ i = m + 2 => b[i].kind = "exploit"
       /\ b[i].src_ip = s
  /\ \E s : \A i \in (n + 1)..Len(b) :
       b[i].kind = "scan" /\ b[i].src_ip = s /\ b[i].dst_port = ScannedPorts[i - n]

\* One sequence behind another: u is s, of length m, and then t.
Joins(u, s, t, m) ==
  /\ Len(u) = m + Len(t)
  /\ \A i \in 1..m : u[i] = s[i]
  /\ \A i \in (m + 1)..Len(u) : i - m \in 1..Len(t) /\ u[i] = t[i - m]

LEMMA Joined ==
  ASSUME NEW S, NEW s \in Seq(S), NEW t \in Seq(S)
  PROVE  s \o t \in Seq(S) /\ Joins(s \o t, s, t, Len(s))
<1>1. PICK m \in Nat, n \in Nat : m = Len(s) /\ n = Len(t)
  BY LenProperties
<1>2. /\ s \o t \in Seq(S) /\ Len(s \o t) = m + n
      /\ \A i \in 1..(m + n) : (s \o t)[i] = IF i <= m THEN s[i] ELSE t[i - m]
  BY <1>1, ConcatProperties
<1>3. PICK u : u = s \o t
  OBVIOUS
<1>4. ASSUME NEW i \in 1..m PROVE u[i] = s[i]
  <2>1. i \in 1..(m + n) /\ i <= m
    OBVIOUS
  <2> QED BY <1>2, <1>3, <2>1
<1>5. ASSUME NEW i \in (m + 1)..(m + n) PROVE i - m \in 1..n /\ u[i] = t[i - m]
  <2>1. i \in 1..(m + n) /\ ~(i <= m) /\ i - m \in 1..n
    OBVIOUS
  <2> QED BY <1>2, <1>3, <2>1
<1> QED BY <1>1, <1>2, <1>3, <1>4, <1>5 DEF Joins

LEMMA LaidOut ==
  ASSUME NEW normal \in Seq(Packets), NEW flood \in Seq(Packets), NEW payload \in Seq(Packets),
         NEW exploit \in Seq(Packets), NEW scn \in Seq(Packets),
         \A i \in 1..Len(normal) : normal[i].kind = "benign",
         FloodPiece(flood), PayloadPiece(payload), ExploitPiece(exploit), ScanPiece(scn)
  PROVE  \E k, l, m, n \in Nat :
           Laid(normal \o flood \o payload \o exploit \o scn, k, l, m, n)
<1>1. PICK b2, b3, b4, b : /\ b2 = normal \o flood /\ b3 = b2 \o payload
                           /\ b4 = b3 \o exploit /\ b = b4 \o scn
  OBVIOUS
<1>2. b2 \in Seq(Packets) /\ Joins(b2, normal, flood, Len(normal))
  BY <1>1, Joined
<1>3. b3 \in Seq(Packets) /\ Joins(b3, b2, payload, Len(b2))
  BY <1>1, <1>2, Joined
<1>4. b4 \in Seq(Packets) /\ Joins(b4, b3, exploit, Len(b3))
  BY <1>1, <1>3, Joined
<1>5. b \in Seq(Packets) /\ Joins(b, b4, scn, Len(b4))
  BY <1>1, <1>4, Joined
<1>6. PICK k \in Nat, l \in Nat, m \in Nat, n \in Nat, o \in Nat :
        k = Len(normal) /\ l = Len(b2) /\ m = Len(b3) /\ n = Len(b4) /\ o = Len(b)
  BY <1>2, <1>3, <1>4, <1>5, LenProperties
<1>7. PICK f \in Nat, p \in Nat, x \in Nat, c \in Nat :
        f = Len(flood) /\ p = Len(payload) /\ x = Len(exploit) /\ c = Len(scn)
  BY LenProperties
<1>8. /\ l = k + f /\ m = l + p /\ n = m + x /\ o = n + c
      /\ \A i \in 1..k : b2[i] = normal[i]
      /\ \A i \in (k + 1)..l : i - k \in 1..f /\ b2[i] = flood[i - k]
      /\ \A i \in 1..l : b3[i] = b2[i]
      /\ \A i \in (l + 1)..m : i - l \in 1..p /\ b3[i] = payload[i - l]
      /\ \A i \in 1..m : b4[i] = b3[i]
      /\ \A i \in (m + 1)..n : i - m \in 1..x /\ b4[i] = exploit[i - m]
      /\ \A i \in 1..n : b[i] = b4[i]
      /\ \A i \in (n + 1)..o : i - n \in 1..c /\ b[i] = scn[i - n]
  BY <1>2, <1>3, <1>4, <1>5, <1>6, <1>7 DEF Joins
<1>9. \A i \in 1..k : b[i].kind = "benign"
  <2>1. ASSUME NEW i \in 1..k PROVE b[i].kind = "benign"
    <3>1. i \in 1..l /\ i \in 1..m /\ i \in 1..n
      BY <1>8
    <3>2. b[i] = normal[i]
      BY <1>8, <3>1
    <3> QED BY <1>6, <3>2
  <2> QED BY <2>1
<1>10. \E s : \A i \in (k + 1)..l : b[i].kind = "flood" /\ b[i].src_ip = s
  <2>1. PICK s : \A i \in 1..f : flood[i].kind = "flood" /\ flood[i].src_ip = s
    BY <1>7 DEF FloodPiece
  <2>2. ASSUME NEW i \in (k + 1)..l PROVE b[i].kind = "flood" /\ b[i].src_ip = s
    <3>1. i \in 1..l /\ i \in 1..m /\ i \in 1..n
      BY <1>8
    <3>2. b[i] = flood[i - k] /\ i - k \in 1..f
      BY <1>8, <3>1
    <3> QED BY <2>1, <3>2
  <2> QED BY <2>2
<1>11. \A i \in (l + 1)..m : b[i].kind = "payload"
  <2>1. \A i \in 1..p : payload[i].kind = "payload"
    BY <1>7 DEF PayloadPiece
  <2>2. ASSUME NEW i \in (l + 1)..m PROVE b[i].kind = "payload"
    <3>1. i \in 1..m /\ i \in 1..n
      BY <1>8
    <3>2. b[i] = payload[i - l] /\ i - l \in 1..p
      BY <1>8, <3>1
    <3> QED BY <2>1, <3>2
  <2> QED BY <2>2
<1>12. \E s : \A i \in (m + 1)..n :
         /\ i = m + 1 => b[i].kind = "probe"
         /\ i = m + 2 => b[i].kind = "exploit"
         /\ b[i].src_ip = s
  <2>1. PICK s : \A i \in 1..x : /\ i = 1 => exploit[i].kind = "probe"
                                 /\ i = 2 => exploit[i].kind = "exploit"
                                 /\ exploit[i].src_ip = s
    BY <1>7 DEF ExploitPiece
  <2>2. ASSUME NEW i \in (m + 1)..n
        PROVE  /\ i = m + 1 => b[i].kind = "probe"
               /\ i = m + 2 => b[i].kind = "exploit"
               /\ b[i].src_ip = s
    <3>1. i \in 1..n /\ (i = m + 1 => i - m = 1) /\ (i = m + 2 => i - m = 2)
      BY <1>8
    <3>2. b[i] = exploit[i - m] /\ i - m \in 1..x
      BY <1>8, <3>1
    <3> QED BY <2>1, <3>1, <3>2
  <2> QED BY <2>2
<1>13. \E s : \A i \in (n + 1)..o :
         b[i].kind = "scan" /\ b[i].src_ip = s /\ b[i].dst_port = ScannedPorts[i - n]
  <2>1. PICK s : \A i \in 1..c : /\ scn[i].kind = "scan" /\ scn[i].src_ip = s
                                 /\ scn[i].dst_port = ScannedPorts[i]
    BY <1>7 DEF ScanPiece
  <2>2. \A i \in (n + 1)..o :
          b[i].kind = "scan" /\ b[i].src_ip = s /\ b[i].dst_port = ScannedPorts[i - n]
    BY <1>8, <2>1
  <2> QED BY <2>2
<1>14. /\ k <= l /\ l <= m /\ m <= n /\ n <= o
       /\ l - k = f /\ m - l = p /\ n - m = x /\ o - n = c
       /\ f \in {0, FloodBurst} /\ p \in {0, 1} /\ x \in {0, 2} /\ c \in {0, Len(ScannedPorts)}
  <2>1. /\ l = k + f /\ m = l + p /\ n = m + x /\ o = n + c
    BY <1>8
  <2>2. /\ k <= l /\ l <= m /\ m <= n /\ n <= o
        /\ l - k = f /\ m - l = p /\ n - m = x /\ o - n = c
    BY <2>1
  <2>3. f \in {0, FloodBurst} /\ p \in {0, 1} /\ x \in {0, 2} /\ c \in {0, Len(ScannedPorts)}
    BY <1>7, ZenonT(20) DEF FloodPiece, PayloadPiece, ExploitPiece, ScanPiece
  <2> QED BY <2>2, <2>3
<1>15. Laid(b, k, l, m, n)
  BY <1>5, <1>6, <1>9, <1>10, <1>11, <1>12, <1>13, <1>14 DEF Laid
<1> QED BY <1>1, <1>15

LEMMA Batches ==
  ASSUME NEW t \in Nat, NEW b \in next_batch(t)
  PROVE  \E k, l, m, n \in Nat : Laid(b, k, l, m, n)
<1> DEFINE N == UNION {[1..n -> Benign("benign", Request)] : n \in NormalCounts}
<1>1. ASSUME NEW normal \in N
      PROVE  normal \in Seq(Packets) /\ \A i \in 1..Len(normal) : normal[i].kind = "benign"
  <2>1. PICK k \in Nat : normal \in [1..k -> Benign("benign", Request)]
    BY <1>1, SimulatorAssumption
  <2>2. normal \in [1..k -> Packets] /\ Len(normal) = k
    BY <2>1 DEF Packets
  <2>3. \A q \in Benign("benign", Request) : q.kind = "benign"
    BY DEF Benign, Packet
  <2> QED BY <2>1, <2>2, <2>3, SeqDef
<1>2. \E normal \in N, flood \in Injected("flood", t), payload \in Injected("payload", t),
         exploit \in Injected("exploit", t), scn \in Injected("scan", t) :
        b = normal \o flood \o payload \o exploit \o scn
  BY DEF next_batch
<1> HIDE DEF N
<1>3. PICK normal \in N, flood \in Injected("flood", t), payload \in Injected("payload", t),
           exploit \in Injected("exploit", t), scn \in Injected("scan", t) :
        b = normal \o flood \o payload \o exploit \o scn
  BY <1>2
<1>4. /\ normal \in Seq(Packets) /\ \A i \in 1..Len(normal) : normal[i].kind = "benign"
  BY <1>1
<1>5. /\ flood \in Seq(Packets) /\ payload \in Seq(Packets)
      /\ exploit \in Seq(Packets) /\ scn \in Seq(Packets)
  BY Piece DEF AttackKinds
<1>6. FloodPiece(flood) /\ PayloadPiece(payload) /\ ExploitPiece(exploit) /\ ScanPiece(scn)
  BY Pieces
<1> QED BY <1>3, <1>4, <1>5, <1>6, LaidOut


-----------------------------------------------------------------------------
(* What the automaton finds in the payloads of the simulator. *)

\* The m pieces of the pattern are those of the payload from its i-th on.
Matches(pattern, payload, i, m) ==
  i + m - 1 <= Len(payload) /\ \A j \in 1..m : payload[i + j - 1] = pattern[j]

\* A pattern occurs where its pieces do.
LEMMA OccursElementwise ==
  ASSUME NEW S, NEW pattern \in Seq(S), NEW payload \in Seq(S), NEW i \in 1..Len(payload),
         NEW m, Len(pattern) = m
  PROVE  OccursAt(pattern, payload, i) <=> Matches(pattern, payload, i, m)
<1>1. m \in Nat /\ \E n \in Nat : n = Len(payload)
  BY LenProperties
<1>2. PICK n \in Nat : n = Len(payload)
  BY <1>1
<1>3. CASE ~(i + m - 1 <= n)
  BY <1>2, <1>3 DEF OccursAt, Matches
<1>4. CASE i + m - 1 <= n
  <2>1. PICK l \in Int : l = i + m - 1
    BY <1>1
  <2>2. \A j \in i..l : payload[j] \in S
    BY <1>1, <1>2, <1>4, <2>1, ElementOfSeq
  <2>3. l - i + 1 = m
    BY <1>1, <2>1
  <2>4. PICK part : part = SubSeq(payload, i, l)
    OBVIOUS
  <2>5. /\ part \in Seq(S) /\ Len(part) = m
        /\ \A j \in 1..m : part[j] = payload[i + j - 1]
    <3>1. /\ part \in Seq(S) /\ Len(part) = IF i <= l THEN l - i + 1 ELSE 0
          /\ \A j \in 1..(l - i + 1) : part[j] = payload[i + j - 1]
      BY <2>1, <2>2, <2>4, SubSeqProperties
    <3> QED BY <1>1, <2>1, <2>3, <3>1
  <2>6. part = pattern <=> \A j \in 1..m : part[j] = pattern[j]
    BY <2>5, SeqEqual
  <2>7. OccursAt(pattern, payload, i) <=> part = pattern
    BY <1>2, <1>4, <2>1, <2>4 DEF OccursAt
  <2>8. Matches(pattern, payload, i, m) <=> \A j \in 1..m : part[j] = pattern[j]
    BY <1>2, <1>4, <2>5 DEF Matches
  <2> QED BY <2>6, <2>7, <2>8
<1> QED BY <1>3, <1>4

\* A pattern of one piece occurs where that piece is, one of four where its
\* pieces are.
LEMMA OccursOne ==
  ASSUME NEW S, NEW p \in Seq(S), Len(p) = 1,
         NEW payload \in Seq(S), NEW i \in 1..Len(payload)
  PROVE  OccursAt(p, payload, i) <=> payload[i] = p[1]
<1>1. PICK n \in Nat : n = Len(payload)
  BY LenProperties
<1>2. i + 1 - 1 = i /\ i <= n
  BY <1>1
<1>3. \A j \in 1..1 : j = 1
  OBVIOUS
<1>4. OccursAt(p, payload, i) <=> Matches(p, payload, i, 1)
  BY OccursElementwise
<1>5. (\A j \in 1..1 : payload[i + j - 1] = p[j]) <=> payload[i] = p[1]
  BY <1>2, <1>3
<1> QED BY <1>1, <1>2, <1>4, <1>5 DEF Matches

LEMMA OccursFour ==
  ASSUME NEW S, NEW p \in Seq(S), Len(p) = 4,
         NEW payload \in Seq(S), NEW i \in 1..Len(payload)
  PROVE  OccursAt(p, payload, i) <=>
           /\ i + 3 <= Len(payload)
           /\ payload[i] = p[1] /\ payload[i + 1] = p[2]
           /\ payload[i + 2] = p[3] /\ payload[i + 3] = p[4]
<1>1. Len(payload) \in Nat
  BY LenProperties
<1>2. OccursAt(p, payload, i) <=> Matches(p, payload, i, 4)
  BY OccursElementwise
<1>3. (\A j \in 1..4 : payload[i + j - 1] = p[j]) <=>
        /\ payload[i] = p[1] /\ payload[i + 1] = p[2]
        /\ payload[i + 2] = p[3] /\ payload[i + 3] = p[4]
  <2>1. \A j \in 1..4 : j = 1 \/ j = 2 \/ j = 3 \/ j = 4
    OBVIOUS
  <2>2. i + 1 - 1 = i /\ i + 2 - 1 = i + 1 /\ i + 3 - 1 = i + 2 /\ i + 4 - 1 = i + 3
    OBVIOUS
  <2>3. 1 \in 1..4 /\ 2 \in 1..4 /\ 3 \in 1..4 /\ 4 \in 1..4
    OBVIOUS
  <2> QED BY <2>1, <2>2, <2>3
<1>4. i + 4 - 1 = i + 3
  OBVIOUS
<1> QED BY <1>2, <1>3, <1>4 DEF Matches

\* The pieces of the patterns and of the payloads.
Texts == {"/", "etc", "passwd", "UNION SELECT", "<script>alert(", "cmd.exe", "..", "GET ",
          "index.html"}

LEMMA TraversalPieces ==
  /\ Traversal \in Seq(Texts) /\ Len(Traversal) = 9
  /\ Traversal[1] = "GET " /\ Traversal[2] = "/" /\ Traversal[3] = ".."
  /\ Traversal[4] = "/" /\ Traversal[5] = ".." /\ Traversal[6] = "/"
  /\ Traversal[7] = "etc" /\ Traversal[8] = "/" /\ Traversal[9] = "passwd"
<1>1. /\ Len(Traversal) = 9
      /\ Traversal[1] = "GET " /\ Traversal[2] = "/" /\ Traversal[3] = ".."
      /\ Traversal[4] = "/" /\ Traversal[5] = ".." /\ Traversal[6] = "/"
      /\ Traversal[7] = "etc" /\ Traversal[8] = "/" /\ Traversal[9] = "passwd"
  BY DEF Traversal
<1>2. Traversal \in Seq(Texts)
  BY DEF Traversal, Texts
<1> QED BY <1>1, <1>2

LEMMA RequestPieces ==
  /\ Request \in Seq(Texts) /\ Len(Request) = 3
  /\ Request[1] = "GET " /\ Request[2] = "/" /\ Request[3] = "index.html"
BY DEF Request, Texts

LEMMA PatternPieces ==
  /\ SignatureRules = {"path_traversal_passwd", "sql_injection_union", "xss_script_tag",
                       "windows_cmd_exec", "path_traversal_generic"}
  /\ \A rule \in SignatureRules : patterns[rule] \in Seq(Texts)
  /\ LET p == patterns["path_traversal_passwd"]
     IN Len(p) = 4 /\ p[1] = "/" /\ p[2] = "etc" /\ p[3] = "/" /\ p[4] = "passwd"
  /\ LET p == patterns["path_traversal_generic"]
     IN Len(p) = 4 /\ p[1] = ".." /\ p[2] = "/" /\ p[3] = ".." /\ p[4] = "/"
  /\ LET p == patterns["sql_injection_union"] IN Len(p) = 1 /\ p[1] = "UNION SELECT"
  /\ LET p == patterns["xss_script_tag"] IN Len(p) = 1 /\ p[1] = "<script>alert("
  /\ LET p == patterns["windows_cmd_exec"] IN Len(p) = 1 /\ p[1] = "cmd.exe"
<1>1. /\ SignatureRules = {"path_traversal_passwd", "sql_injection_union",
           "xss_script_tag", "windows_cmd_exec", "path_traversal_generic"}
      /\ patterns["path_traversal_passwd"] = <<"/", "etc", "/", "passwd">>
      /\ patterns["sql_injection_union"] = <<"UNION SELECT">>
      /\ patterns["xss_script_tag"] = <<"<script>alert(">>
      /\ patterns["windows_cmd_exec"] = <<"cmd.exe">>
      /\ patterns["path_traversal_generic"] = <<"..", "/", "..", "/">>
  BY DEF SignatureRules, patterns
<1>2. /\ <<"/", "etc", "/", "passwd">> \in Seq(Texts)
      /\ <<"UNION SELECT">> \in Seq(Texts)
      /\ <<"<script>alert(">> \in Seq(Texts)
      /\ <<"cmd.exe">> \in Seq(Texts)
      /\ <<"..", "/", "..", "/">> \in Seq(Texts)
  BY DEF Texts
<1>3. \A rule \in SignatureRules : patterns[rule] \in Seq(Texts)
  BY <1>1, <1>2
<1>4. LET p == patterns["path_traversal_passwd"]
      IN Len(p) = 4 /\ p[1] = "/" /\ p[2] = "etc" /\ p[3] = "/" /\ p[4] = "passwd"
  <2>1. PICK p : p = <<"/", "etc", "/", "passwd">>
    OBVIOUS
  <2>2. Len(p) = 4 /\ p[1] = "/" /\ p[2] = "etc" /\ p[3] = "/" /\ p[4] = "passwd"
    BY <2>1
  <2> QED BY <1>1, <2>1, <2>2
<1>5. LET p == patterns["path_traversal_generic"]
      IN Len(p) = 4 /\ p[1] = ".." /\ p[2] = "/" /\ p[3] = ".." /\ p[4] = "/"
  <2>1. PICK p : p = <<"..", "/", "..", "/">>
    OBVIOUS
  <2>2. Len(p) = 4 /\ p[1] = ".." /\ p[2] = "/" /\ p[3] = ".." /\ p[4] = "/"
    BY <2>1
  <2> QED BY <1>1, <2>1, <2>2
<1>6. LET p == patterns["sql_injection_union"] IN Len(p) = 1 /\ p[1] = "UNION SELECT"
  <2>1. PICK p : p = <<"UNION SELECT">>
    OBVIOUS
  <2>2. Len(p) = 1 /\ p[1] = "UNION SELECT"
    BY <2>1
  <2> QED BY <1>1, <2>1, <2>2
<1>7. LET p == patterns["xss_script_tag"] IN Len(p) = 1 /\ p[1] = "<script>alert("
  <2>1. PICK p : p = <<"<script>alert(">>
    OBVIOUS
  <2>2. Len(p) = 1 /\ p[1] = "<script>alert("
    BY <2>1
  <2> QED BY <1>1, <2>1, <2>2
<1>8. LET p == patterns["windows_cmd_exec"] IN Len(p) = 1 /\ p[1] = "cmd.exe"
  <2>1. PICK p : p = <<"cmd.exe">>
    OBVIOUS
  <2>2. Len(p) = 1 /\ p[1] = "cmd.exe"
    BY <2>1
  <2> QED BY <1>1, <2>1, <2>2
<1> QED BY <1>1, <1>3, <1>4, <1>5, <1>6, <1>7, <1>8

\* The four pieces of the long patterns, from the i-th of the payload on.
GenericAt(q, i) ==
  i + 3 <= Len(q) /\ q[i] = ".." /\ q[i + 1] = "/" /\ q[i + 2] = ".." /\ q[i + 3] = "/"
PasswdAt(q, i) ==
  i + 3 <= Len(q) /\ q[i] = "/" /\ q[i + 1] = "etc" /\ q[i + 2] = "/" /\ q[i + 3] = "passwd"

\* Where a rule's pattern occurs: its pieces are found one behind the other.
LEMMA PatternOccurs ==
  ASSUME NEW payload \in Seq(Texts), NEW i \in 1..Len(payload)
  PROVE  /\ OccursAt(patterns["path_traversal_passwd"], payload, i) <=> PasswdAt(payload, i)
         /\ OccursAt(patterns["path_traversal_generic"], payload, i) <=> GenericAt(payload, i)
         /\ OccursAt(patterns["sql_injection_union"], payload, i) <=> payload[i] = "UNION SELECT"
         /\ OccursAt(patterns["xss_script_tag"], payload, i) <=> payload[i] = "<script>alert("
         /\ OccursAt(patterns["windows_cmd_exec"], payload, i) <=> payload[i] = "cmd.exe"
<1>0. \A rule \in SignatureRules : patterns[rule] \in Seq(Texts)
  BY PatternPieces
<1>1. OccursAt(patterns["path_traversal_passwd"], payload, i) <=> PasswdAt(payload, i)
  <2>1. PICK p \in Seq(Texts) : p = patterns["path_traversal_passwd"]
    BY <1>0, PatternPieces
  <2>2. Len(p) = 4 /\ p[1] = "/" /\ p[2] = "etc" /\ p[3] = "/" /\ p[4] = "passwd"
    BY <2>1, PatternPieces
  <2>3. OccursAt(p, payload, i) <=>
           /\ i + 3 <= Len(payload)
           /\ payload[i] = p[1] /\ payload[i + 1] = p[2]
           /\ payload[i + 2] = p[3] /\ payload[i + 3] = p[4]
    BY <2>2, OccursFour
  <2> QED BY <2>1, <2>2, <2>3 DEF PasswdAt
<1>2. OccursAt(patterns["path_traversal_generic"], payload, i) <=> GenericAt(payload, i)
  <2>1. PICK p \in Seq(Texts) : p = patterns["path_traversal_generic"]
    BY <1>0, PatternPieces
  <2>2. Len(p) = 4 /\ p[1] = ".." /\ p[2] = "/" /\ p[3] = ".." /\ p[4] = "/"
    BY <2>1, PatternPieces
  <2>3. OccursAt(p, payload, i) <=>
           /\ i + 3 <= Len(payload)
           /\ payload[i] = p[1] /\ payload[i + 1] = p[2]
           /\ payload[i + 2] = p[3] /\ payload[i + 3] = p[4]
    BY <2>2, OccursFour
  <2> QED BY <2>1, <2>2, <2>3 DEF GenericAt
<1>3. OccursAt(patterns["sql_injection_union"], payload, i) <=> payload[i] = "UNION SELECT"
  <2>1. PICK p \in Seq(Texts) : p = patterns["sql_injection_union"]
    BY <1>0, PatternPieces
  <2>2. Len(p) = 1 /\ p[1] = "UNION SELECT"
    BY <2>1, PatternPieces
  <2>3. OccursAt(p, payload, i) <=> payload[i] = p[1]
    BY <2>2, OccursOne
  <2> QED BY <2>1, <2>2, <2>3
<1>4. OccursAt(patterns["xss_script_tag"], payload, i) <=> payload[i] = "<script>alert("
  <2>1. PICK p \in Seq(Texts) : p = patterns["xss_script_tag"]
    BY <1>0, PatternPieces
  <2>2. Len(p) = 1 /\ p[1] = "<script>alert("
    BY <2>1, PatternPieces
  <2>3. OccursAt(p, payload, i) <=> payload[i] = p[1]
    BY <2>2, OccursOne
  <2> QED BY <2>1, <2>2, <2>3
<1>5. OccursAt(patterns["windows_cmd_exec"], payload, i) <=> payload[i] = "cmd.exe"
  <2>1. PICK p \in Seq(Texts) : p = patterns["windows_cmd_exec"]
    BY <1>0, PatternPieces
  <2>2. Len(p) = 1 /\ p[1] = "cmd.exe"
    BY <2>1, PatternPieces
  <2>3. OccursAt(p, payload, i) <=> payload[i] = p[1]
    BY <2>2, OccursOne
  <2> QED BY <2>1, <2>2, <2>3
<1> QED BY <1>1, <1>2, <1>3, <1>4, <1>5


\* An occurrence: the i-th piece of the payload is the first of the rule's.
FoundAt(o, payload, rule, i) ==
  /\ OccursAt(patterns[rule], payload, i)
  /\ o = [rule |-> rule, from |-> i, to |-> i + Len(patterns[rule]) - 1]

LEMMA InOccurrences ==
  ASSUME NEW payload \in Seq(Texts), NEW o
  PROVE  o \in Occurrences(payload) <=>
           \E rule \in SignatureRules, i \in 1..Len(payload) : FoundAt(o, payload, rule, i)
<1>1. DOMAIN payload = 1..Len(payload)
  OBVIOUS
<1>2. ASSUME NEW x \in SignatureRules \X DOMAIN payload,
             OccursAt(patterns[x[1]], payload, x[2]),
             o = [rule |-> x[1], from |-> x[2], to |-> x[2] + Len(patterns[x[1]]) - 1]
      PROVE  \E rule \in SignatureRules, i \in 1..Len(payload) : FoundAt(o, payload, rule, i)
  <2>1. x[1] \in SignatureRules /\ x[2] \in 1..Len(payload)
    BY <1>1
  <2> QED BY <1>2, <2>1 DEF FoundAt
<1>3. ASSUME NEW rule \in SignatureRules, NEW i \in 1..Len(payload),
             FoundAt(o, payload, rule, i)
      PROVE  o \in Occurrences(payload)
  <2>1. PICK x : x = <<rule, i>>
    OBVIOUS
  <2>2. x \in SignatureRules \X DOMAIN payload /\ x[1] = rule /\ x[2] = i
    BY <1>1, <2>1
  <2> QED BY <1>3, <2>2 DEF FoundAt, Occurrences
<1> QED BY <1>2, <1>3 DEF Occurrences

LEMMA TraversalMatches ==
  ASSUME NEW i \in 1..9
  PROVE  /\ GenericAt(Traversal, i) <=> i = 3
         /\ PasswdAt(Traversal, i) <=> i = 6
         /\ Traversal[i] \notin {"UNION SELECT", "<script>alert(", "cmd.exe"}
<1> DEFINE Alone(q, k) == /\ GenericAt(q, k) <=> k = 3
                          /\ PasswdAt(q, k) <=> k = 6
                          /\ q[k] \notin {"UNION SELECT", "<script>alert(", "cmd.exe"}
<1>1. PICK q : q = Traversal
  OBVIOUS
<1>2. /\ Len(q) = 9
      /\ q[1] = "GET " /\ q[2] = "/" /\ q[3] = ".." /\ q[4] = "/" /\ q[5] = ".." /\ q[6] = "/"
      /\ q[7] = "etc" /\ q[8] = "/" /\ q[9] = "passwd"
  BY <1>1, TraversalPieces
<1>3. Alone(q, 1)
  BY <1>2 DEF GenericAt, PasswdAt
<1>4. Alone(q, 2)
  <2>1. 2 + 1 = 3
    OBVIOUS
  <2> QED BY <1>2, <2>1 DEF GenericAt, PasswdAt
<1>5. Alone(q, 3)
  <2>1. 3 + 1 = 4 /\ 3 + 2 = 5 /\ 3 + 3 = 6 /\ 6 <= 9
    OBVIOUS
  <2> QED BY <1>2, <2>1 DEF GenericAt, PasswdAt
<1>6. Alone(q, 4)
  <2>1. 4 + 1 = 5
    OBVIOUS
  <2> QED BY <1>2, <2>1 DEF GenericAt, PasswdAt
<1>7. Alone(q, 5)
  <2>1. 5 + 2 = 7
    OBVIOUS
  <2> QED BY <1>2, <2>1 DEF GenericAt, PasswdAt
<1>8. Alone(q, 6)
  <2>1. 6 + 1 = 7 /\ 6 + 2 = 8 /\ 6 + 3 = 9 /\ 9 <= 9
    OBVIOUS
  <2> QED BY <1>2, <2>1 DEF GenericAt, PasswdAt
<1>9. Alone(q, 7)
  <2>1. ~(7 + 3 <= 9)
    OBVIOUS
  <2> QED BY <1>2, <2>1 DEF GenericAt, PasswdAt
<1>10. Alone(q, 8)
  <2>1. ~(8 + 3 <= 9)
    OBVIOUS
  <2> QED BY <1>2, <2>1 DEF GenericAt, PasswdAt
<1>11. Alone(q, 9)
  <2>1. ~(9 + 3 <= 9)
    OBVIOUS
  <2> QED BY <1>2, <2>1 DEF GenericAt, PasswdAt
<1> HIDE DEF Alone
<1>12. i = 1 \/ i = 2 \/ i = 3 \/ i = 4 \/ i = 5 \/ i = 6 \/ i = 7 \/ i = 8 \/ i = 9
  OBVIOUS
<1>13. Alone(q, i)
  BY <1>3, <1>4, <1>5, <1>6, <1>7, <1>8, <1>9, <1>10, <1>11, <1>12
<1> QED BY <1>1, <1>13 DEF Alone

LEMMA TraversalOccurs ==
  Occurrences(Traversal) =
    {[rule |-> "path_traversal_generic", from |-> 3, to |-> 6],
     [rule |-> "path_traversal_passwd", from |-> 6, to |-> 9]}
<1> DEFINE G == [rule |-> "path_traversal_generic", from |-> 3, to |-> 6]
           P == [rule |-> "path_traversal_passwd", from |-> 6, to |-> 9]
<1>1. PICK q : q = Traversal
  OBVIOUS
<1>2. q \in Seq(Texts) /\ Len(q) = 9
  BY <1>1, TraversalPieces
<1>3. /\ Len(patterns["path_traversal_passwd"]) = 4
      /\ Len(patterns["path_traversal_generic"]) = 4
      /\ SignatureRules = {"path_traversal_passwd", "sql_injection_union", "xss_script_tag",
                           "windows_cmd_exec", "path_traversal_generic"}
  BY PatternPieces
<1>4. \A o : o \in Occurrences(q) <=> \E rule \in SignatureRules, i \in 1..9 : FoundAt(o, q, rule, i)
  BY <1>1, <1>2, InOccurrences
<1>5. \A i \in 1..9 :
        /\ OccursAt(patterns["path_traversal_passwd"], q, i) <=> i = 6
        /\ OccursAt(patterns["path_traversal_generic"], q, i) <=> i = 3
        /\ ~OccursAt(patterns["sql_injection_union"], q, i)
        /\ ~OccursAt(patterns["xss_script_tag"], q, i)
        /\ ~OccursAt(patterns["windows_cmd_exec"], q, i)
  BY <1>1, <1>2, PatternOccurs, TraversalMatches
<1>6. FoundAt(G, q, "path_traversal_generic", 3) /\ FoundAt(P, q, "path_traversal_passwd", 6)
  BY <1>1, <1>3, <1>5 DEF FoundAt
<1>7. ASSUME NEW o, NEW rule \in SignatureRules, NEW i \in 1..9, FoundAt(o, q, rule, i)
      PROVE  o = G \/ o = P
  <2>1. \/ rule = "path_traversal_generic" /\ i = 3
        \/ rule = "path_traversal_passwd" /\ i = 6
    BY <1>1, <1>3, <1>5, <1>7 DEF FoundAt
  <2>2. CASE rule = "path_traversal_generic" /\ i = 3
    <3>1. o = [rule |-> rule, from |-> i, to |-> i + 4 - 1]
      BY <1>3, <1>7, <2>2 DEF FoundAt
    <3> QED BY <2>2, <3>1
  <2>3. CASE rule = "path_traversal_passwd" /\ i = 6
    <3>1. o = [rule |-> rule, from |-> i, to |-> i + 4 - 1]
      BY <1>3, <1>7, <2>3 DEF FoundAt
    <3> QED BY <2>3, <3>1
  <2> QED BY <2>1, <2>2, <2>3
<1> HIDE DEF G, P
<1>8. G \in Occurrences(q) /\ P \in Occurrences(q)
  BY <1>3, <1>4, <1>6
<1>9. \A o \in Occurrences(q) : o = G \/ o = P
  BY <1>4, <1>7
<1>10. Occurrences(Traversal) = {G, P}
  BY <1>1, <1>8, <1>9
<1> QED BY <1>10 DEF G, P

LEMMA NothingElseOccurs ==
  Occurrences(Request) = {} /\ Occurrences(<<>>) = {}
<1>1. Occurrences(<<>>) = {}
  BY DEF Occurrences
<1>2. PICK q : q = Request
  OBVIOUS
<1>3. q \in Seq(Texts) /\ Len(q) = 3 /\ q[1] = "GET " /\ q[2] = "/" /\ q[3] = "index.html"
  BY <1>2, RequestPieces
<1>4. ASSUME NEW rule \in SignatureRules, NEW i \in 1..3, OccursAt(patterns[rule], q, i)
      PROVE  FALSE
  <2>0. ~(i + 3 <= 3)
    OBVIOUS
  <2>1. ~GenericAt(q, i) /\ ~PasswdAt(q, i)
    BY <1>3, <2>0 DEF GenericAt, PasswdAt
  <2>2. q[i] \notin {"UNION SELECT", "<script>alert(", "cmd.exe"}
    <3>1. i = 1 \/ i = 2 \/ i = 3
      OBVIOUS
    <3> QED BY <1>3, <3>1
  <2>3. /\ ~OccursAt(patterns["path_traversal_passwd"], q, i)
        /\ ~OccursAt(patterns["path_traversal_generic"], q, i)
        /\ ~OccursAt(patterns["sql_injection_union"], q, i)
        /\ ~OccursAt(patterns["xss_script_tag"], q, i)
        /\ ~OccursAt(patterns["windows_cmd_exec"], q, i)
    BY <1>3, <2>1, <2>2, PatternOccurs
  <2> QED BY <1>4, <2>3, PatternPieces
<1>5. \A o : o \notin Occurrences(q)
  <2>1. \A o : o \in Occurrences(q) <=>
          \E rule \in SignatureRules, i \in 1..Len(q) : FoundAt(o, q, rule, i)
    BY <1>3, InOccurrences
  <2>2. \A rule \in SignatureRules, i \in 1..Len(q) : ~OccursAt(patterns[rule], q, i)
    BY <1>3, <1>4
  <2>3. \A o : \A rule \in SignatureRules, i \in 1..Len(q) : ~FoundAt(o, q, rule, i)
    BY <2>2 DEF FoundAt
  <2> QED BY <2>1, <2>3
<1>6. Occurrences(Request) = {}
  BY <1>2, <1>5
<1> QED BY <1>1, <1>6

LEMMA PairCardinality ==
  ASSUME NEW a, NEW b, a # b
  PROVE  Cardinality({a}) = 1 /\ Cardinality({a, b}) = 2
<1>1. IsFiniteSet({a}) /\ Cardinality({a}) = 1
  BY FS_Singleton
<1>2. Cardinality({a} \cup {b}) = 1 + 1
  BY <1>1, FS_AddElement
<1>3. {a} \cup {b} = {a, b}
  OBVIOUS
<1> QED BY <1>1, <1>2, <1>3

\* The traversal is reported under both rules, in the order in which the
\* patterns end; no other payload is reported.
LEMMA ScanFinds ==
  ASSUME NEW p, p.payload_sample \in {<<>>, Request, Traversal}
  PROVE  /\ scan(p) \in Seq(SignatureRules)
         /\ p.payload_sample = Traversal =>
              /\ Len(scan(p)) = 2
              /\ scan(p)[1] = "path_traversal_generic" /\ scan(p)[2] = "path_traversal_passwd"
         /\ p.payload_sample # Traversal => Len(scan(p)) = 0
<1> DEFINE found == Found(p.payload_sample)
           Ended(o) == Cardinality({q \in found : q.to <= o.to})
           Nth(n) == CHOOSE o \in found : Ended(o) = n
<1>1. scan(p) = [n \in 1..Cardinality(found) |-> Nth(n).rule]
  BY DEF scan
<1>2. CASE p.payload_sample = Traversal
  <2>1. PICK g, w : /\ g = [rule |-> "path_traversal_generic", from |-> 3, to |-> 6]
                    /\ w = [rule |-> "path_traversal_passwd", from |-> 6, to |-> 9]
    OBVIOUS
  <2>2. found = {g, w} /\ g.to = 6 /\ w.to = 9 /\ g # w
    BY <1>2, <2>1, TraversalOccurs DEF Found
  <2>3. {q \in found : q.to <= g.to} = {g} /\ {q \in found : q.to <= w.to} = {g, w}
    BY <2>2
  <2>4. Ended(g) = 1 /\ Ended(w) = 2 /\ Cardinality(found) = 2
    <3>1. Cardinality({g}) = 1 /\ Cardinality({g, w}) = 2
      BY <2>2, PairCardinality
    <3> QED BY <2>2, <2>3, <3>1
  <2> HIDE DEF Ended, found
  <2>5. Nth(1) = g /\ Nth(2) = w
    BY <2>2, <2>4
  <2> HIDE DEF Nth
  <2>6. PICK s : s = scan(p)
    OBVIOUS
  <2>7. s = [n \in 1..2 |-> Nth(n).rule]
    BY <1>1, <2>4, <2>6
  <2>8. s[1] = "path_traversal_generic" /\ s[2] = "path_traversal_passwd"
    <3>1. s[1] = g.rule /\ s[2] = w.rule
      BY <2>5, <2>7
    <3> QED BY <2>1, <3>1
  <2>9. s \in [1..2 -> SignatureRules]
    <3>1. \A n \in 1..2 : n = 1 \/ n = 2
      OBVIOUS
    <3>2. \A n \in 1..2 : s[n] \in SignatureRules
      BY <2>8, <3>1, PatternPieces
    <3>3. s = [n \in 1..2 |-> s[n]]
      BY <2>7
    <3> QED BY <3>2, <3>3
  <2>10. s \in Seq(SignatureRules) /\ Len(s) = 2
    <3>1. PICK k \in Nat : k = 2
      OBVIOUS
    <3>2. s \in [1..k -> SignatureRules]
      BY <2>9, <3>1
    <3>3. s \in Seq(SignatureRules)
      BY <3>2, SeqDef
    <3>4. Len(s) = k
      BY <3>2
    <3> QED BY <3>1, <3>3, <3>4
  <2> QED BY <1>2, <2>6, <2>8, <2>10
<1>3. CASE p.payload_sample # Traversal
  <2>1. found = {}
    BY <1>3, NothingElseOccurs DEF Found
  <2>2. Cardinality(found) = 0
    BY <2>1, FS_EmptySet
  <2>3. scan(p) = <<>>
    BY <1>1, <2>2
  <2> QED BY <1>3, <2>3
<1> QED BY <1>2, <1>3


-----------------------------------------------------------------------------
(* What a worker reports. *)

AlertRules == SignatureRules \cup {"syn_flood_anomaly", "port_scan_anomaly", CepRule}

\* alerts is found, followed by one alert of each rule that fires.
Reports(alerts, found, flood, portScan, sequence) ==
  alerts = found \o (IF flood THEN <<"syn_flood_anomaly">> ELSE <<>>)
                 \o (IF portScan THEN <<"port_scan_anomaly">> ELSE <<>>)
                 \o (IF sequence THEN <<CepRule>> ELSE <<>>)

\* t is s, of length n, and an alert of the rule if it fires.
Extends(t, s, n, fires, rule) ==
  /\ t \in Seq(AlertRules) /\ n <= Len(t)
  /\ \A i \in 1..n : t[i] = s[i]
  /\ \A i \in (n + 1)..Len(t) : fires /\ t[i] = rule
  /\ fires => n + 1 \in 1..Len(t) /\ t[n + 1] = rule

LEMMA OneMore ==
  ASSUME NEW s \in Seq(AlertRules), NEW rule \in AlertRules, NEW fires,
         NEW t, t = s \o (IF fires THEN <<rule>> ELSE <<>>)
  PROVE  Extends(t, s, Len(s), fires, rule)
<1>1. PICK n \in Nat : n = Len(s)
  BY LenProperties
<1>2. CASE fires
  <2>1. PICK r : r = <<rule>>
    OBVIOUS
  <2>2. r \in Seq(AlertRules) /\ Len(r) = 1 /\ r[1] = rule
    BY <2>1
  <2>3. t = s \o r
    BY <1>2, <2>1
  <2>4. t \in Seq(AlertRules) /\ Joins(t, s, r, n)
    BY <1>1, <2>2, <2>3, Joined
  <2>5. Len(t) = n + 1 /\ \A i \in 1..n : t[i] = s[i]
    BY <2>2, <2>4 DEF Joins
  <2>6. n + 1 - n = 1 /\ n + 1 \in (n + 1)..Len(t) /\ \A i \in (n + 1)..Len(t) : i = n + 1
    BY <2>5
  <2>7. t[n + 1] = rule
    BY <2>2, <2>4, <2>6 DEF Joins
  <2> QED BY <1>1, <1>2, <2>4, <2>5, <2>6, <2>7 DEF Extends
<1>3. CASE ~fires
  <2>1. t = s
    BY <1>3
  <2> QED BY <1>1, <1>3, <2>1 DEF Extends
<1> QED BY <1>2, <1>3

LEMMA ReportsAll ==
  ASSUME NEW found \in Seq(SignatureRules), NEW flood, NEW portScan, NEW sequence, NEW alerts,
         Reports(alerts, found, flood, portScan, sequence)
  PROVE  /\ alerts \in Seq(AlertRules)
         /\ Len(found) <= Len(alerts)
         /\ \A i \in 1..Len(found) : alerts[i] = found[i]
         /\ \A i \in (Len(found) + 1)..Len(alerts) : alerts[i] \notin SignatureRules
         /\ (\E i \in 1..Len(alerts) : alerts[i] = "syn_flood_anomaly") <=> flood
         /\ (\E i \in 1..Len(alerts) : alerts[i] = "port_scan_anomaly") <=> portScan
         /\ (\E i \in 1..Len(alerts) : alerts[i] = CepRule) <=> sequence
<1>1. PICK a, b : /\ a = found \o (IF flood THEN <<"syn_flood_anomaly">> ELSE <<>>)
                  /\ b = a \o (IF portScan THEN <<"port_scan_anomaly">> ELSE <<>>)
                  /\ alerts = b \o (IF sequence THEN <<CepRule>> ELSE <<>>)
  BY DEF Reports
<1>2. /\ found \in Seq(AlertRules) /\ "syn_flood_anomaly" \in AlertRules
      /\ "port_scan_anomaly" \in AlertRules /\ CepRule \in AlertRules
  BY DEF AlertRules
<1>3. /\ CepRule \notin SignatureRules /\ "syn_flood_anomaly" \notin SignatureRules
      /\ "port_scan_anomaly" \notin SignatureRules
      /\ CepRule # "syn_flood_anomaly" /\ CepRule # "port_scan_anomaly"
  BY PatternPieces DEF CepRule
<1>4. PICK n \in Nat : n = Len(found)
  BY LenProperties
<1>5. \A i \in 1..n : found[i] \in SignatureRules
  BY <1>4, ElementOfSeq
<1>6. /\ a \in Seq(AlertRules) /\ n <= Len(a)
      /\ \A i \in 1..n : a[i] = found[i]
      /\ \A i \in (n + 1)..Len(a) : flood /\ a[i] = "syn_flood_anomaly"
      /\ flood => n + 1 \in 1..Len(a) /\ a[n + 1] = "syn_flood_anomaly"
  <2>1. Extends(a, found, n, flood, "syn_flood_anomaly")
    BY <1>1, <1>2, <1>4, OneMore
  <2> QED BY <2>1 DEF Extends
<1>7. PICK k \in Nat : k = Len(a)
  BY <1>6, LenProperties
<1>8. /\ b \in Seq(AlertRules) /\ k <= Len(b)
      /\ \A i \in 1..k : b[i] = a[i]
      /\ \A i \in (k + 1)..Len(b) : portScan /\ b[i] = "port_scan_anomaly"
      /\ portScan => k + 1 \in 1..Len(b) /\ b[k + 1] = "port_scan_anomaly"
  <2>1. Extends(b, a, k, portScan, "port_scan_anomaly")
    BY <1>1, <1>2, <1>6, <1>7, OneMore
  <2> QED BY <2>1 DEF Extends
<1>9. PICK l \in Nat : l = Len(b)
  BY <1>8, LenProperties
<1>10. /\ alerts \in Seq(AlertRules) /\ l <= Len(alerts)
       /\ \A i \in 1..l : alerts[i] = b[i]
       /\ \A i \in (l + 1)..Len(alerts) : sequence /\ alerts[i] = CepRule
       /\ sequence => l + 1 \in 1..Len(alerts) /\ alerts[l + 1] = CepRule
  <2>1. Extends(alerts, b, l, sequence, CepRule)
    BY <1>1, <1>2, <1>8, <1>9, OneMore
  <2> QED BY <2>1 DEF Extends
<1>11. PICK o \in Nat : o = Len(alerts)
  BY <1>10, LenProperties
<1>12. n <= k /\ k <= l /\ l <= o
  BY <1>6, <1>7, <1>8, <1>9, <1>10, <1>11
<1>13. \A i \in 1..n : alerts[i] = found[i]
  BY <1>6, <1>7, <1>8, <1>9, <1>10, <1>12
<1>14. \A i \in (n + 1)..k : flood /\ alerts[i] = "syn_flood_anomaly"
  BY <1>6, <1>7, <1>8, <1>9, <1>10, <1>12
<1>15. \A i \in (k + 1)..l : portScan /\ alerts[i] = "port_scan_anomaly"
  BY <1>8, <1>9, <1>10, <1>12
<1>16. \A i \in (l + 1)..o : sequence /\ alerts[i] = CepRule
  BY <1>10, <1>11
<1>17. \A i \in 1..o : i \in 1..n \/ i \in (n + 1)..k \/ i \in (k + 1)..l \/ i \in (l + 1)..o
  BY <1>12
<1>18. \A i \in (n + 1)..o : i \in (n + 1)..k \/ i \in (k + 1)..l \/ i \in (l + 1)..o
  BY <1>12
<1>19. \A i \in (n + 1)..o : alerts[i] \notin SignatureRules
  BY <1>3, <1>14, <1>15, <1>16, <1>18
<1>20. ASSUME flood PROVE \E i \in 1..o : alerts[i] = "syn_flood_anomaly"
  <2>1. n + 1 \in (n + 1)..k
    BY <1>6, <1>7, <1>20
  <2>2. n + 1 \in 1..o
    BY <1>12, <2>1
  <2> QED BY <1>14, <2>1, <2>2
<1>21. ASSUME portScan PROVE \E i \in 1..o : alerts[i] = "port_scan_anomaly"
  <2>1. k + 1 \in (k + 1)..l
    BY <1>8, <1>9, <1>21
  <2>2. k + 1 \in 1..o
    BY <1>12, <2>1
  <2> QED BY <1>15, <2>1, <2>2
<1>22. ASSUME sequence PROVE \E i \in 1..o : alerts[i] = CepRule
  BY <1>10, <1>11, <1>22
<1>23. ASSUME NEW i \in 1..o
       PROVE  /\ alerts[i] = "syn_flood_anomaly" => flood
              /\ alerts[i] = "port_scan_anomaly" => portScan
              /\ alerts[i] = CepRule => sequence
  <2>1. CASE i \in 1..n
    BY <1>3, <1>5, <1>13, <2>1
  <2>2. CASE i \in (n + 1)..k
    BY <1>3, <1>14, <2>2
  <2>3. CASE i \in (k + 1)..l
    BY <1>3, <1>15, <2>3
  <2>4. CASE i \in (l + 1)..o
    BY <1>3, <1>16, <2>4
  <2> QED BY <1>17, <2>1, <2>2, <2>3, <2>4
<1> QED BY <1>4, <1>10, <1>11, <1>12, <1>13, <1>19, <1>20, <1>21, <1>22, <1>23

\* The alerts of a packet: those of its payload, then one for each detector that fires.
LEMMA AlertsOf ==
  ASSUME NEW w, NEW p, p.payload_sample \in {<<>>, Request, Traversal}, NEW alerts,
         alerts = Alerts(w, p)
  PROVE  /\ alerts \in Seq(AlertRules)
         /\ (\E i \in 1..Len(alerts) : alerts[i] = "syn_flood_anomaly") <=> Anomaly(w)!FloodFires(p)
         /\ (\E i \in 1..Len(alerts) : alerts[i] = "port_scan_anomaly") <=> Anomaly(w)!ScanFires(p)
         /\ (\E i \in 1..Len(alerts) : alerts[i] = CepRule) <=> Cep(w)!Fires(CepRule, p)
         /\ p.payload_sample = Traversal =>
              /\ 1 \in 1..Len(alerts) /\ alerts[1] = "path_traversal_generic"
              /\ 2 \in 1..Len(alerts) /\ alerts[2] = "path_traversal_passwd"
              /\ \A i \in 1..Len(alerts) : alerts[i] \in SignatureRules <=> i \in {1, 2}
<1>1. PICK found \in Seq(SignatureRules) : found = scan(p)
  BY ScanFinds
<1>2. Reports(alerts, found, Anomaly(w)!FloodFires(p), Anomaly(w)!ScanFires(p),
              Cep(w)!Fires(CepRule, p))
  BY <1>1 DEF Alerts, Reports
<1>3. ASSUME p.payload_sample = Traversal
      PROVE  /\ 1 \in 1..Len(alerts) /\ alerts[1] = "path_traversal_generic"
             /\ 2 \in 1..Len(alerts) /\ alerts[2] = "path_traversal_passwd"
             /\ \A i \in 1..Len(alerts) : alerts[i] \in SignatureRules <=> i \in {1, 2}
  <2>1. /\ Len(found) = 2
        /\ found[1] = "path_traversal_generic" /\ found[2] = "path_traversal_passwd"
    BY <1>1, <1>3, ScanFinds
  <2>2. /\ alerts \in Seq(AlertRules) /\ 2 <= Len(alerts)
        /\ \A i \in 1..2 : alerts[i] = found[i]
        /\ \A i \in (2 + 1)..Len(alerts) : alerts[i] \notin SignatureRules
    <3>1. /\ alerts \in Seq(AlertRules)
          /\ Len(found) <= Len(alerts)
          /\ \A i \in 1..Len(found) : alerts[i] = found[i]
          /\ \A i \in (Len(found) + 1)..Len(alerts) : alerts[i] \notin SignatureRules
      BY <1>1, <1>2, ReportsAll
    <3> QED BY <2>1, <3>1
  <2>3. Len(alerts) \in Nat
    BY <2>2, LenProperties
  <2>4. alerts[1] = "path_traversal_generic" /\ alerts[2] = "path_traversal_passwd"
    BY <2>1, <2>2
  <2>5. alerts[1] \in SignatureRules /\ alerts[2] \in SignatureRules
    BY <2>4, PatternPieces
  <2>6. \A i \in 1..Len(alerts) : i = 1 \/ i = 2 \/ i \in (2 + 1)..Len(alerts)
    BY <2>3
  <2>7. \A i \in 1..Len(alerts) : alerts[i] \in SignatureRules <=> i \in {1, 2}
    BY <2>2, <2>5, <2>6
  <2> QED BY <2>2, <2>3, <2>4, <2>7
<1> QED BY <1>2, <1>3, ReportsAll


-----------------------------------------------------------------------------
(* The variables and their types. *)

\* What the producer pushes, and what a worker keeps of an event it handled.
Arrivals == [tick : Nat, n : Nat, packet : Packets]
Entries == [event : Arrivals, alerts : Seq(AlertRules), at : Nat, window : Nat]

\* The fields of a detector.
Detectors ==
  [syn_counts : [Rows -> [Columns -> 0..CounterMax]],
   port_cardinality : [Sources -> SUBSET {Bucket[p] : p \in Nat}],
   alerted_flood_this_window : SUBSET Sources,
   alerted_scan_this_window : SUBSET Sources,
   window_start : Nat]

TrafficTypes ==
  /\ tick \in 0..MaxTicks /\ clock \in 0..MaxTime
  /\ batch \in Seq(Arrivals)
  /\ queues \in [Workers -> Seq(Arrivals)]
  /\ handled \in [Workers -> Seq(Entries)]

AnomalyTypes == anomaly \in [Workers -> Detectors]

\* What a worker writes down of an event it handles.
Entry(w, e) ==
  [event |-> e, alerts |-> Alerts(w, e.packet), at |-> clock,
   window |-> AnomalyAfter(w, e.packet).window_start]

\* Worker w handles e and writes down h.
Handling(w, e, h) ==
  /\ e \in Arrivals /\ h \in Entries /\ h = Entry(w, e)
  /\ queues[w] # <<>> /\ e = queues[w][1]
  /\ queues' \in [Workers -> Seq(Arrivals)] /\ queues'[w] = Tail(queues[w])
  /\ handled' \in [Workers -> Seq(Entries)] /\ handled'[w] = Append(handled[w], h)
  /\ anomaly' = [anomaly EXCEPT ![w] = AnomalyAfter(w, e.packet)]
  /\ cep' = [cep EXCEPT ![w] = Cep(w)!ActiveAfter(e.packet)]
  /\ \A v \in Workers : v # w => queues'[v] = queues[v] /\ handled'[v] = handled[v]
  /\ tick' = tick /\ batch' = batch /\ clock' = clock

LEMMA PacketTypes ==
  ASSUME NEW p \in Packets
  PROVE  /\ p.src_ip \in Sources /\ p.dst_port \in Nat
         /\ p.payload_sample \in {<<>>, Request, Traversal}
<1>1. p.src_ip \in Sources /\ p.payload_sample \in {<<>>, Request, Traversal}
  BY PacketFacts
<1>2. BenignPorts \subseteq Nat /\ 80 \in Nat /\ \A i \in DOMAIN ScannedPorts : ScannedPorts[i] \in Nat
  BY SimulatorAssumption, LenProperties, ElementOfSeq
<1>3. CASE p.kind # "scan"
  BY <1>1, <1>2, <1>3, PacketFacts
<1>4. CASE p.kind = "scan"
  <2>1. p \notin Benign("benign", Request)
    BY <1>4 DEF Benign, Packet
  <2>2. PICK kind \in AttackKinds : \E b \in Injections(kind) : \E i \in DOMAIN b : p = b[i]
    BY <2>1 DEF Packets, Attacks
  <2>3. PICK b \in Injections(kind) : \E i \in DOMAIN b : p = b[i]
    BY <2>2
  <2>4. p.dst_port = 80 \/ \E i \in DOMAIN ScannedPorts : p.dst_port = ScannedPorts[i]
    <3>1. CASE kind = "flood"
      <4>1. PICK s \in Attackers : b = [j \in 1..FloodBurst |-> Syn("flood", s, 80)]
        BY <2>3, <3>1 DEF Injections
      <4>2. p = Syn("flood", s, 80)
        BY <2>3, <4>1
      <4> QED BY <4>2 DEF Syn, Packet
    <3>2. CASE kind = "payload"
      <4>1. PICK y \in Benign("payload", Traversal) : b = <<y>>
        BY <2>3, <3>2 DEF Injections
      <4>2. p = y
        BY <2>3, <4>1
      <4> QED BY <1>4, <4>2 DEF Benign, Packet
    <3>3. CASE kind = "exploit"
      <4>1. PICK s \in Attackers : b = <<Syn("probe", s, 80), Exploit(s)>>
        BY <2>3, <3>3 DEF Injections, ProbeAndExploit
      <4>2. p = Syn("probe", s, 80) \/ p = Exploit(s)
        BY <2>3, <4>1
      <4> QED BY <4>2 DEF Syn, Exploit, Packet
    <3>4. CASE kind = "scan"
      <4>1. PICK s \in Attackers :
              b = [j \in DOMAIN ScannedPorts |-> Syn("scan", s, ScannedPorts[j])]
        BY <2>3, <3>4 DEF Injections
      <4>2. \E j \in DOMAIN ScannedPorts : p = Syn("scan", s, ScannedPorts[j])
        BY <2>3, <4>1
      <4> QED BY <4>2 DEF Syn, Packet
    <3> QED BY <3>1, <3>2, <3>3, <3>4 DEF AttackKinds
  <2> QED BY <1>1, <1>2, <2>4
<1> QED BY <1>3, <1>4

LEMMA WorkersAre ==
  /\ WORKER_COUNT \in Nat \ {0} /\ QUEUE_CAPACITY \in Nat \ {0} /\ MaxTime \in Nat /\ MaxTicks \in Nat
  /\ \A p \in Packets : ShardKey[p.src_ip] % WORKER_COUNT \in Workers
<1>1. /\ WORKER_COUNT \in Nat \ {0} /\ QUEUE_CAPACITY \in Nat \ {0}
      /\ MaxTime \in Nat /\ MaxTicks \in Nat
  BY EngineAssumption
<1>2. ASSUME NEW p \in Packets PROVE ShardKey[p.src_ip] % WORKER_COUNT \in Workers
  <2>1. PICK k \in Nat : k = ShardKey[p.src_ip]
    BY EngineAssumption, PacketTypes
  <2>2. k % WORKER_COUNT \in 0..(WORKER_COUNT - 1)
    BY <1>1
  <2> QED BY <2>1, <2>2 DEF Workers
<1> QED BY <1>1, <1>2

LEMMA HandleIs ==
  ASSUME TrafficTypes, AnomalyTypes, NEW w \in Workers, Handle(w)
  PROVE  \E e, h : Handling(w, e, h)
<1>1. PICK e : e = Head(queues[w])
  OBVIOUS
<1>2. PICK q \in Seq(Arrivals) : q = queues[w]
  BY DEF TrafficTypes
<1>3. q # <<>> /\ e = q[1] /\ e \in Arrivals /\ Tail(q) \in Seq(Arrivals)
  BY <1>1, <1>2, TailElements DEF Handle
<1>4. PICK h : h = Entry(w, e)
  OBVIOUS
<1>5. h \in Entries
  <2>1. e.packet.payload_sample \in {<<>>, Request, Traversal}
    BY <1>3, PacketTypes DEF Arrivals
  <2>2. Alerts(w, e.packet) \in Seq(AlertRules)
    BY <2>1, AlertsOf
  <2>3. clock \in Nat
    BY DEF TrafficTypes
  <2>4. anomaly[w].window_start \in Nat
    BY DEF AnomalyTypes, Detectors
  <2>5. AnomalyAfter(w, e.packet).window_start \in Nat
    BY <2>3, <2>4 DEF AnomalyAfter
  <2> QED BY <1>3, <1>4, <2>2, <2>3, <2>5 DEF Entry, Entries
<1>6. /\ queues' = [queues EXCEPT ![w] = Tail(q)]
      /\ handled' = [handled EXCEPT ![w] = Append(handled[w], h)]
      /\ anomaly' = [anomaly EXCEPT ![w] = AnomalyAfter(w, e.packet)]
      /\ cep' = [cep EXCEPT ![w] = Cep(w)!ActiveAfter(e.packet)]
      /\ tick' = tick /\ batch' = batch /\ clock' = clock
  BY <1>1, <1>2, <1>4 DEF Handle, Entry
<1>7. queues' \in [Workers -> Seq(Arrivals)] /\ queues'[w] = Tail(queues[w])
  BY <1>2, <1>3, <1>6 DEF TrafficTypes
<1>8. PICK log \in Seq(Entries) : log = handled[w]
  BY DEF TrafficTypes
<1>9. Append(log, h) \in Seq(Entries)
  BY <1>5, AppendElements
<1>10. handled' \in [Workers -> Seq(Entries)] /\ handled'[w] = Append(handled[w], h)
  BY <1>6, <1>8, <1>9 DEF TrafficTypes
<1>11. \A v \in Workers : v # w => queues'[v] = queues[v] /\ handled'[v] = handled[v]
  BY <1>6 DEF TrafficTypes
<1>12. queues[w] # <<>> /\ e = queues[w][1]
  BY <1>2, <1>3
<1>13. Handling(w, e, h)
  BY <1>3, <1>4, <1>5, <1>6, <1>7, <1>10, <1>11, <1>12 DEF Handling
<1> QED BY <1>13


\* A batch is made, and its events carry the tick and their places.
LEMMA BatchMade ==
  ASSUME TrafficTypes, NextBatch
  PROVE  /\ tick' = tick + 1 /\ tick' \in 1..MaxTicks /\ batch = <<>>
         /\ \E b \in Seq(Packets) :
              /\ b \in next_batch(tick') /\ batch' \in Seq(Arrivals) /\ Len(batch') = Len(b)
              /\ \A i \in 1..Len(b) : batch'[i] = [tick |-> tick', n |-> i, packet |-> b[i]]
<1>1. tick' = tick + 1 /\ tick' \in 1..MaxTicks /\ batch = <<>> /\ tick' \in Nat
  BY WorkersAre DEF TrafficTypes, NextBatch
<1>2. PICK b \in next_batch(tick') :
        batch' = [i \in DOMAIN b |-> [tick |-> tick', n |-> i, packet |-> b[i]]]
  BY DEF NextBatch
<1>3. b \in Seq(Packets)
  <2>1. \A t \in Nat : \A c \in next_batch(t) : c \in Seq(Packets)
    BY Batches DEF Laid
  <2> QED BY <1>1, <2>1
<1>4. PICK k \in Nat : k = Len(b)
  BY <1>3, LenProperties
<1>5. DOMAIN b = 1..k /\ \A i \in 1..k : b[i] \in Packets
  BY <1>3, <1>4, LenProperties, ElementOfSeq
<1>6. batch' \in [1..k -> Arrivals]
  <2>1. \A i \in 1..k : [tick |-> tick', n |-> i, packet |-> b[i]] \in Arrivals
    BY <1>1, <1>5 DEF Arrivals
  <2> QED BY <1>2, <1>5, <2>1
<1>7. batch' \in Seq(Arrivals) /\ Len(batch') = k
  BY <1>6, SeqDef
<1>8. \A i \in 1..k : batch'[i] = [tick |-> tick', n |-> i, packet |-> b[i]]
  BY <1>2, <1>5
<1> QED BY <1>1, <1>2, <1>3, <1>4, <1>7, <1>8

\* The first event of the batch is appended to its worker's queue or dropped.
Pushing(w, e) ==
  /\ w \in Workers /\ e \in Arrivals /\ batch # <<>> /\ e = batch[1] /\ w = Shard(e)
  /\ batch' \in Seq(Arrivals) /\ batch' = Tail(batch)
  /\ queues' \in [Workers -> Seq(Arrivals)]
  /\ queues'[w] = Append(queues[w], e) \/ queues'[w] = queues[w]
  /\ \A v \in Workers : v # w => queues'[v] = queues[v]
  /\ tick' = tick /\ handled' = handled /\ clock' = clock /\ anomaly' = anomaly /\ cep' = cep

LEMMA PushIs ==
  ASSUME TrafficTypes, Push
  PROVE  \E w, e : Pushing(w, e)
<1>1. PICK b \in Seq(Arrivals) : b = batch
  BY DEF TrafficTypes
<1>2. PICK e : e = Head(b)
  OBVIOUS
<1>3. b # <<>> /\ e \in Arrivals /\ e = b[1] /\ Tail(b) \in Seq(Arrivals)
  BY <1>1, <1>2, TailElements DEF Push
<1>4. PICK w : w = Shard(e)
  OBVIOUS
<1>5. w \in Workers
  BY <1>3, <1>4, WorkersAre DEF Shard, Arrivals
<1>6. PICK q \in Seq(Arrivals) : q = queues[w]
  BY <1>5 DEF TrafficTypes
<1>7. Append(q, e) \in Seq(Arrivals)
  BY <1>3, AppendElements
<1>8. queues' = [queues EXCEPT ![w] = Append(q, e)] \/ queues' = queues
  BY <1>1, <1>2, <1>4, <1>6 DEF Push
<1>9. /\ queues' \in [Workers -> Seq(Arrivals)]
      /\ queues'[w] = Append(queues[w], e) \/ queues'[w] = queues[w]
      /\ \A v \in Workers : v # w => queues'[v] = queues[v]
  BY <1>5, <1>6, <1>7, <1>8 DEF TrafficTypes
<1>10. /\ batch' = Tail(b)
       /\ tick' = tick /\ handled' = handled /\ clock' = clock /\ anomaly' = anomaly /\ cep' = cep
  BY <1>1 DEF Push
<1>11. Pushing(w, e)
  BY <1>1, <1>3, <1>4, <1>5, <1>9, <1>10 DEF Pushing
<1> QED BY <1>11

LEMMA InitTraffic ==
  ASSUME EngineInit
  PROVE  TrafficTypes
<1>1. tick = 0 /\ clock = 0 /\ 0 \in 0..MaxTicks /\ 0 \in 0..MaxTime
  BY WorkersAre DEF EngineInit
<1>2. batch = <<>> /\ batch \in Seq(Arrivals)
  BY DEF EngineInit
<1>3. queues \in [Workers -> Seq(Arrivals)]
  BY DEF EngineInit
<1>4. handled \in [Workers -> Seq(Entries)]
  BY DEF EngineInit
<1> QED BY <1>1, <1>2, <1>3, <1>4 DEF TrafficTypes

LEMMA NextTraffic ==
  ASSUME TrafficTypes, AnomalyTypes, [EngineNext]_engineVars
  PROVE  TrafficTypes'
<1>1. CASE UNCHANGED engineVars
  BY <1>1 DEF engineVars, TrafficTypes
<1>2. CASE NextBatch
  <2>1. tick' \in 0..MaxTicks /\ batch' \in Seq(Arrivals)
    <3>1. tick' \in 1..MaxTicks /\ batch' \in Seq(Arrivals)
      BY <1>2, BatchMade
    <3> QED BY <3>1, WorkersAre
  <2>2. queues' = queues /\ handled' = handled /\ clock' = clock
    BY <1>2 DEF NextBatch
  <2> QED BY <2>1, <2>2 DEF TrafficTypes
<1>3. CASE Push
  <2>1. PICK w, e : Pushing(w, e)
    BY <1>3, PushIs
  <2> QED BY <2>1 DEF Pushing, TrafficTypes
<1>4. CASE Tick
  <2>1. clock' \in 0..MaxTime
    BY <1>4, WorkersAre DEF Tick, TrafficTypes
  <2> QED BY <1>4, <2>1 DEF Tick, TrafficTypes
<1>5. ASSUME NEW w \in Workers, Handle(w) PROVE TrafficTypes'
  <2>1. PICK e, h : Handling(w, e, h)
    BY <1>5, HandleIs
  <2> QED BY <2>1 DEF Handling, TrafficTypes
<1> QED BY <1>1, <1>2, <1>3, <1>4, <1>5 DEF EngineNext

LEMMA InitAnomaly ==
  ASSUME EngineInit
  PROVE  AnomalyTypes
<1>1. 0 \in 0..CounterMax
  BY DetectorAssumption
<1> QED BY <1>1 DEF EngineInit, AnomalyTypes, Detectors

LEMMA AnomalyAfterType ==
  ASSUME NEW w \in Workers, anomaly[w] \in Detectors, clock \in Nat, NEW p \in Packets
  PROVE  AnomalyAfter(w, p) \in Detectors
<1>1. p.src_ip \in Sources /\ p.dst_port \in Nat
  BY PacketTypes
<1>2. /\ anomaly[w].syn_counts \in [Rows -> [Columns -> 0..CounterMax]]
      /\ anomaly[w].port_cardinality \in [Sources -> SUBSET {Bucket[q] : q \in Nat}]
      /\ anomaly[w].alerted_flood_this_window \in SUBSET Sources
      /\ anomaly[w].alerted_scan_this_window \in SUBSET Sources
      /\ anomaly[w].window_start \in Nat
  BY DEF Detectors
<1>3. CounterMax \in Nat \ {0}
  BY DetectorAssumption
<1>4. Anomaly(w)!Table \in [Rows -> [Columns -> 0..CounterMax]]
  BY <1>2, <1>3 DEF Anomaly!Table, Anomaly!EmptyTable
<1>5. Anomaly(w)!Counted(p) \in [Rows -> [Columns -> 0..CounterMax]]
  <2>1. PICK T \in [Rows -> [Columns -> 0..CounterMax]] : T = Anomaly(w)!Table
    BY <1>4
  <2>2. \A n \in 0..CounterMax : Anomaly(w)!saturating_add(n) \in 0..CounterMax
    BY <1>3 DEF Anomaly!saturating_add
  <2>3. Anomaly(w)!increment(T, p.src_ip) \in [Rows -> [Columns -> 0..CounterMax]]
    BY <2>2 DEF Anomaly!increment
  <2> QED BY <2>1, <2>3 DEF Anomaly!Counted
<1>6. \A s \in Sources : Anomaly(w)!Buckets(s) \in SUBSET {Bucket[q] : q \in Nat}
  BY <1>2 DEF Anomaly!Buckets
<1>7. Anomaly(w)!Filled(p) \in SUBSET {Bucket[q] : q \in Nat}
  BY <1>1, <1>6 DEF Anomaly!Filled
<1>8. Anomaly(w)!PortsAfter(p) \in [Sources -> SUBSET {Bucket[q] : q \in Nat}]
  BY <1>6, <1>7 DEF Anomaly!PortsAfter
<1>9. /\ Anomaly(w)!FloodedAfter(p) \in SUBSET Sources
      /\ Anomaly(w)!ScannedAfter(p) \in SUBSET Sources
  BY <1>1, <1>2 DEF Anomaly!FloodedAfter, Anomaly!ScannedAfter, Anomaly!Flooded, Anomaly!Scanned
<1>10. AnomalyAfter(w, p).window_start \in Nat
  BY <1>2 DEF AnomalyAfter
<1> QED BY <1>5, <1>8, <1>9, <1>10 DEF AnomalyAfter, Detectors

LEMMA NextAnomaly ==
  ASSUME TrafficTypes, AnomalyTypes, [EngineNext]_engineVars
  PROVE  AnomalyTypes'
<1>1. CASE anomaly' = anomaly
  BY <1>1 DEF AnomalyTypes
<1>2. ASSUME NEW w \in Workers, Handle(w) PROVE AnomalyTypes'
  <2>1. PICK e, h : Handling(w, e, h)
    BY <1>2, HandleIs
  <2>2. AnomalyAfter(w, e.packet) \in Detectors
    <3>1. e.packet \in Packets /\ clock \in Nat /\ anomaly[w] \in Detectors
      BY <2>1 DEF Handling, Arrivals, TrafficTypes, AnomalyTypes
    <3> QED BY <3>1, AnomalyAfterType
  <2>3. anomaly' = [anomaly EXCEPT ![w] = AnomalyAfter(w, e.packet)]
    BY <2>1 DEF Handling
  <2> QED BY <2>2, <2>3 DEF AnomalyTypes
<1> QED BY <1>1, <1>2 DEF EngineNext, NextBatch, Push, Tick, engineVars


EngineTypes == TrafficTypes /\ AnomalyTypes

\* Every variable keeps its type.
THEOREM EngineTypeCorrect == EngineSpec => []EngineTypes
<1>1. EngineInit => EngineTypes
  BY InitTraffic, InitAnomaly DEF EngineTypes
<1>2. EngineTypes /\ [EngineNext]_engineVars => EngineTypes'
  BY NextTraffic, NextAnomaly DEF EngineTypes
<1> QED BY <1>1, <1>2, PTL DEF EngineSpec

-----------------------------------------------------------------------------
(* What was handled before stays written down as it was. *)

LEMMA Entered ==
  ASSUME EngineTypes, NEW w \in Workers, NEW e, NEW h, Handling(w, e, h)
  PROVE  /\ Len(handled[w]) \in Nat /\ Len(handled'[w]) = Len(handled[w]) + 1
         /\ handled'[w][Len(handled[w]) + 1] = h
         /\ \A i \in 1..Len(handled[w]) : handled'[w][i] = handled[w][i]
         /\ \A i \in 1..Len(handled'[w]) : i \in 1..Len(handled[w]) \/ i = Len(handled[w]) + 1
         /\ \A v \in Workers : v # w => handled'[v] = handled[v]
<1>1. PICK log \in Seq(Entries) : log = handled[w]
  BY DEF EngineTypes, TrafficTypes
<1>2. handled'[w] = Append(log, h) /\ h \in Entries
  BY <1>1 DEF Handling
<1>3. /\ Len(log) \in Nat /\ Len(handled'[w]) = Len(log) + 1
      /\ handled'[w][Len(log) + 1] = h
      /\ \A i \in 1..Len(log) : handled'[w][i] = log[i]
  BY <1>2, AppendElements
<1>4. \A i \in 1..Len(handled'[w]) : i \in 1..Len(log) \/ i = Len(log) + 1
  BY <1>3
<1>5. \A v \in Workers : v # w => handled'[v] = handled[v]
  BY DEF Handling
<1> QED BY <1>1, <1>3, <1>4, <1>5

LEMMA Log ==
  ASSUME EngineTypes, NEW w \in Workers
  PROVE  /\ Len(handled[w]) \in Nat /\ DOMAIN handled[w] = 1..Len(handled[w])
         /\ \A i \in 1..Len(handled[w]) :
              /\ handled[w][i] \in Entries
              /\ handled[w][i].event \in Arrivals /\ handled[w][i].event.packet \in Packets
              /\ handled[w][i].at \in Nat /\ handled[w][i].window \in Nat
              /\ handled[w][i].event.tick \in Nat /\ handled[w][i].event.n \in Nat
              /\ handled[w][i].alerts \in Seq(AlertRules)
<1>1. handled[w] \in Seq(Entries)
  BY DEF EngineTypes, TrafficTypes
<1>2. Len(handled[w]) \in Nat /\ DOMAIN handled[w] = 1..Len(handled[w])
  BY <1>1, LenProperties
<1>3. \A i \in 1..Len(handled[w]) : handled[w][i] \in Entries
  BY <1>1, ElementOfSeq
<1> QED BY <1>2, <1>3 DEF Entries, Arrivals

\* Raised, in terms of places in the list of alerts.
LEMMA RaisedAt ==
  ASSUME NEW h \in Entries, NEW rule
  PROVE  Raised(h, rule) <=> \E i \in 1..Len(h.alerts) : h.alerts[i] = rule
<1>1. h.alerts \in Seq(AlertRules)
  BY DEF Entries
<1>2. DOMAIN h.alerts = 1..Len(h.alerts)
  BY <1>1, LenProperties
<1> QED BY <1>2 DEF Raised

\* What an entry says of the detectors that made it.
LEMMA EntryRaised ==
  ASSUME EngineTypes, NEW w \in Workers, NEW e, NEW h, Handling(w, e, h)
  PROVE  /\ e \in Arrivals /\ e.packet \in Packets /\ h \in Entries
         /\ h.event = e /\ h.at = clock /\ h.window = AnomalyAfter(w, e.packet).window_start
         /\ Raised(h, "syn_flood_anomaly") <=> Anomaly(w)!FloodFires(e.packet)
         /\ Raised(h, "port_scan_anomaly") <=> Anomaly(w)!ScanFires(e.packet)
         /\ Raised(h, CepRule) <=> Cep(w)!Fires(CepRule, e.packet)
<1>1. e \in Arrivals /\ e.packet \in Packets /\ h \in Entries /\ h = Entry(w, e)
  BY DEF Handling, Arrivals
<1>2. /\ h.event = e /\ h.at = clock /\ h.window = AnomalyAfter(w, e.packet).window_start
      /\ h.alerts = Alerts(w, e.packet)
  BY <1>1 DEF Entry
<1>3. e.packet.payload_sample \in {<<>>, Request, Traversal}
  BY <1>1, PacketTypes
<1>4. /\ (\E i \in 1..Len(h.alerts) : h.alerts[i] = "syn_flood_anomaly")
           <=> Anomaly(w)!FloodFires(e.packet)
      /\ (\E i \in 1..Len(h.alerts) : h.alerts[i] = "port_scan_anomaly")
           <=> Anomaly(w)!ScanFires(e.packet)
      /\ (\E i \in 1..Len(h.alerts) : h.alerts[i] = CepRule)
           <=> Cep(w)!Fires(CepRule, e.packet)
  BY <1>2, <1>3, AlertsOf
<1> QED BY <1>1, <1>2, <1>4, RaisedAt

-----------------------------------------------------------------------------
(* Every traversal is reported under both its rules. *)

\* The entry of a traversal has the two rules in front and no other signature.
BothFound(h) ==
  /\ 1 \in 1..Len(h.alerts) /\ h.alerts[1] = "path_traversal_generic"
  /\ 2 \in 1..Len(h.alerts) /\ h.alerts[2] = "path_traversal_passwd"
  /\ \A i \in 1..Len(h.alerts) : h.alerts[i] \in SignatureRules <=> i \in {1, 2}

TraversalInv ==
  \A w \in Workers : \A i \in 1..Len(handled[w]) :
    handled[w][i].event.packet.payload_sample = Traversal => BothFound(handled[w][i])

LEMMA NextTraversal ==
  ASSUME EngineTypes, TraversalInv, [EngineNext]_engineVars
  PROVE  TraversalInv'
<1>1. CASE handled' = handled
  BY <1>1 DEF TraversalInv
<1>2. ASSUME NEW w \in Workers, Handle(w) PROVE TraversalInv'
  <2>1. PICK e, h : Handling(w, e, h)
    BY <1>2, HandleIs DEF EngineTypes
  <2>2. h.event.packet.payload_sample = Traversal => BothFound(h)
    <3>1. h = Entry(w, e) /\ e.packet.payload_sample \in {<<>>, Request, Traversal}
      BY <2>1, PacketTypes DEF Handling, Arrivals
    <3>2. h.event = e /\ h.alerts = Alerts(w, e.packet)
      BY <3>1 DEF Entry
    <3> QED BY <3>1, <3>2, AlertsOf DEF BothFound
  <2> QED BY <2>1, <2>2, Entered DEF TraversalInv
<1> QED BY <1>1, <1>2 DEF EngineNext, NextBatch, Push, Tick, engineVars

LEMMA TraversalSuffices ==
  ASSUME EngineTypes, TraversalInv
  PROVE  TraversalReported
<1>1. SUFFICES ASSUME NEW w \in Workers, NEW i \in DOMAIN handled[w],
                      handled[w][i].event.packet.payload_sample = Traversal
               PROVE  /\ Raised(handled[w][i], "path_traversal_passwd")
                      /\ Raised(handled[w][i], "path_traversal_generic")
                      /\ Cardinality({j \in DOMAIN handled[w][i].alerts :
                                        handled[w][i].alerts[j] \in SignatureRules}) = 2
  BY DEF TraversalReported, Handled
<1>2. PICK h \in Entries : h = handled[w][i] /\ BothFound(h)
  BY <1>1, Log DEF TraversalInv
<1>3. Raised(h, "path_traversal_passwd") /\ Raised(h, "path_traversal_generic")
  BY <1>2, RaisedAt DEF BothFound
<1>4. DOMAIN h.alerts = 1..Len(h.alerts)
  BY LenProperties DEF Entries
<1>5. {j \in DOMAIN h.alerts : h.alerts[j] \in SignatureRules} = {1, 2}
  BY <1>2, <1>4 DEF BothFound
<1>6. Cardinality({1, 2}) = 2
  <2>1. 1 # 2
    OBVIOUS
  <2> QED BY <2>1, PairCardinality
<1> QED BY <1>2, <1>3, <1>5, <1>6

\* "which is exactly the kind of false negative a NIDS can't afford": every
\* traversal a worker handles raises both signatures, and no third.
THEOREM TraversalsReported == EngineSpec => []TraversalReported
<1>1. EngineInit => TraversalInv
  BY DEF EngineInit, TraversalInv
<1>2. TraversalInv /\ EngineTypes /\ [EngineNext]_engineVars => TraversalInv'
  BY NextTraversal
<1>3. TraversalInv /\ EngineTypes => TraversalReported
  BY TraversalSuffices
<1> QED BY <1>1, <1>2, <1>3, EngineTypeCorrect, PTL DEF EngineSpec


-----------------------------------------------------------------------------
(* The events a worker has received, in their order: those it has handled and, *)
(* behind them, those in its queue.  Handling one changes nothing of it.       *)

Received(w) == Len(handled[w]) + Len(queues[w])
Line(w) ==
  [i \in 1..Received(w) |->
     IF i <= Len(handled[w]) THEN handled[w][i].event ELSE queues[w][i - Len(handled[w])]]

LEMMA LineFacts ==
  ASSUME EngineTypes, NEW w \in Workers
  PROVE  /\ Received(w) \in Nat /\ Len(handled[w]) \in Nat /\ Len(handled[w]) <= Received(w)
         /\ Len(queues[w]) \in Nat /\ Received(w) = Len(handled[w]) + Len(queues[w])
         /\ Line(w) \in [1..Received(w) -> Arrivals]
         /\ \A i \in 1..Len(handled[w]) : i \in 1..Received(w) /\ Line(w)[i] = handled[w][i].event
         /\ \A i \in 1..Len(queues[w]) :
              /\ Len(handled[w]) + i \in 1..Received(w)
              /\ Line(w)[Len(handled[w]) + i] = queues[w][i]
<1>1. PICK q \in Seq(Arrivals) : q = queues[w]
  BY DEF EngineTypes, TrafficTypes
<1>2. PICK k \in Nat, m \in Nat : k = Len(handled[w]) /\ m = Len(q)
  BY Log, LenProperties
<1>3. Received(w) = k + m /\ k + m \in Nat /\ k <= k + m
  <2>1. k + m \in Nat /\ k <= k + m
    OBVIOUS
  <2> QED BY <1>1, <1>2, <2>1 DEF Received
<1>4. Line(w) = [i \in 1..(k + m) |-> IF i <= k THEN handled[w][i].event ELSE q[i - k]]
  BY <1>1, <1>2, <1>3 DEF Line
<1>5. ASSUME NEW i \in 1..k
      PROVE  i \in 1..(k + m) /\ Line(w)[i] = handled[w][i].event /\ Line(w)[i] \in Arrivals
  <2>1. i \in 1..(k + m) /\ i <= k
    BY <1>2
  <2>2. handled[w][i].event \in Arrivals
    BY <1>2, Log
  <2> QED BY <1>4, <2>1, <2>2
<1>6. ASSUME NEW i \in 1..m
      PROVE  k + i \in 1..(k + m) /\ Line(w)[k + i] = q[i] /\ Line(w)[k + i] \in Arrivals
  <2>1. k + i \in 1..(k + m) /\ ~(k + i <= k) /\ k + i - k = i
    BY <1>2
  <2>2. q[i] \in Arrivals
    BY <1>2, ElementOfSeq
  <2> QED BY <1>4, <2>1, <2>2
<1>7. \A j \in 1..(k + m) : j \in 1..k \/ \E i \in 1..m : j = k + i
  <2>1. ASSUME NEW j \in 1..(k + m), ~(j <= k) PROVE j - k \in 1..m /\ j = k + (j - k)
    BY <2>1
  <2>2. ASSUME NEW j \in 1..(k + m), j <= k PROVE j \in 1..k
    BY <2>2
  <2> QED BY <2>1, <2>2
<1>8. \A j \in 1..(k + m) : Line(w)[j] \in Arrivals
  BY <1>5, <1>6, <1>7
<1>9. Line(w) \in [1..(k + m) -> Arrivals]
  <2>1. PICK f : f = Line(w) /\ f = [j \in 1..(k + m) |-> f[j]]
    BY <1>4
  <2> QED BY <1>8, <2>1
<1>10. /\ \A i \in 1..k : i \in 1..(k + m) /\ Line(w)[i] = handled[w][i].event
       /\ \A i \in 1..m : k + i \in 1..(k + m) /\ Line(w)[k + i] = q[i]
  BY <1>5, <1>6
<1> QED BY <1>1, <1>2, <1>3, <1>9, <1>10

\* A line is determined by what is handled and queued.
LEMMA LineSame ==
  ASSUME NEW w, handled'[w] = handled[w], queues'[w] = queues[w]
  PROVE  Line(w)' = Line(w) /\ Received(w)' = Received(w)
BY DEF Line, Received

LEMMA HandledLine ==
  ASSUME EngineTypes, EngineTypes', NEW w \in Workers, NEW e, NEW h, Handling(w, e, h)
  PROVE  \A v \in Workers : Line(v)' = Line(v) /\ Received(v)' = Received(v)
<1>1. ASSUME NEW v \in Workers, v # w PROVE Line(v)' = Line(v) /\ Received(v)' = Received(v)
  BY <1>1, LineSame DEF Handling
<1>2. PICK q \in Seq(Arrivals) : q = queues[w]
  BY DEF EngineTypes, TrafficTypes
<1>3. PICK k \in Nat, m \in Nat : k = Len(handled[w]) /\ m = Len(q)
  BY Log, LenProperties
<1>4. /\ Received(w) = k + m
      /\ Line(w) = [i \in 1..(k + m) |-> IF i <= k THEN handled[w][i].event ELSE q[i - k]]
  BY <1>2, <1>3 DEF Line, Received
<1>5. /\ Len(handled'[w]) = k + 1 /\ handled'[w][k + 1] = h
      /\ \A i \in 1..k : handled'[w][i] = handled[w][i]
  BY <1>3, Entered
<1>6. q # <<>> /\ e = q[1] /\ h.event = e /\ queues'[w] = Tail(q)
  BY <1>2 DEF Handling, Entry
<1>7. m \in Nat \ {0} /\ Len(queues'[w]) = m - 1 /\ \A i \in 1..(m - 1) : queues'[w][i] = q[i + 1]
  BY <1>2, <1>3, <1>6, TailElements
<1>8. Received(w)' = k + 1 + (m - 1) /\ k + 1 + (m - 1) = k + m
  BY <1>3, <1>5, <1>7 DEF Received
<1>9. Line(w)' = [i \in 1..(k + m) |->
                    IF i <= k + 1 THEN handled'[w][i].event ELSE queues'[w][i - (k + 1)]]
  BY <1>5, <1>8 DEF Line
<1>10. ASSUME NEW i \in 1..(k + m)
       PROVE  (IF i <= k + 1 THEN handled'[w][i].event ELSE queues'[w][i - (k + 1)])
                = (IF i <= k THEN handled[w][i].event ELSE q[i - k])
  <2>1. CASE i <= k
    <3>1. i \in 1..k /\ i <= k + 1
      BY <1>3, <2>1
    <3> QED BY <1>5, <3>1
  <2>2. CASE i = k + 1
    <3>1. ~(i <= k) /\ i <= k + 1 /\ i - k = 1
      BY <1>3, <2>2
    <3> QED BY <1>5, <1>6, <2>2, <3>1
  <2>3. CASE ~(i <= k) /\ i # k + 1
    <3>1. ~(i <= k + 1) /\ i - (k + 1) \in 1..(m - 1) /\ i - (k + 1) + 1 = i - k
      BY <2>3
    <3>2. queues'[w][i - (k + 1)] = q[i - (k + 1) + 1]
      BY <1>7, <3>1
    <3> QED BY <2>3, <3>1, <3>2
  <2> QED BY <2>1, <2>2, <2>3
<1>11. Line(w)' = Line(w) /\ Received(w)' = Received(w)
  <2>1. [i \in 1..(k + m) |->
                    IF i <= k + 1 THEN handled'[w][i].event ELSE queues'[w][i - (k + 1)]]
         = [i \in 1..(k + m) |-> IF i <= k THEN handled[w][i].event ELSE q[i - k]]
    BY <1>10, Zenon
  <2>2. Line(w)' = Line(w)
    BY <1>4, <1>9, <2>1, Zenon
  <2>3. Received(w)' = Received(w)
    BY <1>4, <1>8
  <2> QED BY <2>2, <2>3
<1> QED BY <1>1, <1>11

\* A push leaves every line as it is or adds the event to its worker's.
LEMMA PushedLine ==
  ASSUME EngineTypes, EngineTypes', NEW w, NEW e, Pushing(w, e)
  PROVE  /\ \A v \in Workers : v # w => Line(v)' = Line(v) /\ Received(v)' = Received(v)
         /\ \/ Line(w)' = Line(w) /\ Received(w)' = Received(w)
            \/ /\ Received(w)' = Received(w) + 1 /\ Line(w)'[Received(w) + 1] = e
               /\ \A i \in 1..Received(w) : Line(w)'[i] = Line(w)[i]
<1>0. w \in Workers /\ e \in Arrivals
  BY DEF Pushing
<1>1. ASSUME NEW v \in Workers, v # w PROVE Line(v)' = Line(v) /\ Received(v)' = Received(v)
  BY <1>1, LineSame DEF Pushing
<1>2. CASE queues'[w] = queues[w]
  BY <1>1, <1>2, LineSame DEF Pushing
<1>3. CASE queues'[w] = Append(queues[w], e)
  <2>1. PICK q \in Seq(Arrivals) : q = queues[w]
    BY <1>0 DEF EngineTypes, TrafficTypes
  <2>2. PICK k \in Nat, m \in Nat : k = Len(handled[w]) /\ m = Len(q)
    BY <1>0, Log, LenProperties
  <2>3. /\ Len(queues'[w]) = m + 1 /\ queues'[w][m + 1] = e
        /\ \A i \in 1..m : queues'[w][i] = q[i]
    BY <1>0, <1>3, <2>1, <2>2, AppendElements
  <2>4. handled'[w] = handled[w]
    BY DEF Pushing
  <2>5. /\ Received(w) = k + m
        /\ Line(w) = [i \in 1..(k + m) |-> IF i <= k THEN handled[w][i].event ELSE q[i - k]]
    BY <2>1, <2>2 DEF Line, Received
  <2>6. Received(w)' = k + (m + 1) /\ k + (m + 1) = k + m + 1
    <3>1. k + (m + 1) = k + m + 1
      OBVIOUS
    <3>2. Received(w)' = Len(handled'[w]) + Len(queues'[w])
      BY DEF Received
    <3> QED BY <2>2, <2>3, <2>4, <3>1, <3>2
  <2>7. Line(w)' = [i \in 1..(k + m + 1) |->
                      IF i <= k THEN handled[w][i].event ELSE queues'[w][i - k]]
    BY <2>2, <2>4, <2>6 DEF Line
  <2>8. Line(w)'[k + m + 1] = e
    <3>1. k + m + 1 \in 1..(k + m + 1) /\ ~(k + m + 1 <= k) /\ k + m + 1 - k = m + 1
      OBVIOUS
    <3> QED BY <2>3, <2>7, <3>1
  <2>9. ASSUME NEW i \in 1..(k + m) PROVE Line(w)'[i] = Line(w)[i]
    <3>1. i \in 1..(k + m + 1)
      BY <2>2
    <3>2. CASE i <= k
      BY <2>5, <2>7, <3>1, <3>2
    <3>3. CASE ~(i <= k)
      <4>1. i - k \in 1..m
        BY <2>2, <3>3
      <4> QED BY <2>3, <2>5, <2>7, <3>1, <3>3, <4>1
    <3> QED BY <3>2, <3>3
  <2> QED BY <1>1, <2>5, <2>6, <2>8, <2>9
<1> QED BY <1>2, <1>3 DEF Pushing


\* e was sent before f.
Earlier(e, f) == e.tick < f.tick \/ (e.tick = f.tick /\ e.n < f.n)

\* A line has the events of its shard, in the order in which they were sent; what
\* is left of the batch comes later.
OrderInv ==
  /\ \A w \in Workers : \A i \in 1..Received(w) :
       Shard(Line(w)[i]) = w /\ Line(w)[i].tick \in 1..tick
  /\ \A w \in Workers : \A i, j \in 1..Received(w) :
       i < j => Earlier(Line(w)[i], Line(w)[j])
  /\ \A i \in 1..Len(batch) : batch[i].tick = tick /\ tick # 0
  /\ \A i, j \in 1..Len(batch) : i < j => batch[i].n < batch[j].n
  /\ \A w \in Workers : \A i \in 1..Received(w), j \in 1..Len(batch) :
       Earlier(Line(w)[i], batch[j])

LEMMA InitOrder ==
  ASSUME EngineInit
  PROVE  OrderInv
<1>1. Len(batch) = 0 /\ \A w \in Workers : Received(w) = 0
  <2>1. \A w \in Workers : Len(handled[w]) = 0 /\ Len(queues[w]) = 0
    BY DEF EngineInit
  <2>2. Len(batch) = 0
    BY DEF EngineInit
  <2>3. ASSUME NEW w \in Workers PROVE Received(w) = 0
    <3>1. Received(w) = Len(handled[w]) + Len(queues[w])
      BY DEF Received
    <3>2. PICK k \in Nat, l \in Nat : k = Len(handled[w]) /\ l = Len(queues[w]) /\ k = 0 /\ l = 0
      BY <2>1
    <3>3. k + l = 0
      BY <3>2
    <3> QED BY <3>1, <3>2, <3>3
  <2> QED BY <2>2, <2>3
<1> QED BY <1>1 DEF OrderInv

LEMMA BatchOrder ==
  ASSUME EngineTypes, EngineTypes', OrderInv, NextBatch
  PROVE  OrderInv'
<1>1. PICK b \in Seq(Packets) :
        /\ tick' = tick + 1 /\ Len(batch') = Len(b)
        /\ \A i \in 1..Len(b) : batch'[i] = [tick |-> tick', n |-> i, packet |-> b[i]]
  BY BatchMade DEF EngineTypes
<1>2. tick \in Nat
  BY DEF EngineTypes, TrafficTypes
<1>3. \A w \in Workers : Line(w)' = Line(w) /\ Received(w)' = Received(w)
  BY LineSame DEF NextBatch
<1>4. PICK m \in Nat : m = Len(b)
  BY LenProperties
<1>5. ASSUME NEW i \in 1..m PROVE batch'[i].tick = tick' /\ batch'[i].n = i
  <2>1. batch'[i] = [tick |-> tick', n |-> i, packet |-> b[i]]
    BY <1>1, <1>4
  <2> QED BY <2>1
<1>6. ASSUME NEW w \in Workers, NEW i \in 1..Received(w)
      PROVE  /\ Shard(Line(w)[i]) = w /\ Line(w)[i].tick \in 1..tick'
             /\ \A j \in 1..m : Earlier(Line(w)[i], batch'[j])
  <2>1. Shard(Line(w)[i]) = w /\ Line(w)[i].tick \in 1..tick
    BY <1>6 DEF OrderInv
  <2>2. PICK t \in 1..tick : t = Line(w)[i].tick
    BY <2>1
  <2>3. t \in 1..(tick + 1) /\ t < tick + 1
    BY <1>2
  <2> QED BY <1>1, <1>5, <2>1, <2>2, <2>3 DEF Earlier
<1>7. tick' # 0
  BY <1>1, <1>2
<1> QED BY <1>1, <1>3, <1>4, <1>5, <1>6, <1>7 DEF OrderInv, Shard

\* The rest of the batch after its first event is gone.
LEMMA BatchTail ==
  ASSUME EngineTypes, NEW w, NEW e, Pushing(w, e)
  PROVE  /\ Len(batch) \in Nat \ {0} /\ 1 \in 1..Len(batch) /\ e = batch[1]
         /\ Len(batch') = Len(batch) - 1
         /\ \A i \in 1..Len(batch') : i + 1 \in 1..Len(batch) /\ batch'[i] = batch[i + 1]
<1>1. PICK b \in Seq(Arrivals) : b = batch
  BY DEF EngineTypes, TrafficTypes
<1>2. b # <<>> /\ batch' = Tail(b) /\ e = b[1]
  BY <1>1 DEF Pushing
<1>3. /\ Len(b) \in Nat \ {0} /\ Len(Tail(b)) = Len(b) - 1
      /\ \A i \in 1..(Len(b) - 1) : Tail(b)[i] = b[i + 1]
  BY <1>2, TailElements
<1>4. PICK m \in Nat \ {0} : m = Len(b)
  BY <1>3
<1>5. 1 \in 1..m /\ \A i \in 1..(m - 1) : i + 1 \in 1..m
  OBVIOUS
<1> QED BY <1>1, <1>2, <1>3, <1>4, <1>5

LEMMA PushOrder ==
  ASSUME EngineTypes, EngineTypes', OrderInv, NEW w, NEW e, Pushing(w, e)
  PROVE  OrderInv'
<1>1. w \in Workers /\ e \in Arrivals /\ w = Shard(e) /\ tick' = tick
  BY DEF Pushing
<1>2. PICK m \in Nat \ {0} : m = Len(batch)
  BY BatchTail
<1>3. /\ e = batch[1] /\ Len(batch') = m - 1
      /\ \A i \in 1..(m - 1) : i + 1 \in 1..m /\ batch'[i] = batch[i + 1]
  BY <1>2, BatchTail
<1>4. /\ \A i \in 1..m : batch[i].tick = tick /\ tick # 0
      /\ \A i, j \in 1..m : i < j => batch[i].n < batch[j].n
      /\ \A v \in Workers : \A i \in 1..Received(v), j \in 1..m : Earlier(Line(v)[i], batch[j])
  BY <1>2 DEF OrderInv
<1>5. \A i \in 1..(m - 1) : batch'[i].tick = tick /\ tick # 0
  BY <1>3, <1>4
<1>6. ASSUME NEW i \in 1..(m - 1), NEW j \in 1..(m - 1), i < j
      PROVE  batch'[i].n < batch'[j].n
  <2>1. i + 1 < j + 1
    BY <1>6
  <2> QED BY <1>3, <1>4, <2>1
<1>7. ASSUME NEW j \in 1..(m - 1)
      PROVE  /\ Earlier(e, batch'[j])
             /\ \A v \in Workers : \A i \in 1..Received(v) : Earlier(Line(v)[i], batch'[j])
  <2>1. 1 \in 1..m /\ 1 < j + 1
    OBVIOUS
  <2> QED BY <1>3, <1>4, <2>1 DEF Earlier
<1>8. \A v \in Workers : \A i \in 1..Received(v) : Earlier(Line(v)[i], e)
  <2>1. 1 \in 1..m
    OBVIOUS
  <2> QED BY <1>3, <1>4, <2>1
<1>9. e.tick \in 1..tick
  <2>1. 1 \in 1..m
    OBVIOUS
  <2>2. tick \in Nat
    BY DEF EngineTypes, TrafficTypes
  <2> QED BY <1>3, <1>4, <2>1, <2>2
<1>10. ASSUME NEW v \in Workers
       PROVE  /\ \A i \in 1..Received(v)' : /\ Shard(Line(v)'[i]) = v /\ Line(v)'[i].tick \in 1..tick
                                            /\ \A j \in 1..(m - 1) : Earlier(Line(v)'[i], batch'[j])
              /\ \A i, j \in 1..Received(v)' : i < j => Earlier(Line(v)'[i], Line(v)'[j])
  <2>1. /\ \A i \in 1..Received(v) : /\ Shard(Line(v)[i]) = v /\ Line(v)[i].tick \in 1..tick
                                     /\ \A j \in 1..(m - 1) : Earlier(Line(v)[i], batch'[j])
        /\ \A i, j \in 1..Received(v) : i < j => Earlier(Line(v)[i], Line(v)[j])
    BY <1>7 DEF OrderInv
  <2>2. CASE Line(v)' = Line(v) /\ Received(v)' = Received(v)
    BY <2>1, <2>2
  <2>3. CASE /\ v = w
             /\ Received(w)' = Received(w) + 1 /\ Line(w)'[Received(w) + 1] = e
             /\ \A i \in 1..Received(w) : Line(w)'[i] = Line(w)[i]
    <3>1. PICK n \in Nat : n = Received(w)
      BY <1>1, LineFacts
    <3>2. PICK old, longer : old = Line(w) /\ longer = Line(w)'
      OBVIOUS
    <3>3. /\ \A i \in 1..n : /\ Shard(old[i]) = w /\ old[i].tick \in 1..tick
                             /\ \A j \in 1..(m - 1) : Earlier(old[i], batch'[j])
          /\ \A i, j \in 1..n : i < j => Earlier(old[i], old[j])
      BY <2>1, <2>3, <3>1, <3>2
    <3>4. longer[n + 1] = e /\ \A i \in 1..n : longer[i] = old[i]
      BY <2>3, <3>1, <3>2
    <3>5. \A i \in 1..(n + 1) : i \in 1..n \/ i = n + 1
      OBVIOUS
    <3>6. ASSUME NEW i \in 1..(n + 1)
          PROVE  /\ Shard(longer[i]) = w /\ longer[i].tick \in 1..tick
                 /\ \A j \in 1..(m - 1) : Earlier(longer[i], batch'[j])
      BY <1>1, <1>7, <1>9, <3>3, <3>4, <3>5
    <3>7. ASSUME NEW i \in 1..(n + 1), NEW j \in 1..(n + 1), i < j
          PROVE  Earlier(longer[i], longer[j])
      <4>1. i \in 1..n
        BY <3>7
      <4>2. CASE j \in 1..n
        BY <3>3, <3>4, <3>7, <4>1, <4>2
      <4>3. CASE j = n + 1
        <5>1. Earlier(old[i], e)
          BY <1>1, <1>8, <3>1, <3>2, <4>1
        <5> QED BY <3>4, <4>1, <4>3, <5>1
      <4> QED BY <3>5, <4>2, <4>3
    <3> QED BY <2>3, <3>1, <3>2, <3>6, <3>7
  <2> QED BY <2>2, <2>3, PushedLine
<1>11. \A v \in Workers : \A i \in 1..Received(v)' :
         Shard(Line(v)[i])' = Shard(Line(v)'[i])
  BY DEF Shard
<1> QED BY <1>1, <1>3, <1>5, <1>6, <1>10, <1>11 DEF OrderInv

LEMMA NextOrder ==
  ASSUME EngineTypes, EngineTypes', OrderInv, [EngineNext]_engineVars
  PROVE  OrderInv'
<1>1. ASSUME \A w \in Workers : Line(w)' = Line(w) /\ Received(w)' = Received(w),
             batch' = batch, tick' = tick
      PROVE  OrderInv'
  BY <1>1 DEF OrderInv, Shard
<1>2. CASE Push
  BY <1>2, PushIs, PushOrder DEF EngineTypes
<1>3. ASSUME NEW w \in Workers, Handle(w) PROVE OrderInv'
  <2>1. PICK e, h : Handling(w, e, h)
    BY <1>3, HandleIs DEF EngineTypes
  <2> QED BY <1>1, <2>1, HandledLine DEF Handling
<1>4. CASE Tick \/ UNCHANGED engineVars
  <2>1. \A w \in Workers : handled'[w] = handled[w] /\ queues'[w] = queues[w]
    BY <1>4 DEF Tick, engineVars
  <2> QED BY <1>1, <1>4, <2>1, LineSame DEF Tick, engineVars
<1> QED BY <1>2, <1>3, <1>4, BatchOrder DEF EngineNext


-----------------------------------------------------------------------------
(* Every event is a packet of the batch of its tick. *)

\* The events that are received or still in the batch.
Known ==
  (UNION {{Line(w)[i] : i \in 1..Received(w)} : w \in Workers})
    \cup {batch[i] : i \in 1..Len(batch)}

\* The events of tick t are packets of b, at the places they say.
DrawnFrom(b, t) ==
  \A e \in Known : e.tick = t => e.n \in 1..Len(b) /\ e.packet = b[e.n]

DrawnInv ==
  \A t \in 1..tick : \E b : /\ \E k, l, m, n \in Nat : Laid(b, k, l, m, n)
                            /\ DrawnFrom(b, t)

\* The SYNs of a batch: a flood, a scan and the probe of an exploit.
PerTick == FloodBurst + Len(ScannedPorts) + 1

SynsBounded ==
  \E I : /\ IsFiniteSet(I) /\ Cardinality(I) <= tick * PerTick
         /\ \A e \in Known : is_syn(e.packet) => <<e.tick, e.n>> \in I

\* No step but NextBatch makes an event known.
LEMMA KnownShrinks ==
  ASSUME EngineTypes, EngineTypes', [EngineNext]_engineVars, ~NextBatch
  PROVE  Known' \subseteq Known /\ tick' = tick
<1>1. ASSUME \A w \in Workers : Line(w)' = Line(w) /\ Received(w)' = Received(w), batch' = batch
      PROVE  Known' = Known
  <2>1. Known' = (UNION {{Line(w)'[i] : i \in 1..Received(w)'} : w \in Workers})
                   \cup {batch'[i] : i \in 1..Len(batch')}
    BY DEF Known
  <2> QED BY <1>1, <2>1 DEF Known
<1>2. ASSUME NEW w, NEW e, Pushing(w, e)
      PROVE  Known' \subseteq Known
  <2>1. w \in Workers /\ e \in Known
    BY <1>2, BatchTail DEF Pushing, Known
  <2>2. \A i \in 1..Len(batch') : batch'[i] \in Known
    BY <1>2, BatchTail DEF Known
  <2>3. ASSUME NEW v \in Workers, NEW i \in 1..Received(v)'
        PROVE  Line(v)'[i] \in Known
    <3>1. CASE Line(v)' = Line(v) /\ Received(v)' = Received(v)
      BY <3>1 DEF Known
    <3>2. CASE /\ v = w
               /\ Received(w)' = Received(w) + 1 /\ Line(w)'[Received(w) + 1] = e
               /\ \A j \in 1..Received(w) : Line(w)'[j] = Line(w)[j]
      <4>1. i \in 1..Received(w) \/ i = Received(w) + 1
        <5>1. PICK n \in Nat : n = Received(w)
          BY <2>1, LineFacts
        <5> QED BY <3>2, <5>1
      <4>2. CASE i \in 1..Received(w)
        BY <2>1, <3>2, <4>2 DEF Known
      <4>3. CASE i = Received(w) + 1
        BY <2>1, <3>2, <4>3
      <4> QED BY <4>1, <4>2, <4>3
    <3> QED BY <1>2, <3>1, <3>2, PushedLine
  <2> QED BY <2>2, <2>3 DEF Known
<1>3. CASE Push
  <2>1. PICK w, e : Pushing(w, e)
    BY <1>3, PushIs DEF EngineTypes
  <2> QED BY <1>2, <2>1 DEF Pushing
<1>4. ASSUME NEW w \in Workers, Handle(w) PROVE Known' \subseteq Known /\ tick' = tick
  <2>1. PICK e, h : Handling(w, e, h)
    BY <1>4, HandleIs DEF EngineTypes
  <2> QED BY <1>1, <2>1, HandledLine DEF Handling
<1>5. CASE Tick \/ UNCHANGED engineVars
  <2>1. \A w \in Workers : handled'[w] = handled[w] /\ queues'[w] = queues[w]
    BY <1>5 DEF Tick, engineVars
  <2> QED BY <1>1, <1>5, <2>1, LineSame DEF Tick, engineVars
<1> QED BY <1>3, <1>4, <1>5 DEF EngineNext

\* NextBatch makes its packets known.
LEMMA KnownGrows ==
  ASSUME EngineTypes, OrderInv, NextBatch
  PROVE  \E b \in Seq(Packets) :
           /\ b \in next_batch(tick') /\ tick' = tick + 1
           /\ \A e \in Known : e.tick \in 1..tick
           /\ \A e \in Known' : \/ e \in Known
                                \/ \E i \in 1..Len(b) : e = [tick |-> tick', n |-> i, packet |-> b[i]]
<1>1. PICK b \in Seq(Packets) :
        /\ tick' = tick + 1 /\ Len(batch') = Len(b) /\ batch = <<>> /\ b \in next_batch(tick')
        /\ \A i \in 1..Len(b) : batch'[i] = [tick |-> tick', n |-> i, packet |-> b[i]]
  BY BatchMade DEF EngineTypes
<1>2. \A w \in Workers : Line(w)' = Line(w) /\ Received(w)' = Received(w)
  BY LineSame DEF NextBatch
<1>3. Known' = (UNION {{Line(w)[i] : i \in 1..Received(w)} : w \in Workers})
                   \cup {batch'[i] : i \in 1..Len(batch')}
  <2>1. Known' = (UNION {{Line(w)'[i] : i \in 1..Received(w)'} : w \in Workers})
                   \cup {batch'[i] : i \in 1..Len(batch')}
    BY DEF Known
  <2> QED BY <1>2, <2>1
<1>4. \A e \in Known' : \/ e \in Known
                        \/ \E i \in 1..Len(b) : e = [tick |-> tick', n |-> i, packet |-> b[i]]
  BY <1>1, <1>3 DEF Known
<1>5. \A e \in Known : e.tick \in 1..tick
  <2>1. Len(batch) = 0
    BY <1>1
  <2> QED BY <2>1 DEF Known, OrderInv
<1> QED BY <1>1, <1>4, <1>5

LEMMA InitKnown ==
  ASSUME EngineInit
  PROVE  DrawnInv /\ SynsBounded
<1>1. tick = 0 /\ Known = {}
  <2>1. Len(batch) = 0 /\ \A w \in Workers : Received(w) = 0
    <3>1. \A w \in Workers : Len(handled[w]) = 0 /\ Len(queues[w]) = 0
      BY DEF EngineInit
    <3>2. Len(batch) = 0
      BY DEF EngineInit
    <3>3. \A w \in Workers : Received(w) = 0 + 0
      BY <3>1, Zenon DEF Received
    <3> QED BY <3>2, <3>3
  <2> QED BY <2>1 DEF EngineInit, Known
<1>2. DrawnInv
  BY <1>1 DEF DrawnInv
<1>3. SynsBounded
  <2>1. IsFiniteSet({}) /\ Cardinality({}) = 0
    BY FS_EmptySet
  <2>2. PerTick \in Nat
    <3>1. FloodBurst \in Nat /\ Len(ScannedPorts) \in Nat
      BY SimulatorAssumption, LenProperties
    <3> QED BY <3>1 DEF PerTick
  <2>3. 0 <= 0 * PerTick
    BY <2>2
  <2> QED BY <1>1, <2>1, <2>3 DEF SynsBounded
<1> QED BY <1>2, <1>3

LEMMA NextDrawn ==
  ASSUME EngineTypes, EngineTypes', OrderInv, DrawnInv, [EngineNext]_engineVars
  PROVE  DrawnInv'
<1>1. CASE ~NextBatch
  <2>1. Known' \subseteq Known /\ tick' = tick
    BY <1>1, KnownShrinks
  <2> QED BY <2>1 DEF DrawnInv, DrawnFrom
<1>2. CASE NextBatch
  <2>1. PICK b \in Seq(Packets) :
           /\ b \in next_batch(tick') /\ tick' = tick + 1
           /\ \A e \in Known : e.tick \in 1..tick
           /\ \A e \in Known' : \/ e \in Known
                                \/ \E i \in 1..Len(b) : e = [tick |-> tick', n |-> i, packet |-> b[i]]
    BY <1>2, KnownGrows
  <2>2. tick \in Nat /\ tick' \in Nat
    BY DEF EngineTypes, TrafficTypes
  <2>3. \E k, l, m, n \in Nat : Laid(b, k, l, m, n)
    BY <2>1, <2>2, Batches
  <2> PICK u \in Nat : u = tick'
    BY <2>2
  <2>4. DrawnFrom(b, u)'
    <3>1. ASSUME NEW e \in Known', e.tick = u
          PROVE  e.n \in 1..Len(b) /\ e.packet = b[e.n]
      <4>1. e \notin Known
        <5>1. ~(tick + 1 \in 1..tick)
          BY <2>2
        <5> QED BY <2>1, <3>1, <5>1
      <4> QED BY <2>1, <3>1, <4>1
    <3> QED BY <3>1 DEF DrawnFrom
  <2>5. ASSUME NEW t \in 1..tick, NEW c, DrawnFrom(c, t)
        PROVE  DrawnFrom(c, t)'
    <3>1. t # tick'
      BY <2>1, <2>2
    <3> QED BY <2>1, <2>5, <3>1 DEF DrawnFrom
  <2>6. \A t \in 1..tick' : t \in 1..tick \/ t = tick'
    BY <2>1, <2>2
  <2>7. ASSUME NEW t \in 1..tick'
        PROVE  \E c : (\E k, l, m, n \in Nat : Laid(c, k, l, m, n)) /\ DrawnFrom(c, t)'
    <3>1. CASE t = u
      <4>1. DrawnFrom(b, t)'
        BY <2>4, <3>1
      <4> QED BY <2>3, <4>1
    <3>2. CASE t \in 1..tick
      <4>1. PICK c : (\E k, l, m, n \in Nat : Laid(c, k, l, m, n)) /\ DrawnFrom(c, t)
        BY <3>2 DEF DrawnInv
      <4> QED BY <2>5, <3>2, <4>1
    <3> QED BY <2>6, <3>1, <3>2
  <2> QED BY <2>7 DEF DrawnInv
<1> QED BY <1>1, <1>2


-----------------------------------------------------------------------------
(* The size of an image, of a set that is mapped into another, of a union. *)

LEMMA OntoBound ==
  ASSUME NEW S, NEW T, IsFiniteSet(S), NEW f \in [S -> T],
         \A y \in T : \E x \in S : f[x] = y
  PROVE  IsFiniteSet(T) /\ Cardinality(T) <= Cardinality(S)
<1>1. f \in Surjection(S, T)
  BY DEF Surjection, Range
<1> QED BY <1>1, FS_Surjection

LEMMA IntoBound ==
  ASSUME NEW S, NEW T, IsFiniteSet(T), NEW f \in [S -> T],
         \A x, y \in S : f[x] = f[y] => x = y
  PROVE  /\ IsFiniteSet(S) /\ Cardinality(S) <= Cardinality(T)
         /\ Cardinality(S) = Cardinality(T) => \A y \in T : \E x \in S : f[x] = y
<1>1. f \in Injection(S, T)
  BY DEF Injection, IsInjective
<1>2. /\ IsFiniteSet(S) /\ Cardinality(S) <= Cardinality(T)
      /\ Cardinality(S) = Cardinality(T) => f \in Surjection(S, T)
  BY <1>1, FS_Injection
<1>3. f \in Surjection(S, T) => \A y \in T : \E x \in S : f[x] = y
  BY DEF Surjection, Range
<1> QED BY <1>2, <1>3

LEMMA UnionBound ==
  ASSUME NEW S, NEW T, IsFiniteSet(S), IsFiniteSet(T), NEW m \in Nat, NEW n \in Nat,
         Cardinality(S) <= m, Cardinality(T) <= n
  PROVE  IsFiniteSet(S \cup T) /\ Cardinality(S \cup T) <= m + n
<1>1. /\ IsFiniteSet(S \cup T) /\ IsFiniteSet(S \cap T)
      /\ Cardinality(S \cup T) = Cardinality(S) + Cardinality(T) - Cardinality(S \cap T)
  BY FS_Union, FS_Intersection
<1>2. /\ Cardinality(S) \in Nat /\ Cardinality(T) \in Nat /\ Cardinality(S \cap T) \in Nat
  BY <1>1, FS_CardinalityType
<1> QED BY <1>1, <1>2

LEMMA PerTickIs == PerTick \in Nat /\ FloodBurst \in Nat /\ Len(ScannedPorts) \in Nat
<1>1. FloodBurst \in Nat /\ Len(ScannedPorts) \in Nat
  BY SimulatorAssumption, LenProperties
<1> QED BY <1>1 DEF PerTick

\* A batch has at most PerTick SYNs.
LEMMA SynPlaces ==
  ASSUME NEW b, NEW k \in Nat, NEW l \in Nat, NEW m \in Nat, NEW n \in Nat, Laid(b, k, l, m, n)
  PROVE  \E P : /\ IsFiniteSet(P) /\ Cardinality(P) <= PerTick
                /\ \A i \in 1..Len(b) : is_syn(b[i]) => i \in P
<1>1. PICK o \in Nat : o = Len(b) /\ b \in Seq(Packets)
  BY LenProperties DEF Laid
<1>2. PICK burst \in Nat, ports \in Nat : burst = FloodBurst /\ ports = Len(ScannedPorts)
  BY PerTickIs
<1>3. /\ k <= l /\ l <= m /\ m <= n /\ n <= o /\ l - k \in {0, burst} /\ m - l \in {0, 1}
      /\ n - m \in {0, 2} /\ o - n \in {0, ports}
  BY <1>1, <1>2 DEF Laid
<1>4. /\ \A i \in 1..k : b[i].kind = "benign"
      /\ \A i \in (l + 1)..m : b[i].kind = "payload"
      /\ \A i \in (m + 1)..n : i = m + 2 => b[i].kind = "exploit"
  BY DEF Laid
<1>5. \A i \in 1..o : is_syn(b[i]) <=> b[i].kind \in {"flood", "scan", "probe"}
  <2>1. \A i \in 1..o : b[i] \in Packets
    BY <1>1, ElementOfSeq
  <2> QED BY <2>1, PacketFacts
<1> DEFINE F == (k + 1)..l
           C == (n + 1)..o
           P == (F \cup C) \cup {m + 1}
<1>6. IsFiniteSet(F) /\ Cardinality(F) <= burst
  <2>1. k + 1 \in Int /\ l \in Int
    OBVIOUS
  <2>2. IsFiniteSet(F) /\ Cardinality(F) = IF k + 1 > l THEN 0 ELSE l - (k + 1) + 1
    BY <2>1, FS_Interval
  <2>3. (IF k + 1 > l THEN 0 ELSE l - (k + 1) + 1) <= burst
    BY <1>3
  <2> QED BY <2>2, <2>3
<1>7. IsFiniteSet(C) /\ Cardinality(C) <= ports
  <2>1. n + 1 \in Int /\ o \in Int
    OBVIOUS
  <2>2. IsFiniteSet(C) /\ Cardinality(C) = IF n + 1 > o THEN 0 ELSE o - (n + 1) + 1
    BY <2>1, FS_Interval
  <2>3. (IF n + 1 > o THEN 0 ELSE o - (n + 1) + 1) <= ports
    BY <1>3
  <2> QED BY <2>2, <2>3
<1>8. ASSUME NEW i \in 1..o, is_syn(b[i])
      PROVE  i \in P
  <2>1. b[i].kind \in {"flood", "scan", "probe"}
    BY <1>5, <1>8
  <2>2. i \notin 1..k /\ i \notin (l + 1)..m
    BY <1>4, <2>1
  <2>3. ~(i \in (m + 1)..n /\ i = m + 2)
    BY <1>4, <2>1
  <2>4. i \in F \/ i \in C \/ i = m + 1
    BY <1>3, <2>2, <2>3
  <2> QED BY <2>4
<1> HIDE DEF F, C
<1>9. IsFiniteSet(F \cup C) /\ Cardinality(F \cup C) <= burst + ports
  BY <1>6, <1>7, UnionBound
<1>10. IsFiniteSet({m + 1}) /\ Cardinality({m + 1}) <= 1
  <2>1. IsFiniteSet({m + 1}) /\ Cardinality({m + 1}) = 1
    BY FS_Singleton
  <2> QED BY <2>1
<1>11. burst + ports \in Nat
  OBVIOUS
<1>12. IsFiniteSet(P) /\ Cardinality(P) <= burst + ports + 1
  BY <1>9, <1>10, <1>11, UnionBound
<1>13. burst + ports + 1 = PerTick
  BY <1>2 DEF PerTick
<1> QED BY <1>1, <1>8, <1>12, <1>13

LEMMA NextSyns ==
  ASSUME EngineTypes, EngineTypes', OrderInv, SynsBounded, [EngineNext]_engineVars
  PROVE  SynsBounded'
<1>1. CASE ~NextBatch
  <2>1. Known' \subseteq Known /\ tick' = tick
    BY <1>1, KnownShrinks
  <2> QED BY <2>1 DEF SynsBounded
<1>2. CASE NextBatch
  <2>1. PICK b \in Seq(Packets) :
           /\ b \in next_batch(tick') /\ tick' = tick + 1
           /\ \A e \in Known : e.tick \in 1..tick
           /\ \A e \in Known' : \/ e \in Known
                                \/ \E i \in 1..Len(b) : e = [tick |-> tick', n |-> i, packet |-> b[i]]
    BY <1>2, KnownGrows
  <2>2. tick \in Nat /\ tick' \in Nat
    BY DEF EngineTypes, TrafficTypes
  <2> PICK u \in Nat : u = tick'
    BY <2>2
  <2>3. PICK k \in Nat, l \in Nat, m \in Nat, n \in Nat : Laid(b, k, l, m, n)
    BY <2>1, <2>2, Batches
  <2>4. PICK P : /\ IsFiniteSet(P) /\ Cardinality(P) <= PerTick
                 /\ \A i \in 1..Len(b) : is_syn(b[i]) => i \in P
    BY <2>3, SynPlaces
  <2>5. PICK I : /\ IsFiniteSet(I) /\ Cardinality(I) <= tick * PerTick
                 /\ \A e \in Known : is_syn(e.packet) => <<e.tick, e.n>> \in I
    BY DEF SynsBounded
  <2> DEFINE J == {<<u, i>> : i \in P}
  <2>6. IsFiniteSet(J) /\ Cardinality(J) <= PerTick
    <3>1. PICK f : f = [i \in P |-> <<u, i>>]
      OBVIOUS
    <3>2. f \in [P -> J] /\ \A y \in J : \E x \in P : f[x] = y
      BY <3>1
    <3>3. IsFiniteSet(J) /\ Cardinality(J) <= Cardinality(P)
      BY <2>4, <3>2, OntoBound
    <3>4. Cardinality(J) \in Nat /\ Cardinality(P) \in Nat
      BY <2>4, <3>3, FS_CardinalityType
    <3> QED BY <2>4, <3>3, <3>4, PerTickIs
  <2> HIDE DEF J
  <2>7. tick * PerTick \in Nat /\ tick * PerTick + PerTick = u * PerTick
    <3>1. PICK p \in Nat : p = PerTick
      BY PerTickIs
    <3>2. tick * p \in Nat /\ tick * p + p = (tick + 1) * p
      BY <2>2
    <3> QED BY <2>1, <3>1, <3>2
  <2>8. IsFiniteSet(I \cup J) /\ Cardinality(I \cup J) <= u * PerTick
    <3>1. IsFiniteSet(I \cup J) /\ Cardinality(I \cup J) <= tick * PerTick + PerTick
      BY <2>5, <2>6, <2>7, PerTickIs, UnionBound
    <3> QED BY <2>7, <3>1
  <2>9. ASSUME NEW e \in Known', is_syn(e.packet)
        PROVE  <<e.tick, e.n>> \in I \cup J
    <3>1. CASE e \in Known
      BY <2>5, <2>9, <3>1
    <3>2. CASE \E i \in 1..Len(b) : e = [tick |-> u, n |-> i, packet |-> b[i]]
      <4>1. PICK i \in 1..Len(b) : e = [tick |-> u, n |-> i, packet |-> b[i]]
        BY <3>2
      <4>2. i \in P /\ <<e.tick, e.n>> = <<u, i>>
        BY <2>4, <2>9, <4>1
      <4> QED BY <4>2 DEF J
    <3> QED BY <2>1, <3>1, <3>2
  <2>10. \E K : /\ IsFiniteSet(K) /\ Cardinality(K) <= tick' * PerTick
                /\ \A e \in Known' : is_syn(e.packet) => <<e.tick, e.n>> \in K
    BY <2>8, <2>9
  <2> QED BY <2>10 DEF SynsBounded
<1> QED BY <1>1, <1>2


-----------------------------------------------------------------------------
(* The times of the entries. *)

TimeInv ==
  \A w \in Workers :
    /\ anomaly[w].window_start <= clock
    /\ \A i \in 1..Len(handled[w]) : /\ handled[w][i].at <= clock
                                     /\ handled[w][i].window <= anomaly[w].window_start
    /\ \A i, j \in 1..Len(handled[w]) : i < j => handled[w][i].at <= handled[w][j].at

\* What a detector's window is after an event.
LEMMA WindowAfter ==
  ASSUME EngineTypes, TimeInv, NEW w \in Workers, NEW p
  PROVE  /\ clock \in Nat /\ anomaly[w].window_start \in Nat
         /\ AnomalyAfter(w, p).window_start \in Nat /\ AnomalyAfter(w, p).window_start <= clock
         /\ anomaly[w].window_start <= AnomalyAfter(w, p).window_start
         /\ Anomaly(w)!WindowOver => /\ AnomalyAfter(w, p).window_start = clock
                                     /\ anomaly[w].window_start < clock
         /\ ~Anomaly(w)!WindowOver => AnomalyAfter(w, p).window_start = anomaly[w].window_start
<1>1. clock \in Nat /\ anomaly[w].window_start \in Nat /\ Window \in Nat \ {0}
  BY DetectorAssumption DEF EngineTypes, TrafficTypes, AnomalyTypes, Detectors
<1>2. anomaly[w].window_start <= clock
  BY DEF TimeInv
<1>3. AnomalyAfter(w, p).window_start
        = IF Anomaly(w)!WindowOver THEN clock ELSE anomaly[w].window_start
  BY DEF AnomalyAfter
<1>4. Anomaly(w)!WindowOver <=> clock - anomaly[w].window_start >= Window
  BY DEF Anomaly!WindowOver
<1> QED BY <1>1, <1>2, <1>3, <1>4

\* The detector of a worker that handles an event, and the others.
LEMMA DetectorAfter ==
  ASSUME EngineTypes, NEW w \in Workers, NEW e, NEW h, Handling(w, e, h)
  PROVE  /\ anomaly'[w] = AnomalyAfter(w, e.packet)
         /\ \A v \in Workers : v # w => anomaly'[v] = anomaly[v]
<1>1. anomaly' = [anomaly EXCEPT ![w] = AnomalyAfter(w, e.packet)]
  BY DEF Handling
<1> QED BY <1>1 DEF EngineTypes, AnomalyTypes

LEMMA NextTime ==
  ASSUME EngineTypes, EngineTypes', TimeInv, [EngineNext]_engineVars
  PROVE  TimeInv'
<1>1. ASSUME handled' = handled, anomaly' = anomaly, clock' \in Nat, clock <= clock'
      PROVE  TimeInv'
  <2>1. ASSUME NEW w \in Workers
        PROVE  /\ anomaly[w].window_start <= clock'
               /\ \A i \in 1..Len(handled[w]) : handled[w][i].at <= clock'
    <3>1. clock \in Nat /\ anomaly[w].window_start \in Nat
      BY DEF EngineTypes, TrafficTypes, AnomalyTypes, Detectors
    <3>2. anomaly[w].window_start <= clock'
      BY <1>1, <3>1 DEF TimeInv
    <3>3. ASSUME NEW i \in 1..Len(handled[w])
          PROVE  handled[w][i].at <= clock'
      <4>1. PICK a \in Nat : a = handled[w][i].at
        BY Log
      <4>2. a <= clock
        BY <4>1 DEF TimeInv
      <4> QED BY <1>1, <3>1, <4>1, <4>2
    <3> QED BY <3>2, <3>3
  <2> QED BY <1>1, <2>1 DEF TimeInv
<1>2. clock \in Nat
  BY DEF EngineTypes, TrafficTypes
<1>3. CASE Tick
  BY <1>1, <1>2, <1>3 DEF Tick
<1>4. CASE NextBatch \/ Push \/ UNCHANGED engineVars
  <2>1. UNCHANGED <<anomaly, clock, handled>>
    BY <1>4, Zenon DEF NextBatch, Push, engineVars
  <2> QED BY <1>1, <1>2, <2>1
<1>5. ASSUME NEW w \in Workers, Handle(w) PROVE TimeInv'
  <2>1. PICK e, h : Handling(w, e, h)
    BY <1>5, HandleIs DEF EngineTypes
  <2>2. clock' = clock /\ h.at = clock /\ h.window = AnomalyAfter(w, e.packet).window_start
    BY <2>1 DEF Handling, Entry
  <2>3. PICK u \in Nat : u = AnomalyAfter(w, e.packet).window_start /\ u <= clock
                         /\ anomaly[w].window_start <= u
    BY WindowAfter
  <2>4. anomaly'[w].window_start = u
    BY <2>1, <2>3, DetectorAfter
  <2>5. PICK k \in Nat : k = Len(handled[w])
    BY Log
  <2>6. /\ Len(handled'[w]) = k + 1 /\ handled'[w][k + 1] = h
        /\ \A i \in 1..k : handled'[w][i] = handled[w][i]
        /\ \A i \in 1..(k + 1) : i \in 1..k \/ i = k + 1
    BY <2>1, <2>5, Entered
  <2>7. ASSUME NEW i \in 1..k
        PROVE  handled[w][i].at <= clock /\ handled[w][i].window <= u
    <3>1. handled[w][i].at <= clock
      BY <2>5 DEF TimeInv
    <3>2. PICK x \in Nat : x = handled[w][i].window
      BY <2>5, Log
    <3>3. PICK y \in Nat : y = anomaly[w].window_start
      BY WindowAfter
    <3>4. x <= y /\ y <= u
      BY <2>3, <2>5, <3>2, <3>3 DEF TimeInv
    <3>5. x <= u
      BY <3>4
    <3> QED BY <3>1, <3>2, <3>5
  <2>8. \A i \in 1..(k + 1) : handled'[w][i].at <= clock /\ handled'[w][i].window <= u
    <3>1. h.at <= clock /\ h.window <= u
      BY <1>2, <2>2, <2>3
    <3> QED BY <2>6, <2>7, <3>1
  <2>9. ASSUME NEW i \in 1..(k + 1), NEW j \in 1..(k + 1), i < j
        PROVE  handled'[w][i].at <= handled'[w][j].at
    <3>1. i \in 1..k
      BY <2>9
    <3>2. CASE j \in 1..k
      BY <2>5, <2>6, <2>9, <3>1, <3>2 DEF TimeInv
    <3>3. CASE j = k + 1
      BY <2>2, <2>6, <2>7, <3>1, <3>3
    <3> QED BY <2>6, <3>2, <3>3
  <2>10. /\ anomaly'[w].window_start <= clock'
         /\ \A i \in 1..Len(handled'[w]) : /\ handled'[w][i].at <= clock'
                                           /\ handled'[w][i].window <= anomaly'[w].window_start
         /\ \A i, j \in 1..Len(handled'[w]) : i < j => handled'[w][i].at <= handled'[w][j].at
    BY <2>2, <2>3, <2>4, <2>6, <2>8, <2>9
  <2>11. \A v \in Workers : v # w => anomaly'[v] = anomaly[v] /\ handled'[v] = handled[v]
    BY <2>1, Entered, DetectorAfter
  <2> QED BY <2>2, <2>10, <2>11 DEF TimeInv
<1> QED BY <1>3, <1>4, <1>5 DEF EngineNext

LEMMA InitTime ==
  ASSUME EngineInit
  PROVE  TimeInv
<1>1. clock = 0 /\ \A w \in Workers : anomaly[w].window_start = 0 /\ Len(handled[w]) = 0
  BY DEF EngineInit
<1> QED BY <1>1 DEF TimeInv

\* The invariant that every other proof about the engine rests on: what has been
\* sent, how it was routed and when it was handled.
EngineBase ==
  /\ EngineTypes
  /\ OrderInv
  /\ DrawnInv
  /\ SynsBounded
  /\ TimeInv

THEOREM EngineInvariant == EngineSpec => []EngineBase
<1>1. EngineInit => EngineBase
  BY InitTraffic, InitAnomaly, InitOrder, InitKnown, InitTime DEF EngineBase, EngineTypes
<1>2. EngineBase /\ [EngineNext]_engineVars => EngineBase'
  <2> SUFFICES ASSUME EngineBase, [EngineNext]_engineVars
               PROVE  EngineBase'
    OBVIOUS
  <2>1. EngineTypes /\ OrderInv /\ DrawnInv /\ SynsBounded /\ TimeInv
    BY DEF EngineBase
  <2>2. EngineTypes'
    BY <2>1, NextTraffic, NextAnomaly DEF EngineTypes
  <2>3. OrderInv'
    BY <2>1, <2>2, NextOrder
  <2>4. DrawnInv'
    BY <2>1, <2>2, NextDrawn
  <2>5. SynsBounded'
    BY <2>1, <2>2, NextSyns
  <2>6. TimeInv'
    BY <2>1, <2>2, NextTime
  <2> QED BY <2>2, <2>3, <2>4, <2>5, <2>6 DEF EngineBase
<1> QED BY <1>1, <1>2, PTL DEF EngineSpec


-----------------------------------------------------------------------------
(* The CEP engine of a worker: its rule has two steps, so every partial match *)
(* in a list has matched the first.                                           *)

Partial == [step : {1}, started_at : Nat]
Moved == [step : {1, 2}, started_at : Nat]
Passwd(p) == HasPattern(p, <<"passwd">>)

\* Only the traversal has the pattern that the second step looks for.
LEMMA PasswdIs ==
  ASSUME NEW p \in Packets
  PROVE  Passwd(p) <=> p.kind \in {"payload", "exploit"}
<1>1. p.payload_sample \in {<<>>, Request, Traversal}
      /\ (p.payload_sample = Traversal <=> p.kind \in {"payload", "exploit"})
  BY PacketFacts
<1>2. PICK q : q = <<"passwd">>
  OBVIOUS
<1>3. q \in Seq(Texts) /\ Len(q) = 1 /\ q[1] = "passwd"
  BY <1>2 DEF Texts
<1>4. Passwd(p) <=> \E i \in DOMAIN p.payload_sample : OccursAt(q, p.payload_sample, i)
  BY <1>2 DEF Passwd, HasPattern
<1>5. CASE p.payload_sample = Traversal
  <2>1. Len(Traversal) = 9 /\ Traversal[9] = "passwd" /\ Traversal \in Seq(Texts)
    BY TraversalPieces
  <2>2. OccursAt(q, Traversal, 9)
    <3>1. PICK t : t = Traversal
      OBVIOUS
    <3>2. t \in Seq(Texts) /\ Len(t) = 9
      BY <2>1, <3>1
    <3>3. 9 \in 1..Len(t)
      BY <3>2
    <3>4. t[9] = q[1]
      BY <1>3, <2>1, <3>1
    <3>5. OccursAt(q, t, 9)
      BY <1>3, <3>2, <3>3, <3>4, OccursOne
    <3> QED BY <3>1, <3>5
  <2>3. 9 \in DOMAIN Traversal
    BY <2>1, LenProperties
  <2> QED BY <1>1, <1>4, <1>5, <2>2, <2>3
<1>6. CASE p.payload_sample = <<>>
  <2>1. DOMAIN p.payload_sample = {}
    BY <1>6
  <2>2. <<>> # Traversal
    BY DEF Traversal
  <2> QED BY <1>1, <1>4, <1>6, <2>1, <2>2
<1>7. CASE p.payload_sample = Request
  <2>1. Request # Traversal
    BY DEF Request, Traversal
  <2>2. Request \in Seq(Texts) /\ Len(Request) = 3 /\ DOMAIN Request = 1..3
    BY RequestPieces, LenProperties
  <2>3. \A i \in 1..3 : Request[i] # "passwd"
    <3>1. \A i \in 1..3 : i = 1 \/ i = 2 \/ i = 3
      OBVIOUS
    <3> QED BY <3>1, RequestPieces
  <2>4. \A i \in 1..3 : ~OccursAt(q, Request, i)
    BY <1>3, <2>2, <2>3, OccursOne
  <2> QED BY <1>1, <1>4, <1>7, <2>1, <2>2, <2>4
<1> QED BY <1>1, <1>5, <1>6, <1>7

\* What the instance takes over from the modules it extends.
LEMMA CepKeeps ==
  ASSUME NEW w
  PROVE  /\ \A p : Cep(w)!is_syn(p) = is_syn(p)
         /\ \A p, q : Cep(w)!HasPattern(p, q) = HasPattern(p, q)
         /\ \A s, I : Cep(w)!Retained(s, I) = Retained(s, I)
<1>1. \A p : Cep(w)!is_syn(p) = is_syn(p)
  BY Zenon DEF Cep!is_syn, is_syn
<1>2. \A p, q : Cep(w)!HasPattern(p, q) = HasPattern(p, q)
  BY Zenon DEF Cep!HasPattern, HasPattern, Cep!OccursAt, OccursAt
<1>3. \A s, I : Cep(w)!Retained(s, I) = Retained(s, I)
  BY Zenon DEF Cep!Retained, Retained
<1> QED BY <1>1, <1>2, <1>3

\* The conditions of the rule's two steps.
LEMMA StepsAre ==
  ASSUME NEW w, NEW p
  PROVE  /\ Len(CepSteps[CepRule]) = 2 /\ CepWindow[CepRule] = Window
         /\ Cep(w)!matches(CepSteps[CepRule][1], p) <=> is_syn(p)
         /\ Cep(w)!matches(CepSteps[CepRule][2], p) <=> Passwd(p)
<1>1. PICK s : s = <<"IsSynOnly", "HasSignaturePayload">>
  OBVIOUS
<1>2. Len(s) = 2 /\ s[1] = "IsSynOnly" /\ s[2] = "HasSignaturePayload"
  BY <1>1
<1>3. CepSteps[CepRule] = s /\ CepWindow[CepRule] = Window
  BY <1>1 DEF CepSteps, CepWindow, CepRules
<1>4. /\ Cep(w)!matches("IsSynOnly", p) <=> is_syn(p)
      /\ Cep(w)!matches("HasSignaturePayload", p) <=> Passwd(p)
  BY CepKeeps DEF Cep!matches, Passwd
<1> QED BY <1>2, <1>3, <1>4

LEMMA Completing ==
  ASSUME NEW w, NEW p, NEW x, x.step = 1
  PROVE  /\ Cep(w)!CanAdvance(CepRule, x, p) <=> Passwd(p)
         /\ Cep(w)!Completes(CepRule, x, p) <=> Passwd(p)
<1>1. 1 < 2 /\ 1 + 1 = 2
  OBVIOUS
<1>2. Cep(w)!CanAdvance(CepRule, x, p) <=> Passwd(p)
  BY <1>1, StepsAre DEF Cep!CanAdvance
<1> QED BY <1>1, <1>2, StepsAre DEF Cep!Completes

\* A match of the new list was in the old one, or begins with the packet.
StartFrom(x, L, p) ==
  \/ \E j \in 1..Len(L) : x.started_at = L[j].started_at
  \/ is_syn(p) /\ x.started_at = clock

\* What happens to the list of a packet's source.
LEMMA ListAfter ==
  ASSUME NEW w, NEW p, clock \in Nat, NEW L \in Seq(Partial),
         L = Cep(w)!Partials(CepRule, p.src_ip), NEW R, R = Cep(w)!Processed(CepRule, p)
  PROVE  /\ R \in Seq(Partial) /\ Len(R) <= Len(L) + 1
         /\ ~is_syn(p) => Len(R) <= Len(L)
         /\ is_syn(p) => Len(R) # 0 /\ R[Len(R)].started_at = clock
         /\ Cep(w)!Fires(CepRule, p) => Passwd(p) /\ Len(L) # 0
         /\ Passwd(p) /\ Len(L) # 0 /\ clock - L[Len(L)].started_at <= Window
              => Cep(w)!Fires(CepRule, p)
         /\ Cep(w)!Fires(CepRule, p)
              => \E j \in 1..Len(L) : clock - L[j].started_at <= Window
         /\ \A i \in 1..Len(R) : StartFrom(R[i], L, p)
<1> DEFINE I == {i \in DOMAIN L : clock - L[i].started_at <= Window}
<1>1. PICK live : live = Retained(L, I)
  OBVIOUS
<1>2. Cep(w)!Unexpired(CepRule, L) = live
  BY <1>1, StepsAre, CepKeeps DEF Cep!Unexpired
<1>3. PICK k \in Nat : k = Len(L)
  BY LenProperties
<1>4. /\ live \in Seq(Partial) /\ Len(live) \in Nat /\ Len(live) <= k
      /\ \E f : Keeps(live, L, I, k, f)
  BY <1>1, <1>3, RetainedElements
<1>5. PICK m \in Nat : m = Len(live)
  BY <1>4
<1>6. \A i \in 1..m : live[i] \in Partial
  BY <1>4, <1>5, ElementOfSeq
<1>7. DOMAIN live = 1..m
  BY <1>4, <1>5, LenProperties
<1>8. Cep(w)!Fires(CepRule, p) <=> Passwd(p) /\ m # 0
  <2>1. Cep(w)!Fires(CepRule, p) <=> \E i \in 1..m : Cep(w)!Completes(CepRule, live[i], p)
    BY <1>2, <1>7 DEF Cep!Fires
  <2>2. \A i \in 1..m : Cep(w)!Completes(CepRule, live[i], p) <=> Passwd(p)
    BY <1>6, Completing DEF Partial
  <2>3. m # 0 <=> 1 \in 1..m
    OBVIOUS
  <2>4. (\E i \in 1..m : TRUE) <=> m # 0
    OBVIOUS
  <2> QED BY <2>1, <2>2, <2>3, <2>4
<1>9. Cep(w)!Fires(CepRule, p) => Passwd(p) /\ Len(L) # 0
  BY <1>3, <1>4, <1>5, <1>8
<1>10. ASSUME Passwd(p), k # 0, clock - L[k].started_at <= Window
       PROVE  Cep(w)!Fires(CepRule, p)
  <2>1. k \in 1..k /\ k \in I
    <3>1. DOMAIN L = 1..k
      BY <1>3, LenProperties
    <3> QED BY <1>10, <3>1
  <2>2. PICK f : Keeps(live, L, I, k, f)
    BY <1>4
  <2>3. PICK i \in 1..m : f[i] = k
    BY <1>5, <2>1, <2>2 DEF Keeps
  <2>4. m # 0
    OBVIOUS
  <2> QED BY <1>8, <1>10, <2>4
<1>live. \A i \in 1..m : \E j \in 1..k : /\ live[i] = L[j]
                                       /\ clock - L[j].started_at <= Window
  <2>1. PICK f : Keeps(live, L, I, k, f)
    BY <1>4
  <2>2. \A i \in 1..m : f[i] \in I \cap (1..k) /\ live[i] = L[f[i]]
    BY <1>5, <2>1 DEF Keeps
  <2> QED BY <2>2
<1>fresh. Cep(w)!Fires(CepRule, p) => \E j \in 1..k : clock - L[j].started_at <= Window
  <2>1. m # 0 => 1 \in 1..m
    OBVIOUS
  <2> QED BY <1>8, <1>live, <2>1
<1>11. PICK A : A = Cep(w)!Advanced(CepRule, live, p)
  OBVIOUS
<1>12. /\ A \in Seq(Moved) /\ Len(A) = m
       /\ ~Cep(w)!Fires(CepRule, p) => A = live
       /\ \A i \in 1..m : A[i].started_at = live[i].started_at
  <2>1. A = [i \in 1..m |->
               IF Cep(w)!Visited(CepRule, live, i, p) /\ Cep(w)!CanAdvance(CepRule, live[i], p)
               THEN [live[i] EXCEPT !.step = @ + 1] ELSE live[i]]
    BY <1>7, <1>11 DEF Cep!Advanced
  <2>2. \A i \in 1..m : /\ [live[i] EXCEPT !.step = @ + 1] \in Moved
                        /\ live[i] \in Moved
    <3>1. ASSUME NEW i \in 1..m
          PROVE  /\ [live[i] EXCEPT !.step = @ + 1] \in Moved
                 /\ live[i] \in Moved
      <4>1. PICK x \in Partial : x = live[i]
        BY <1>6
      <4>2. x.step = 1 /\ x.step + 1 = 2
        BY DEF Partial
      <4> QED BY <4>1, <4>2 DEF Partial, Moved
    <3> QED BY <3>1
  <2>3. A \in [1..m -> Moved]
    BY <2>1, <2>2
  <2>4. A \in Seq(Moved) /\ Len(A) = m
    <3>1. A \in Seq(Moved)
      BY <2>3, SeqDef
    <3>2. DOMAIN A = 1..m
      BY <2>3
    <3> QED BY <3>1, <3>2, LenProperties
  <2>5. ASSUME ~Cep(w)!Fires(CepRule, p)
        PROVE  A = live
    <3>1. \A i \in 1..m : ~Cep(w)!CanAdvance(CepRule, live[i], p)
      <4>1. ~Passwd(p) \/ m = 0
        BY <1>8, <2>5
      <4>2. \A i \in 1..m : m # 0
        OBVIOUS
      <4>3. \A i \in 1..m : live[i].step = 1
        BY <1>6 DEF Partial
      <4> QED BY <4>1, <4>2, <4>3, Completing
    <3>2. \A i \in 1..m : A[i] = live[i]
      BY <2>1, <3>1
    <3> QED BY <1>4, <1>5, <1>6, <2>4, <3>2, SeqEqual
  <2>6. ASSUME NEW i \in 1..m
        PROVE  A[i].started_at = live[i].started_at
    <3>1. PICK x \in Partial : x = live[i]
      BY <1>6
    <3>2. A[i] = x \/ A[i] = [x EXCEPT !.step = @ + 1]
      BY <2>1, <3>1
    <3> QED BY <3>1, <3>2 DEF Partial
  <2> QED BY <2>4, <2>5, <2>6
<1>13. PICK D : D = Cep(w)!Dropped(CepRule, A, p)
  OBVIOUS
<1>14. /\ D \in Seq(Partial) /\ Len(D) \in Nat /\ Len(D) <= m
       /\ \A i \in 1..Len(D) : \E j \in 1..m : D[i].started_at = live[j].started_at
  <2>1. CASE ~Cep(w)!Fires(CepRule, p)
    <3>1. D = live /\ m <= m
      BY <1>12, <1>13, <2>1 DEF Cep!Dropped
    <3> QED BY <1>4, <1>5, <3>1
  <2>2. CASE Cep(w)!Fires(CepRule, p)
    <3> DEFINE K == {i \in DOMAIN A : A[i].step < 2}
    <3>1. D = Retained(A, K)
      BY <1>13, <2>2, StepsAre, CepKeeps DEF Cep!Dropped
    <3>2. /\ D \in Seq(Moved) /\ Len(D) \in Nat /\ Len(D) <= m
          /\ \E f : Keeps(D, A, K, m, f)
      BY <1>12, <3>1, RetainedElements
    <3>3. PICK f : Keeps(D, A, K, m, f)
      BY <3>2
    <3>4. PICK d \in Nat : d = Len(D)
      BY <3>2
    <3>5. ASSUME NEW i \in 1..d PROVE D[i] \in Partial
      <4>1. f[i] \in K /\ D[i] = A[f[i]]
        BY <3>3, <3>4 DEF Keeps
      <4>2. PICK x \in Moved : x = D[i]
        BY <3>2, <3>4, ElementOfSeq
      <4>3. x.step < 2
        BY <4>1, <4>2
      <4> QED BY <4>2, <4>3 DEF Partial, Moved
    <3>6. D \in [1..d -> Partial]
      <4>1. D = [i \in 1..d |-> D[i]]
        BY <3>2, <3>4, LenProperties
      <4> QED BY <3>5, <4>1
    <3>7. D \in Seq(Partial)
      BY <3>6, SeqDef
    <3>8. \A i \in 1..d : f[i] \in 1..m /\ D[i].started_at = live[f[i]].started_at
      BY <1>12, <3>3, <3>4 DEF Keeps
    <3> QED BY <3>2, <3>4, <3>7, <3>8
  <2> QED BY <2>1, <2>2
<1>15. R = IF is_syn(p) THEN Append(D, [step |-> 1, started_at |-> clock]) ELSE D
  <2>1. R = Cep(w)!Started(CepRule, D, p)
    BY <1>2, <1>11, <1>13 DEF Cep!Processed
  <2> QED BY <2>1, StepsAre DEF Cep!Started
<1>starts. \A i \in 1..Len(D) : StartFrom(D[i], L, p)
  BY <1>3, <1>14, <1>live DEF StartFrom
<1>16. CASE is_syn(p)
  <2>1. PICK x \in Partial : x = [step |-> 1, started_at |-> clock]
    BY DEF Partial
  <2>2. R = Append(D, x)
    BY <1>15, <1>16, <2>1
  <2>3. /\ R \in Seq(Partial) /\ Len(R) = Len(D) + 1 /\ R[Len(D) + 1] = x
        /\ \A i \in 1..Len(D) : R[i] = D[i]
    BY <1>14, <2>2, AppendElements
  <2>4. R[Len(R)].started_at = clock
    BY <2>1, <2>3
  <2>5. Len(R) <= k + 1 /\ Len(R) # 0
    BY <1>4, <1>5, <1>14, <2>3
  <2>6. ASSUME NEW i \in 1..Len(R)
        PROVE  StartFrom(R[i], L, p)
    <3>1. i \in 1..Len(D) \/ i = Len(D) + 1
      BY <1>14, <2>3
    <3> QED BY <1>16, <1>starts, <2>1, <2>3, <3>1 DEF StartFrom
  <2> QED BY <1>3, <1>9, <1>10, <1>16, <1>fresh, <2>3, <2>4, <2>5, <2>6
<1>17. CASE ~is_syn(p)
  <2>1. R = D
    BY <1>15, <1>17
  <2>2. Len(R) <= k /\ Len(R) <= k + 1
    BY <1>4, <1>5, <1>14, <2>1
  <2> QED BY <1>3, <1>9, <1>10, <1>14, <1>17, <1>fresh, <1>starts, <2>1, <2>2
<1> QED BY <1>16, <1>17


-----------------------------------------------------------------------------
(* The lists of the workers' engines. *)

\* A worker has the lists of the sources of its shard and of no other.
CepTypes ==
  /\ DOMAIN cep = Workers
  /\ \A w \in Workers : \A key \in DOMAIN cep[w][CepRule] :
       /\ key \in Sources /\ ShardKey[key] % WORKER_COUNT = w
       /\ cep[w][CepRule][key] \in Seq(Partial)

\* The list of a source in worker w, empty if it has none.
ListOf(w, key) == Cep(w)!Partials(CepRule, key)

\* What a worker's engine is after an event: the list of its source, which is
\* there now, is R.
ListSet(w, s, R) ==
  /\ DOMAIN cep' = Workers
  /\ \A v \in Workers : v # w => cep'[v] = cep[v]
  /\ DOMAIN cep'[w][CepRule] = DOMAIN cep[w][CepRule] \cup {s}
  /\ cep'[w][CepRule][s] = R
  /\ \A key \in DOMAIN cep[w][CepRule] : key # s => cep'[w][CepRule][key] = cep[w][CepRule][key]

LEMMA ListType ==
  ASSUME CepTypes, NEW w \in Workers, NEW key
  PROVE  /\ ListOf(w, key) \in Seq(Partial)
         /\ key \in DOMAIN cep[w][CepRule] => ListOf(w, key) = cep[w][CepRule][key]
         /\ key \notin DOMAIN cep[w][CepRule] => ListOf(w, key) = <<>>
BY DEF CepTypes, ListOf, Cep!Partials

LEMMA CepAfter ==
  ASSUME CepTypes, NEW w \in Workers, NEW e, NEW h, Handling(w, e, h)
  PROVE  ListSet(w, e.packet.src_ip, Cep(w)!Processed(CepRule, e.packet))
<1>1. PICK f : f = Cep(w)!ActiveAfter(e.packet)
  OBVIOUS
<1>2. CepRule \in CepRules
  BY DEF CepRules
<1>3. f[CepRule] = [key \in DOMAIN cep[w][CepRule] \cup {e.packet.src_ip} |->
                      IF key = e.packet.src_ip THEN Cep(w)!Processed(CepRule, e.packet)
                      ELSE cep[w][CepRule][key]]
  BY <1>1, <1>2 DEF Cep!ActiveAfter
<1>4. /\ DOMAIN f[CepRule] = DOMAIN cep[w][CepRule] \cup {e.packet.src_ip}
      /\ f[CepRule][e.packet.src_ip] = Cep(w)!Processed(CepRule, e.packet)
      /\ \A key \in DOMAIN cep[w][CepRule] :
           key # e.packet.src_ip => f[CepRule][key] = cep[w][CepRule][key]
  BY <1>3
<1>5. cep' = [cep EXCEPT ![w] = f]
  BY <1>1 DEF Handling
<1>6. cep'[w] = f /\ DOMAIN cep' = Workers /\ \A v \in Workers : v # w => cep'[v] = cep[v]
  BY <1>5 DEF CepTypes
<1> QED BY <1>4, <1>6 DEF ListSet

\* The event that a worker handles is of its shard.
LEMMA HandledShard ==
  ASSUME EngineTypes, OrderInv, NEW w \in Workers, NEW e, NEW h, Handling(w, e, h)
  PROVE  /\ e.packet \in Packets /\ e.packet.src_ip \in Sources
         /\ ShardKey[e.packet.src_ip] % WORKER_COUNT = w
<1>1. PICK q \in Seq(Arrivals) : q = queues[w]
  BY DEF EngineTypes, TrafficTypes
<1>2. q # <<>> /\ e = q[1] /\ e \in Arrivals
  BY <1>1 DEF Handling
<1>3. 1 \in 1..Len(q)
  BY <1>2, TailElements
<1>4. PICK j \in 1..Received(w) : Line(w)[j] = e
  BY <1>1, <1>2, <1>3, LineFacts
<1>5. Shard(e) = w
  BY <1>4 DEF OrderInv
<1>6. e.packet \in Packets
  BY <1>2 DEF Arrivals
<1> QED BY <1>5, <1>6, PacketTypes DEF Shard

LEMMA InitCep ==
  ASSUME EngineInit
  PROVE  CepTypes
<1>1. \A w \in Workers : cep[w][CepRule] = [key \in {} |-> <<>>]
  BY DEF EngineInit, CepRules
<1>2. DOMAIN cep = Workers
  BY DEF EngineInit
<1> QED BY <1>1, <1>2 DEF CepTypes

LEMMA NextCep ==
  ASSUME EngineTypes, OrderInv, CepTypes, [EngineNext]_engineVars
  PROVE  CepTypes'
<1>1. CASE cep' = cep
  BY <1>1 DEF CepTypes
<1>2. ASSUME NEW w \in Workers, Handle(w) PROVE CepTypes'
  <2>1. PICK e, h : Handling(w, e, h)
    BY <1>2, HandleIs DEF EngineTypes
  <2>2. PICK p : p = e.packet
    OBVIOUS
  <2>3. p \in Packets /\ p.src_ip \in Sources /\ ShardKey[p.src_ip] % WORKER_COUNT = w
    BY <2>1, <2>2, HandledShard
  <2>4. PICK R : R = Cep(w)!Processed(CepRule, p)
    OBVIOUS
  <2>5. ListSet(w, p.src_ip, R)
    BY <2>1, <2>2, <2>4, CepAfter
  <2>6. R \in Seq(Partial)
    <3>1. PICK L \in Seq(Partial) : L = Cep(w)!Partials(CepRule, p.src_ip)
      BY ListType DEF ListOf
    <3>2. clock \in Nat
      BY DEF EngineTypes, TrafficTypes
    <3> QED BY <2>4, <3>1, <3>2, ListAfter
  <2> QED BY <2>3, <2>5, <2>6 DEF CepTypes, ListSet
<1> QED BY <1>1, <1>2 DEF EngineNext, NextBatch, Push, Tick, engineVars


\* What is handled is known, in the order in which it was sent.
LEMMA HandledOrder ==
  ASSUME EngineTypes, OrderInv, NEW w \in Workers
  PROVE  /\ \A i \in 1..Len(handled[w]) : /\ handled[w][i].event \in Known
                                          /\ handled[w][i].event.tick \in 1..tick
                                          /\ Shard(handled[w][i].event) = w
         /\ \A i, j \in 1..Len(handled[w]) :
              i < j => Earlier(handled[w][i].event, handled[w][j].event)
<1>1. \A i \in 1..Len(handled[w]) : i \in 1..Received(w) /\ Line(w)[i] = handled[w][i].event
  BY LineFacts
<1>2. \A i \in 1..Received(w) : Line(w)[i] \in Known
  BY DEF Known
<1> QED BY <1>1, <1>2 DEF OrderInv

\* Two entries of a worker are of two events.
LEMMA EntriesDiffer ==
  ASSUME EngineTypes, OrderInv, NEW w \in Workers,
         NEW i \in 1..Len(handled[w]), NEW j \in 1..Len(handled[w]),
         handled[w][i].event.tick = handled[w][j].event.tick,
         handled[w][i].event.n = handled[w][j].event.n
  PROVE  i = j
<1>1. i \in Nat /\ j \in Nat /\ (i < j \/ i = j \/ j < i)
  BY Log
<1>2. PICK t \in Nat, n \in Nat : /\ t = handled[w][i].event.tick /\ n = handled[w][i].event.n
                                  /\ t = handled[w][j].event.tick /\ n = handled[w][j].event.n
  BY Log
<1>3. ~(t < t) /\ ~(n < n)
  OBVIOUS
<1>4. ~Earlier(handled[w][i].event, handled[w][j].event)
      /\ ~Earlier(handled[w][j].event, handled[w][i].event)
  BY <1>2, <1>3 DEF Earlier
<1> QED BY <1>1, <1>4, HandledOrder

\* The SYNs that a worker has handled.
SynsHandled(w) == {i \in 1..Len(handled[w]) : is_syn(handled[w][i].event.packet)}

LEMMA ProductGrows ==
  ASSUME NEW t \in Nat, NEW m \in Nat, NEW p \in Nat, t <= m
  PROVE  t * p <= m * p
<1>1. PICK d \in Nat : m = t + d
  <2>1. m - t \in Nat /\ m = t + (m - t)
    OBVIOUS
  <2> QED BY <2>1
<1>2. (t + d) * p = t * p + d * p /\ t * p \in Nat /\ d * p \in Nat
  OBVIOUS
<1> QED BY <1>1, <1>2

LEMMA SynsHandledBound ==
  ASSUME EngineBase, NEW w \in Workers
  PROVE  /\ IsFiniteSet(SynsHandled(w))
         /\ Cardinality(SynsHandled(w)) <= MaxTicks * PerTick
<1>1. EngineTypes /\ OrderInv /\ SynsBounded
  BY DEF EngineBase
<1>2. PICK I : /\ IsFiniteSet(I) /\ Cardinality(I) <= tick * PerTick
               /\ \A e \in Known : is_syn(e.packet) => <<e.tick, e.n>> \in I
  BY <1>1 DEF SynsBounded
<1>3. PICK S : S = SynsHandled(w)
  OBVIOUS
<1>4. PICK f : f = [i \in S |-> <<handled[w][i].event.tick, handled[w][i].event.n>>]
  OBVIOUS
<1>5. \A i \in S : i \in 1..Len(handled[w]) /\ f[i] \in I
  BY <1>1, <1>2, <1>3, <1>4, HandledOrder DEF SynsHandled
<1>6. f \in [S -> I]
  BY <1>4, <1>5
<1>7. ASSUME NEW i \in S, NEW j \in S, f[i] = f[j]
      PROVE  i = j
  <2>1. /\ handled[w][i].event.tick = handled[w][j].event.tick
        /\ handled[w][i].event.n = handled[w][j].event.n
    BY <1>4, <1>7
  <2> QED BY <1>1, <1>5, <2>1, EntriesDiffer
<1>8. IsFiniteSet(S) /\ Cardinality(S) <= Cardinality(I)
  BY <1>2, <1>6, <1>7, IntoBound
<1>9. tick * PerTick \in Nat /\ MaxTicks * PerTick \in Nat /\ tick * PerTick <= MaxTicks * PerTick
  <2>1. PICK t \in Nat, m \in Nat, p \in Nat : t = tick /\ m = MaxTicks /\ p = PerTick /\ t <= m
    BY <1>1, WorkersAre, PerTickIs DEF EngineTypes, TrafficTypes
  <2>2. t * p \in Nat /\ m * p \in Nat /\ t * p <= m * p
    BY <2>1, ProductGrows
  <2> QED BY <2>1, <2>2
<1>10. Cardinality(S) \in Nat /\ Cardinality(I) \in Nat
  BY <1>2, <1>8, FS_CardinalityType
<1> QED BY <1>2, <1>3, <1>8, <1>9, <1>10

\* A worker has at most one partial match for every SYN it has handled.
CountInv ==
  \A w \in Workers : \A key \in DOMAIN cep[w][CepRule] :
    Len(cep[w][CepRule][key]) <= Cardinality(SynsHandled(w))

\* The SYNs handled after an event.
LEMMA SynsAfter ==
  ASSUME EngineTypes, NEW w \in Workers, NEW e, NEW h, Handling(w, e, h)
  PROVE  /\ SynsHandled(w)' = IF is_syn(e.packet)
                              THEN SynsHandled(w) \cup {Len(handled[w]) + 1} ELSE SynsHandled(w)
         /\ Len(handled[w]) + 1 \notin SynsHandled(w) /\ IsFiniteSet(SynsHandled(w))
         /\ \A v \in Workers : v # w => SynsHandled(v)' = SynsHandled(v)
<1>1. PICK k \in Nat : k = Len(handled[w])
  BY Log
<1>2. /\ Len(handled'[w]) = k + 1 /\ handled'[w][k + 1] = h
      /\ \A i \in 1..k : handled'[w][i] = handled[w][i]
      /\ \A v \in Workers : v # w => handled'[v] = handled[v]
  BY <1>1, Entered
<1>3. h.event.packet = e.packet
  BY EntryRaised
<1>4. \A i : i \in 1..(k + 1) <=> i \in 1..k \/ i = k + 1
  OBVIOUS
<1>5. SynsHandled(w)' = {i \in 1..(k + 1) : is_syn(handled'[w][i].event.packet)}
  BY <1>2 DEF SynsHandled, is_syn
<1>6. SynsHandled(w) = {i \in 1..k : is_syn(handled[w][i].event.packet)}
  BY <1>1 DEF SynsHandled
<1>7. SynsHandled(w)' = IF is_syn(e.packet) THEN SynsHandled(w) \cup {k + 1} ELSE SynsHandled(w)
  BY <1>2, <1>3, <1>4, <1>5, <1>6
<1>8. k + 1 \notin SynsHandled(w) /\ IsFiniteSet(SynsHandled(w))
  <2>1. k + 1 \notin 1..k
    OBVIOUS
  <2>2. IsFiniteSet(1..k)
    BY FS_Interval
  <2>3. SynsHandled(w) \subseteq 1..k
    BY <1>6
  <2> QED BY <2>1, <2>2, <2>3, FS_Subset
<1>9. \A v \in Workers : v # w => SynsHandled(v)' = SynsHandled(v)
  BY <1>2 DEF SynsHandled, is_syn
<1> QED BY <1>1, <1>7, <1>8, <1>9

LEMMA InitCount ==
  ASSUME EngineInit
  PROVE  CountInv
<1>1. \A w \in Workers : DOMAIN cep[w][CepRule] = {}
  BY DEF EngineInit, CepRules
<1> QED BY <1>1 DEF CountInv

LEMMA NextCount ==
  ASSUME EngineTypes, OrderInv, CepTypes, CountInv, [EngineNext]_engineVars
  PROVE  CountInv'
<1>1. CASE cep' = cep /\ handled' = handled
  BY <1>1 DEF CountInv, SynsHandled, is_syn
<1>2. ASSUME NEW w \in Workers, Handle(w) PROVE CountInv'
  <2>1. PICK e, h : Handling(w, e, h)
    BY <1>2, HandleIs DEF EngineTypes
  <2>2. PICK p : p = e.packet
    OBVIOUS
  <2>3. PICK L \in Seq(Partial) : L = Cep(w)!Partials(CepRule, p.src_ip)
    BY ListType DEF ListOf
  <2>4. PICK R : R = Cep(w)!Processed(CepRule, p)
    OBVIOUS
  <2>5. R \in Seq(Partial) /\ Len(R) <= Len(L) + 1 /\ (~is_syn(p) => Len(R) <= Len(L))
    <3>1. clock \in Nat
      BY DEF EngineTypes, TrafficTypes
    <3> QED BY <2>3, <2>4, <3>1, ListAfter
  <2>6. ListSet(w, p.src_ip, R)
    BY <2>1, <2>2, <2>4, CepAfter
  <2>7. PICK S, T : /\ S = SynsHandled(w) /\ T = SynsHandled(w)' /\ IsFiniteSet(S)
                    /\ T = IF is_syn(p) THEN S \cup {Len(handled[w]) + 1} ELSE S
                    /\ Len(handled[w]) + 1 \notin S
    BY <2>1, <2>2, SynsAfter
  <2>8. PICK c \in Nat, d \in Nat :
           /\ c = Cardinality(S) /\ d = Cardinality(T) /\ c <= d /\ (is_syn(p) => d = c + 1)
    <3>1. Cardinality(S) \in Nat
      BY <2>7, FS_CardinalityType
    <3>2. is_syn(p) => Cardinality(T) = Cardinality(S) + 1
      BY <2>7, FS_AddElement
    <3> QED BY <2>7, <3>1, <3>2
  <2>9. Len(L) <= c
    <3>1. p.src_ip \in DOMAIN cep[w][CepRule] => Len(L) <= c
      BY <2>3, <2>7, <2>8, ListType DEF ListOf, CountInv
    <3>2. p.src_ip \notin DOMAIN cep[w][CepRule] => Len(L) = 0
      BY <2>3, ListType DEF ListOf
    <3> QED BY <2>8, <3>1, <3>2
  <2>10. Len(R) <= d
    <3>1. PICK l \in Nat, r \in Nat : l = Len(L) /\ r = Len(R)
      BY <2>3, <2>5, LenProperties
    <3> QED BY <2>5, <2>8, <2>9, <3>1
  <2>11. ASSUME NEW key \in DOMAIN cep[w][CepRule], key # p.src_ip
         PROVE  Len(cep[w][CepRule][key]) <= d
    <3>1. PICK l \in Nat : l = Len(cep[w][CepRule][key])
      BY <2>11, LenProperties DEF CepTypes
    <3>2. l <= c
      BY <2>7, <2>8, <3>1 DEF CountInv
    <3> QED BY <2>8, <3>1, <3>2
  <2>12. \A v \in Workers : v # w => SynsHandled(v)' = SynsHandled(v)
    BY <2>1, SynsAfter
  <2>13. \A key \in DOMAIN cep'[w][CepRule] : Len(cep'[w][CepRule][key]) <= Cardinality(T)
    BY <2>6, <2>8, <2>10, <2>11 DEF ListSet
  <2>14. \A v \in Workers : v # w => \A key \in DOMAIN cep'[v][CepRule] :
            Len(cep'[v][CepRule][key]) <= Cardinality(SynsHandled(v)')
    BY <2>6, <2>12 DEF ListSet, CountInv
  <2> QED BY <2>7, <2>13, <2>14 DEF CountInv
<1> QED BY <1>1, <1>2 DEF EngineNext, NextBatch, Push, Tick, engineVars


SynsFew ==
  \A w \in Workers : /\ IsFiniteSet(SynsHandled(w))
                     /\ Cardinality(SynsHandled(w)) <= MaxTicks * PerTick

CepInv == EngineBase /\ CepTypes /\ CountInv /\ SynsFew

LEMMA CepInvariant == EngineSpec => []CepInv
<1>1. EngineInit => CepTypes /\ CountInv
  BY InitCep, InitCount
<1>2. EngineBase /\ CepTypes /\ CountInv /\ [EngineNext]_engineVars => CepTypes' /\ CountInv'
  BY NextCep, NextCount DEF EngineBase
<1>3. EngineSpec => [](CepTypes /\ CountInv)
  BY <1>1, <1>2, EngineInvariant, PTL DEF EngineSpec
<1>4. EngineBase => SynsFew
  BY SynsHandledBound DEF SynsFew
<1> QED BY <1>3, <1>4, EngineInvariant, PTL DEF CepInv

-----------------------------------------------------------------------------
(* The workers' engines together are one engine. *)

\* The lists of the workers' engines c, put together.
Merged(c) ==
  [r \in CepRules |->
    [key \in UNION {DOMAIN c[w][r] : w \in Workers} |->
       c[CHOOSE w \in Workers : key \in DOMAIN c[w][r]][r][key]]]

\* Every worker has lists of its own shard.
Apart(c) ==
  \A w \in Workers : \A key \in DOMAIN c[w][CepRule] : ShardKey[key] % WORKER_COUNT = w

LEMMA MergedIs ==
  ASSUME NEW c, Apart(c)
  PROVE  /\ Merged(c) = [r \in CepRules |-> Merged(c)[CepRule]]
         /\ Merged(c)[CepRule] = [key \in DOMAIN Merged(c)[CepRule] |-> Merged(c)[CepRule][key]]
         /\ \A key : key \in DOMAIN Merged(c)[CepRule]
                       <=> \E w \in Workers : key \in DOMAIN c[w][CepRule]
         /\ \A w \in Workers : \A key \in DOMAIN c[w][CepRule] :
              Merged(c)[CepRule][key] = c[w][CepRule][key]
<1> DEFINE D == UNION {DOMAIN c[w][CepRule] : w \in Workers}
           Home(key) == CHOOSE w \in Workers : key \in DOMAIN c[w][CepRule]
<1>1. Merged(c)[CepRule] = [key \in D |-> c[Home(key)][CepRule][key]]
  BY DEF Merged, CepRules
<1>2. ASSUME NEW w \in Workers, NEW key \in DOMAIN c[w][CepRule]
      PROVE  key \in D /\ Home(key) = w
  <2>1. Home(key) \in Workers /\ key \in DOMAIN c[Home(key)][CepRule]
    OBVIOUS
  <2>2. ShardKey[key] % WORKER_COUNT = w /\ ShardKey[key] % WORKER_COUNT = Home(key)
    BY <2>1 DEF Apart
  <2> QED BY <2>2
<1>3. \A key : key \in D <=> \E w \in Workers : key \in DOMAIN c[w][CepRule]
  OBVIOUS
<1>4. Merged(c) = [r \in CepRules |-> Merged(c)[CepRule]]
  BY DEF Merged, CepRules
<1> HIDE DEF D, Home
<1>5. DOMAIN Merged(c)[CepRule] = D
  BY <1>1
<1>6. \A w \in Workers : \A key \in DOMAIN c[w][CepRule] :
        Merged(c)[CepRule][key] = c[w][CepRule][key]
  BY <1>1, <1>2
<1>7. Merged(c)[CepRule] = [key \in DOMAIN Merged(c)[CepRule] |-> Merged(c)[CepRule][key]]
  BY <1>1, <1>5
<1> QED BY <1>3, <1>4, <1>5, <1>6, <1>7

LEMMA MergedPartials ==
  ASSUME CepTypes, NEW w \in Workers, NEW s \in Sources, ShardKey[s] % WORKER_COUNT = w
  PROVE  Whole!Partials(CepRule, s) = Cep(w)!Partials(CepRule, s)
<1>1. Apart(cep)
  BY DEF CepTypes, Apart
<1>2. PICK G : G = Merged(cep)
  OBVIOUS
<1>3. Whole!Partials(CepRule, s) = IF s \in DOMAIN G[CepRule] THEN G[CepRule][s] ELSE <<>>
  BY <1>2 DEF Whole!Partials, Merged
<1>4. Cep(w)!Partials(CepRule, s)
        = IF s \in DOMAIN cep[w][CepRule] THEN cep[w][CepRule][s] ELSE <<>>
  BY DEF Cep!Partials
<1>5. \A v \in Workers : s \in DOMAIN cep[v][CepRule] => v = w
  BY <1>1 DEF Apart
<1>6. s \in DOMAIN G[CepRule] <=> s \in DOMAIN cep[w][CepRule]
  BY <1>1, <1>2, <1>5, MergedIs
<1>7. s \in DOMAIN cep[w][CepRule] => G[CepRule][s] = cep[w][CepRule][s]
  BY <1>1, <1>2, MergedIs
<1> QED BY <1>3, <1>4, <1>6, <1>7

\* The packet as the engine sees it, without the kind of traffic it is.
Seen(p) == [src_ip |-> p.src_ip, dst_port |-> p.dst_port, flags |-> p.flags,
            payload_sample |-> p.payload_sample]

LEMMA WholeMatches ==
  ASSUME NEW w, NEW p, NEW c
  PROVE  Whole!matches(c, Seen(p)) <=> Cep(w)!matches(c, p)
<1>1. Whole!is_syn(Seen(p)) <=> Cep(w)!is_syn(p)
  BY DEF Whole!is_syn, Cep!is_syn, Seen
<1>2. Whole!HasPattern(Seen(p), <<"passwd">>) <=> Cep(w)!HasPattern(p, <<"passwd">>)
  <2>1. Seen(p).payload_sample = p.payload_sample
    BY DEF Seen
  <2> QED BY <2>1 DEF Whole!HasPattern, Cep!HasPattern, Whole!OccursAt, Cep!OccursAt
<1>3. Seen(p).dst_port = p.dst_port
  BY DEF Seen
<1> QED BY <1>1, <1>2, <1>3 DEF Whole!matches, Cep!matches

LEMMA WholeProcesses ==
  ASSUME CepTypes, NEW w \in Workers, NEW p, p.src_ip \in Sources,
         ShardKey[p.src_ip] % WORKER_COUNT = w
  PROVE  Whole!Processed(CepRule, Seen(p)) = Cep(w)!Processed(CepRule, p)
<1>1. PICK v : v = Seen(p)
  OBVIOUS
<1>2. \A c : Whole!matches(c, v) <=> Cep(w)!matches(c, p)
  BY <1>1, WholeMatches
<1>3. \A x : Whole!CanAdvance(CepRule, x, v) <=> Cep(w)!CanAdvance(CepRule, x, p)
  BY <1>2 DEF Whole!CanAdvance, Cep!CanAdvance
<1>4. \A x : Whole!Completes(CepRule, x, v) <=> Cep(w)!Completes(CepRule, x, p)
  BY <1>3 DEF Whole!Completes, Cep!Completes
<1>5. \A l, i : Whole!Visited(CepRule, l, i, v) <=> Cep(w)!Visited(CepRule, l, i, p)
  BY <1>4 DEF Whole!Visited, Cep!Visited
<1>6. \A l : Whole!Advanced(CepRule, l, v) = Cep(w)!Advanced(CepRule, l, p)
  BY <1>3, <1>5 DEF Whole!Advanced, Cep!Advanced
<1>7. \A l, I : Whole!Retained(l, I) = Cep(w)!Retained(l, I)
  BY Zenon DEF Whole!Retained, Cep!Retained
<1>8. \A l : Whole!Unexpired(CepRule, l) = Cep(w)!Unexpired(CepRule, l)
  BY <1>7 DEF Whole!Unexpired, Cep!Unexpired
<1>9. v.src_ip = p.src_ip
  BY <1>1 DEF Seen
<1>10. PICK live : /\ live = Whole!Unexpired(CepRule, Whole!Partials(CepRule, v.src_ip))
                   /\ live = Cep(w)!Unexpired(CepRule, Cep(w)!Partials(CepRule, p.src_ip))
  BY <1>8, <1>9, MergedPartials
<1>11. Whole!Fires(CepRule, v) <=> Cep(w)!Fires(CepRule, p)
  BY <1>4, <1>10 DEF Whole!Fires, Cep!Fires
<1>12. \A l : Whole!Dropped(CepRule, l, v) = Cep(w)!Dropped(CepRule, l, p)
  BY <1>7, <1>11 DEF Whole!Dropped, Cep!Dropped
<1>13. \A l : Whole!Started(CepRule, l, v) = Cep(w)!Started(CepRule, l, p)
  BY <1>2 DEF Whole!Started, Cep!Started
<1> QED BY <1>1, <1>6, <1>10, <1>12, <1>13 DEF Whole!Processed, Cep!Processed


\* The step in which a worker handles an event is process of the one engine.
LEMMA WholeHandles ==
  ASSUME CepInv, CepInv', NEW w \in Workers, Handle(w)
  PROVE  \E event \in Whole!Events : Whole!process(event)
<1>1. EngineTypes /\ OrderInv /\ CepTypes
  BY DEF CepInv, EngineBase
<1>2. PICK e, h : Handling(w, e, h)
  BY <1>1, HandleIs DEF EngineTypes
<1>3. PICK p : p = e.packet
  OBVIOUS
<1>4. p \in Packets /\ p.src_ip \in Sources /\ ShardKey[p.src_ip] % WORKER_COUNT = w
  BY <1>1, <1>2, <1>3, HandledShard
<1>5. PICK v : v = Seen(p)
  OBVIOUS
<1>6. v \in Whole!Events
  <2>1. PICK x \in Shapes : x = [dst_port |-> p.dst_port, flags |-> p.flags,
                                 payload_sample |-> p.payload_sample]
    BY <1>4, PacketFacts
  <2>2. v = [src_ip |-> p.src_ip, dst_port |-> x.dst_port, flags |-> x.flags,
             payload_sample |-> x.payload_sample]
    BY <1>5, <2>1 DEF Seen
  <2> QED BY <1>4, <2>2 DEF Whole!Events
<1>7. PICK R : R = Whole!Processed(CepRule, v) /\ R = Cep(w)!Processed(CepRule, p)
  BY <1>1, <1>4, <1>5, WholeProcesses
<1>8. ListSet(w, p.src_ip, R)
  BY <1>1, <1>2, <1>3, <1>7, CepAfter
<1>9. PICK F, G : F = Merged(cep') /\ G = Merged(cep)
  OBVIOUS
<1>10. Apart(cep) /\ Apart(cep')
  BY DEF CepInv, CepTypes, Apart
<1>11. F = [r \in CepRules |-> [key \in DOMAIN G[r] \cup {p.src_ip} |->
                                  IF key = p.src_ip THEN Whole!Processed(r, v) ELSE G[r][key]]]
  <2>1. \A key : key \in DOMAIN F[CepRule] <=> key \in DOMAIN G[CepRule] \cup {p.src_ip}
    <3>1. \A key : key \in DOMAIN F[CepRule] <=> \E u \in Workers : key \in DOMAIN cep'[u][CepRule]
      BY <1>9, <1>10, MergedIs
    <3>2. \A key : key \in DOMAIN G[CepRule] <=> \E u \in Workers : key \in DOMAIN cep[u][CepRule]
      BY <1>9, <1>10, MergedIs
    <3>3. \A u \in Workers : \A key : key \in DOMAIN cep'[u][CepRule]
            <=> key \in DOMAIN cep[u][CepRule] \/ (u = w /\ key = p.src_ip)
      BY <1>8 DEF ListSet
    <3> QED BY <3>1, <3>2, <3>3
  <2>2. F[CepRule][p.src_ip] = R
    <3>1. p.src_ip \in DOMAIN cep'[w][CepRule] /\ cep'[w][CepRule][p.src_ip] = R
      BY <1>8 DEF ListSet
    <3> QED BY <1>9, <1>10, <3>1, MergedIs
  <2>3. ASSUME NEW key \in DOMAIN G[CepRule], key # p.src_ip
        PROVE  F[CepRule][key] = G[CepRule][key]
    <3>1. PICK u \in Workers : key \in DOMAIN cep[u][CepRule]
      BY <1>9, <1>10, MergedIs
    <3>2. key \in DOMAIN cep'[u][CepRule] /\ cep'[u][CepRule][key] = cep[u][CepRule][key]
      BY <1>8, <2>3, <3>1 DEF ListSet
    <3> QED BY <1>9, <1>10, <3>1, <3>2, MergedIs
  <2>4. F = [r \in CepRules |-> F[CepRule]] /\ F[CepRule] = [key \in DOMAIN F[CepRule] |-> F[CepRule][key]]
    BY <1>9, <1>10, MergedIs
  <2>5. DOMAIN F[CepRule] = DOMAIN G[CepRule] \cup {p.src_ip}
    BY <2>1
  <2>6. F[CepRule] = [key \in DOMAIN G[CepRule] \cup {p.src_ip} |->
                        IF key = p.src_ip THEN Whole!Processed(CepRule, v) ELSE G[CepRule][key]]
    BY <1>7, <2>2, <2>3, <2>4, <2>5
  <2> QED BY <2>4, <2>6 DEF CepRules
<1>12. \A r \in CepRules : Len(Whole!Processed(r, v)) <= MaxTicks * (FloodBurst + Len(ScannedPorts) + 1)
  <2>1. CountInv' /\ SynsFew'
    BY DEF CepInv
  <2>2. PICK S : S = SynsHandled(w)' /\ Cardinality(S) <= MaxTicks * PerTick /\ IsFiniteSet(S)
    BY <2>1 DEF SynsFew
  <2>3. Len(R) <= Cardinality(S)
    BY <1>8, <2>1, <2>2 DEF CountInv, ListSet
  <2>4. R \in Seq(Partial)
    BY <1>8 DEF CepInv, CepTypes, ListSet
  <2>5. PICK r \in Nat, c \in Nat : r = Len(R) /\ c = Cardinality(S)
    BY <2>2, <2>4, LenProperties, FS_CardinalityType
  <2>6. PICK m \in Nat : m = MaxTicks * PerTick
    BY PerTickIs, WorkersAre
  <2>7. r <= m
    BY <2>2, <2>3, <2>5, <2>6
  <2> QED BY <1>7, <2>5, <2>6, <2>7 DEF CepRules, PerTick
<1>13. clock' = clock
  BY <1>2 DEF Handling
<1>14. Whole!ActiveAfter(v) = F
  <2>1. Whole!ActiveAfter(v)
          = [r \in CepRules |-> [key \in DOMAIN G[r] \cup {v.src_ip} |->
                                   IF key = v.src_ip THEN Whole!Processed(r, v) ELSE G[r][key]]]
    BY <1>9 DEF Whole!ActiveAfter, Merged
  <2>2. v.src_ip = p.src_ip
    BY <1>5 DEF Seen
  <2> QED BY <1>11, <2>1, <2>2
<1>15. Whole!process(v)
  BY <1>9, <1>12, <1>13, <1>14 DEF Whole!process, Merged
<1> QED BY <1>6, <1>15

LEMMA WholeSteps ==
  ASSUME CepInv, CepInv', [EngineNext]_engineVars
  PROVE  [Whole!CepNext]_(Whole!cepVars)
<1>1. CASE cep' = cep /\ clock' = clock
  BY <1>1 DEF Whole!cepVars
<1>2. CASE Tick
  BY <1>2 DEF Tick, Whole!Tick, Whole!CepNext
<1>3. ASSUME NEW w \in Workers, Handle(w) PROVE Whole!CepNext
  BY <1>3, WholeHandles DEF Whole!CepNext
<1> QED BY <1>1, <1>2, <1>3 DEF EngineNext, NextBatch, Push, engineVars

LEMMA WholeInit ==
  ASSUME EngineInit
  PROVE  Whole!CepInit
<1>1. UNION {DOMAIN cep[w][CepRule] : w \in Workers} = {}
  <2>1. \A w \in Workers : DOMAIN cep[w][CepRule] = {}
    BY DEF EngineInit, CepRules
  <2> QED BY <2>1
<1>2. clock = 0
  BY DEF EngineInit
<1>3. Merged(cep) = [r \in CepRules |-> [key \in {} |-> <<>>]]
  BY <1>1 DEF Merged, CepRules
<1> QED BY <1>2, <1>3 DEF Whole!CepInit, Merged

\* "which is now correct rather than approximate": for any number of workers and
\* any assignment of sources to them, the workers' engines together do what one
\* engine would do that saw every event.
THEOREM ShardedEngineIsWhole == EngineSpec => ShardedAsWhole
<1>1. EngineInit => Whole!CepInit
  BY WholeInit
<1>2. CepInv /\ CepInv' /\ [EngineNext]_engineVars => [Whole!CepNext]_(Whole!cepVars)
  BY WholeSteps
<1>3. Whole!CepSpec <=> Whole!CepInit /\ [][Whole!CepNext]_(Whole!cepVars)
  BY DEF Whole!CepSpec
<1> QED BY <1>1, <1>2, <1>3, CepInvariant, PTL DEF EngineSpec, ShardedAsWhole

-----------------------------------------------------------------------------
(* A probe and its exploit. *)

\* What follows a SYN of the same source within the window and has the pattern
\* of the second step is reported.
FollowUp(log, i) ==
  /\ is_syn(log[i].event.packet) /\ Passwd(log[i + 1].event.packet)
  /\ log[i].event.packet.src_ip = log[i + 1].event.packet.src_ip
  /\ log[i + 1].at - log[i].at <= Window
  => Raised(log[i + 1], CepRule)

\* The youngest partial match of s began at that time.
Waiting(engine, s, at) ==
  /\ s \in DOMAIN engine[CepRule] /\ Len(engine[CepRule][s]) # 0
  /\ engine[CepRule][s][Len(engine[CepRule][s])].started_at = at

\* Every pair of entries is reported that has to be, and after a SYN its partial
\* match is the youngest of its source.
SequenceAt(log, engine) ==
  /\ \A i \in 1..(Len(log) - 1) : FollowUp(log, i)
  /\ Len(log) # 0 /\ is_syn(log[Len(log)].event.packet) =>
       Waiting(engine, log[Len(log)].event.packet.src_ip, log[Len(log)].at)

SequenceInv == \A w \in Workers : SequenceAt(handled[w], cep[w])

LEMMA InitSequence ==
  ASSUME EngineInit
  PROVE  SequenceInv
<1>1. \A w \in Workers : Len(handled[w]) = 0
  BY DEF EngineInit
<1>2. \A i \in 1..(0 - 1) : FALSE
  OBVIOUS
<1> QED BY <1>1, <1>2 DEF SequenceInv, SequenceAt

LEMMA NextSequence ==
  ASSUME EngineTypes, OrderInv, CepTypes, SequenceInv, [EngineNext]_engineVars
  PROVE  SequenceInv'
<1>1. CASE cep' = cep /\ handled' = handled
  BY <1>1 DEF SequenceInv
<1>2. ASSUME NEW w \in Workers, Handle(w) PROVE SequenceInv'
  <2>1. PICK e, h : Handling(w, e, h)
    BY <1>2, HandleIs DEF EngineTypes
  <2>2. PICK p, s : p = e.packet /\ s = p.src_ip
    OBVIOUS
  <2>3. PICK k, log, longer : k \in Nat /\ k = Len(log) /\ log = handled[w] /\ longer = handled'[w]
    BY Log
  <2>4. /\ Len(longer) = k + 1 /\ longer[k + 1] = h /\ \A i \in 1..k : longer[i] = log[i]
        /\ \A v \in Workers : v # w => handled'[v] = handled[v]
    BY <2>1, <2>3, Entered
  <2>5. /\ h.event.packet = p /\ h.at = clock
        /\ Raised(h, CepRule) <=> Cep(w)!Fires(CepRule, p)
    BY <2>1, <2>2, EntryRaised
  <2>6. PICK L, R : /\ L \in Seq(Partial) /\ L = Cep(w)!Partials(CepRule, s)
                    /\ R = Cep(w)!Processed(CepRule, p)
    BY ListType DEF ListOf
  <2>7. /\ is_syn(p) => Len(R) # 0 /\ R[Len(R)].started_at = clock
        /\ Passwd(p) /\ Len(L) # 0 /\ clock - L[Len(L)].started_at <= Window
             => Cep(w)!Fires(CepRule, p)
    <3>1. clock \in Nat
      BY DEF EngineTypes, TrafficTypes
    <3> QED BY <2>2, <2>6, <3>1, ListAfter
  <2>8. ListSet(w, s, R)
    BY <2>1, <2>2, <2>6, CepAfter
  <2>9. is_syn(p) => Waiting(cep'[w], s, clock)
    BY <2>7, <2>8 DEF ListSet, Waiting
  <2>10. ASSUME k # 0
         PROVE  FollowUp(longer, k)
    <3>1. k \in 1..k
      BY <2>3, <2>10
    <3>2. longer[k] = log[k] /\ longer[k + 1] = h
      BY <2>4, <3>1
    <3>3. SUFFICES ASSUME is_syn(log[k].event.packet), Passwd(p),
                          log[k].event.packet.src_ip = s, clock - log[k].at <= Window
                   PROVE  Raised(h, CepRule)
      BY <2>2, <2>5, <3>2 DEF FollowUp
    <3>4. Waiting(cep[w], s, log[k].at)
      BY <2>3, <2>10, <3>3 DEF SequenceInv, SequenceAt
    <3>5. Len(L) # 0 /\ L[Len(L)].started_at = log[k].at
      <4>1. L = cep[w][CepRule][s]
        BY <2>6, <3>4, ListType DEF Waiting, ListOf
      <4> QED BY <3>4, <4>1 DEF Waiting
    <3> QED BY <2>5, <2>7, <3>3, <3>5
  <2>11. ASSUME NEW i \in 1..(k + 1 - 1)
         PROVE  FollowUp(longer, i)
    <3>1. i \in 1..k /\ (i = k \/ (i \in 1..(k - 1) /\ i + 1 \in 1..k))
      BY <2>3
    <3>2. CASE i = k
      <4>1. k # 0
        BY <3>1, <3>2
      <4> QED BY <2>10, <3>2, <4>1
    <3>3. CASE i \in 1..(k - 1) /\ i + 1 \in 1..k
      <4>1. longer[i] = log[i] /\ longer[i + 1] = log[i + 1]
        BY <2>4, <3>1, <3>3
      <4>2. FollowUp(log, i)
        BY <2>3, <3>3 DEF SequenceInv, SequenceAt
      <4> QED BY <4>1, <4>2 DEF FollowUp
    <3> QED BY <3>1, <3>2, <3>3
  <2>12. SequenceAt(longer, cep'[w])
    BY <2>2, <2>3, <2>4, <2>5, <2>9, <2>11 DEF SequenceAt
  <2>13. \A v \in Workers : v # w => SequenceAt(handled'[v], cep'[v])
    BY <2>4, <2>8 DEF SequenceInv, ListSet
  <2> QED BY <2>3, <2>12, <2>13 DEF SequenceInv
<1> QED BY <1>1, <1>2 DEF EngineNext, NextBatch, Push, Tick, engineVars

\* Where the i-th packet of a batch is, by the attack it is part of.
Placed(b, k, l, m, n, i) ==
  /\ b[i].kind = "flood" => i \in (k + 1)..l
  /\ b[i].kind = "probe" => i = m + 1 /\ i \in (m + 1)..n
  /\ b[i].kind = "exploit" => i = m + 2 /\ i \in (m + 1)..n
  /\ b[i].kind = "scan" => i \in (n + 1)..Len(b)

LEMMA Places ==
  ASSUME NEW b, NEW k \in Nat, NEW l \in Nat, NEW m \in Nat, NEW n \in Nat, Laid(b, k, l, m, n),
         NEW i \in 1..Len(b)
  PROVE  Placed(b, k, l, m, n, i)
<1>1. PICK o \in Nat : o = Len(b)
  BY LenProperties DEF Laid
<1>2. /\ k <= l /\ l <= m /\ m <= n /\ n <= o /\ n - m \in {0, 2}
      /\ \A j \in 1..k : b[j].kind = "benign"
      /\ \A j \in (k + 1)..l : b[j].kind = "flood"
      /\ \A j \in (l + 1)..m : b[j].kind = "payload"
      /\ \A j \in (m + 1)..n : /\ j = m + 1 => b[j].kind = "probe"
                               /\ j = m + 2 => b[j].kind = "exploit"
      /\ \A j \in (n + 1)..o : b[j].kind = "scan"
  BY <1>1 DEF Laid
<1>3. \/ i \in 1..k \/ i \in (k + 1)..l \/ i \in (l + 1)..m
      \/ (i \in (m + 1)..n /\ i = m + 1) \/ (i \in (m + 1)..n /\ i = m + 2)
      \/ i \in (n + 1)..o
  BY <1>1, <1>2
<1>4. CASE i \in 1..k
  BY <1>2, <1>4 DEF Placed
<1>5. CASE i \in (k + 1)..l
  BY <1>2, <1>5 DEF Placed
<1>6. CASE i \in (l + 1)..m
  BY <1>2, <1>6 DEF Placed
<1>7. CASE i \in (m + 1)..n /\ i = m + 1
  BY <1>2, <1>7 DEF Placed
<1>8. CASE i \in (m + 1)..n /\ i = m + 2
  BY <1>2, <1>8 DEF Placed
<1>9. CASE i \in (n + 1)..o
  BY <1>1, <1>2, <1>9 DEF Placed
<1> QED BY <1>3, <1>4, <1>5, <1>6, <1>7, <1>8, <1>9

\* The batch of a tick, as far as it is handled.
Drawn(t, b, k, l, m, n) ==
  /\ k \in Nat /\ l \in Nat /\ m \in Nat /\ n \in Nat /\ Laid(b, k, l, m, n)
  /\ \A w \in Workers : \A i \in 1..Len(handled[w]) :
       handled[w][i].event.tick = t => /\ handled[w][i].event.n \in 1..Len(b)
                                       /\ handled[w][i].event.packet = b[handled[w][i].event.n]

LEMMA DrawnAt ==
  ASSUME EngineTypes, OrderInv, DrawnInv, NEW t \in 1..tick
  PROVE  \E b, k, l, m, n : Drawn(t, b, k, l, m, n)
<1>1. PICK b : (\E k, l, m, n \in Nat : Laid(b, k, l, m, n)) /\ DrawnFrom(b, t)
  BY DEF DrawnInv
<1>2. PICK k \in Nat, l \in Nat, m \in Nat, n \in Nat : Laid(b, k, l, m, n)
  BY <1>1
<1>3. ASSUME NEW w \in Workers, NEW i \in 1..Len(handled[w]), handled[w][i].event.tick = t
      PROVE  /\ handled[w][i].event.n \in 1..Len(b)
             /\ handled[w][i].event.packet = b[handled[w][i].event.n]
  <2>1. handled[w][i].event \in Known
    BY HandledOrder
  <2> QED BY <1>1, <1>3, <2>1 DEF DrawnFrom
<1>4. Drawn(t, b, k, l, m, n)
  BY <1>2, <1>3 DEF Drawn
<1> QED BY <1>4

\* An event that is handled is in the log of a worker, that of its source.
LEMMA LoggedAt ==
  ASSUME EngineTypes, OrderInv, NEW h \in Handled
  PROVE  \E w \in Workers : \E i \in 1..Len(handled[w]) :
           h = handled[w][i] /\ ShardKey[h.event.packet.src_ip] % WORKER_COUNT = w
<1>1. PICK w \in Workers : \E i \in DOMAIN handled[w] : h = handled[w][i]
  BY DEF Handled
<1>2. PICK i \in 1..Len(handled[w]) : h = handled[w][i]
  BY <1>1, Log
<1>3. Shard(h.event) = w
  BY <1>2, HandledOrder
<1> QED BY <1>2, <1>3 DEF Shard

\* An exploit is handled right behind its probe.
LEMMA ExploitNext ==
  ASSUME EngineTypes, OrderInv, DrawnInv, NEW t \in 1..tick,
         NEW p \in Attack("probe", t), NEW x \in Attack("exploit", t)
  PROVE  \E w \in Workers : \E i \in 1..(Len(handled[w]) - 1) :
           /\ p = handled[w][i] /\ x = handled[w][i + 1]
           /\ p.event.packet.src_ip = x.event.packet.src_ip
<1>1. /\ p \in Handled /\ p.event.packet.kind = "probe" /\ p.event.tick = t
      /\ x \in Handled /\ x.event.packet.kind = "exploit" /\ x.event.tick = t
  BY DEF Attack
<1>2. PICK b, k, l, m, n : Drawn(t, b, k, l, m, n)
  BY DrawnAt
<1>3. k \in Nat /\ l \in Nat /\ m \in Nat /\ n \in Nat /\ Laid(b, k, l, m, n)
  BY <1>2 DEF Drawn
<1>4. PICK w \in Workers : \E i \in 1..Len(handled[w]) :
            p = handled[w][i] /\ ShardKey[p.event.packet.src_ip] % WORKER_COUNT = w
  BY <1>1, LoggedAt
<1>5. PICK v \in Workers : \E j \in 1..Len(handled[v]) :
            x = handled[v][j] /\ ShardKey[x.event.packet.src_ip] % WORKER_COUNT = v
  BY <1>1, LoggedAt
<1>6. PICK i \in 1..Len(handled[w]) :
            p = handled[w][i] /\ ShardKey[p.event.packet.src_ip] % WORKER_COUNT = w
  BY <1>4
<1>7. PICK j \in 1..Len(handled[v]) :
            x = handled[v][j] /\ ShardKey[x.event.packet.src_ip] % WORKER_COUNT = v
  BY <1>5
<1>8. /\ p.event.n \in 1..Len(b) /\ p.event.packet = b[p.event.n]
      /\ x.event.n \in 1..Len(b) /\ x.event.packet = b[x.event.n]
  BY <1>1, <1>2, <1>6, <1>7 DEF Drawn
<1>9. /\ p.event.n = m + 1 /\ p.event.n \in (m + 1)..n
      /\ x.event.n = m + 2 /\ x.event.n \in (m + 1)..n
  <2>1. PICK c \in 1..Len(b), d \in 1..Len(b) :
          c = p.event.n /\ d = x.event.n /\ b[c].kind = "probe" /\ b[d].kind = "exploit"
    BY <1>1, <1>8
  <2>2. c = m + 1 /\ c \in (m + 1)..n
    <3>1. Placed(b, k, l, m, n, c)
      BY <1>3, Places
    <3> QED BY <2>1, <3>1 DEF Placed
  <2>3. d = m + 2 /\ d \in (m + 1)..n
    <3>1. Placed(b, k, l, m, n, d)
      BY <1>3, Places
    <3> QED BY <2>1, <3>1 DEF Placed
  <2> QED BY <2>1, <2>2, <2>3
<1>10. p.event.packet.src_ip = x.event.packet.src_ip
  <2>1. PICK s : \A c \in (m + 1)..n : b[c].src_ip = s
    BY <1>3 DEF Laid
  <2> QED BY <1>8, <1>9, <2>1
<1>11. v = w
  BY <1>6, <1>7, <1>10
<1>12. PICK len \in Nat : len = Len(handled[w])
  BY Log
<1>13. i \in 1..len /\ j \in 1..len /\ t \in Nat
  BY <1>6, <1>7, <1>11, <1>12
<1>14. ~(j < i) /\ j # i
  <2>1. ASSUME j < i PROVE FALSE
    <3>1. Earlier(x.event, p.event)
      BY <1>6, <1>7, <1>11, <2>1, HandledOrder
    <3> QED BY <1>1, <1>3, <1>9, <1>13, <3>1 DEF Earlier
  <2>2. j # i
    BY <1>1, <1>6, <1>7, <1>11
  <2> QED BY <2>1, <2>2
<1>15. ~(i + 1 < j)
  <2>1. SUFFICES ASSUME i + 1 < j PROVE FALSE
    OBVIOUS
  <2>2. i + 1 \in 1..len /\ i < i + 1
    BY <1>13, <2>1
  <2>3. PICK e : e = handled[w][i + 1].event
    OBVIOUS
  <2>4. e.tick \in Nat /\ e.n \in Nat
    BY <1>12, <2>2, <2>3, Log
  <2>5. Earlier(p.event, e) /\ Earlier(e, x.event)
    BY <1>6, <1>7, <1>11, <1>12, <2>1, <2>2, <2>3, HandledOrder
  <2>6. PICK u \in Nat, c \in Nat : u = e.tick /\ c = e.n
    BY <2>4
  <2>7. (t < u \/ (t = u /\ m + 1 < c)) /\ (u < t \/ (u = t /\ c < m + 2))
    BY <1>1, <1>9, <2>5, <2>6 DEF Earlier
  <2> QED BY <1>3, <1>13, <2>6, <2>7
<1>16. i \in 1..(len - 1) /\ j = i + 1
  BY <1>12, <1>13, <1>14, <1>15
<1> QED BY <1>6, <1>7, <1>10, <1>11, <1>12, <1>16

LEMMA SequenceSuffices ==
  ASSUME EngineTypes, OrderInv, DrawnInv, SequenceInv
  PROVE  ExploitReported
<1>1. SUFFICES ASSUME NEW t \in 1..tick, NEW p \in Attack("probe", t),
                      NEW x \in Attack("exploit", t), x.at - p.at <= Window
               PROVE  Raised(x, CepRule)
  BY DEF ExploitReported
<1>2. PICK w \in Workers : \E i \in 1..(Len(handled[w]) - 1) :
           /\ p = handled[w][i] /\ x = handled[w][i + 1]
           /\ p.event.packet.src_ip = x.event.packet.src_ip
  BY ExploitNext
<1>3. PICK i \in 1..(Len(handled[w]) - 1) :
           /\ p = handled[w][i] /\ x = handled[w][i + 1]
           /\ p.event.packet.src_ip = x.event.packet.src_ip
  BY <1>2
<1>4. FollowUp(handled[w], i)
  BY <1>3 DEF SequenceInv, SequenceAt
<1>5. p.event.packet \in Packets /\ x.event.packet \in Packets
  <2>1. PICK len \in Nat : len = Len(handled[w])
    BY Log
  <2>2. i \in 1..len /\ i + 1 \in 1..len
    BY <1>3, <2>1
  <2> QED BY <1>3, <2>1, <2>2, Log
<1>6. p.event.packet.kind = "probe" /\ x.event.packet.kind = "exploit"
  BY DEF Attack
<1>7. is_syn(p.event.packet)
  BY <1>5, <1>6, PacketFacts
<1>8. Passwd(x.event.packet)
  BY <1>5, <1>6, PasswdIs
<1> QED BY <1>1, <1>3, <1>4, <1>7, <1>8 DEF FollowUp

\* "this block fixes that": an exploit that is handled within the window of its
\* probe makes the CEP rule fire, whatever other traffic the worker has.
THEOREM ExploitsReported == EngineSpec => []ExploitReported
<1>1. EngineInit => SequenceInv
  BY InitSequence
<1>2. CepInv /\ SequenceInv /\ [EngineNext]_engineVars => SequenceInv'
  BY NextSequence DEF CepInv, EngineBase
<1>3. CepInv /\ SequenceInv => ExploitReported
  BY SequenceSuffices DEF CepInv, EngineBase
<1> QED BY <1>1, <1>2, <1>3, CepInvariant, PTL DEF EngineSpec



-----------------------------------------------------------------------------
(* Bursts.  Of every source and window: the entries, the SYNs among them, the  *)
(* buckets of their ports, and whether one of them raised an alert.            *)

InWindow(log, s, u) ==
  {i \in 1..Len(log) : log[i].window = u /\ log[i].event.packet.src_ip = s}
SynsIn(log, s, u) == {i \in InWindow(log, s, u) : is_syn(log[i].event.packet)}
BucketsIn(log, s, u) == {Bucket[log[i].event.packet.dst_port] : i \in InWindow(log, s, u)}
Reported(log, s, u, rule) == \E i \in InWindow(log, s, u) : Raised(log[i], rule)

\* The buckets of a detector after an event.
LEMMA BucketsAfter ==
  ASSUME EngineTypes, NEW w \in Workers, NEW e, NEW h, Handling(w, e, h)
  PROVE  /\ \A s \in Sources : s # e.packet.src_ip =>
              anomaly'[w].port_cardinality[s]
                = IF Anomaly(w)!WindowOver THEN {} ELSE anomaly[w].port_cardinality[s]
         /\ anomaly'[w].port_cardinality[e.packet.src_ip] = Anomaly(w)!Filled(e.packet)
         /\ Anomaly(w)!Filled(e.packet)
              = (IF Anomaly(w)!WindowOver THEN {}
                 ELSE anomaly[w].port_cardinality[e.packet.src_ip]) \cup {Bucket[e.packet.dst_port]}
<1>1. anomaly'[w].port_cardinality = Anomaly(w)!PortsAfter(e.packet)
  <2>1. anomaly'[w] = AnomalyAfter(w, e.packet)
    BY DetectorAfter
  <2> QED BY <2>1 DEF AnomalyAfter
<1>2. e.packet.src_ip \in Sources
  BY EntryRaised, PacketTypes
<1>3. \A s \in Sources :
         Anomaly(w)!Buckets(s) = IF Anomaly(w)!WindowOver THEN {} ELSE anomaly[w].port_cardinality[s]
  BY DEF Anomaly!Buckets
<1>4. \A s \in Sources : Anomaly(w)!PortsAfter(e.packet)[s]
         = IF s = e.packet.src_ip THEN Anomaly(w)!Filled(e.packet) ELSE Anomaly(w)!Buckets(s)
  BY DEF Anomaly!PortsAfter
<1>5. Anomaly(w)!Filled(e.packet)
        = Anomaly(w)!Buckets(e.packet.src_ip) \cup {Bucket[e.packet.dst_port]}
  BY DEF Anomaly!Filled
<1> QED BY <1>1, <1>2, <1>3, <1>4, <1>5

\* A saturating counter has counted c.
Covers(n, c) == n >= c \/ n = CounterMax

\* What the collections of a detector, rolled on to window u, say of the log.
Tells(log, s, u, table, buckets, flooded, scanned) ==
  /\ \A r \in Rows : Covers(table[r][Hash[r][s]], Cardinality(SynsIn(log, s, u)))
  /\ buckets = BucketsIn(log, s, u)
  /\ s \in flooded => Reported(log, s, u, "syn_flood_anomaly")
  /\ s \in scanned => Reported(log, s, u, "port_scan_anomaly")

\* What reaches a threshold is reported.
BurstsIn(log, s, u) ==
  /\ Cardinality(SynsIn(log, s, u)) >= FloodThreshold => Reported(log, s, u, "syn_flood_anomaly")
  /\ Cardinality(BucketsIn(log, s, u)) >= ScanThreshold => Reported(log, s, u, "port_scan_anomaly")

BurstAt(log, d) ==
  /\ \A s \in Sources : \A u \in Nat : BurstsIn(log, s, u)
  /\ \A s \in Sources : Tells(log, s, d.window_start, d.syn_counts, d.port_cardinality[s],
                              d.alerted_flood_this_window, d.alerted_scan_this_window)

BurstInv == \A w \in Workers : BurstAt(handled[w], anomaly[w])

\* A window without entries.
LEMMA EmptyWindow ==
  ASSUME NEW log, NEW s, NEW u, InWindow(log, s, u) = {}
  PROVE  /\ SynsIn(log, s, u) = {} /\ Cardinality(SynsIn(log, s, u)) = 0
         /\ BucketsIn(log, s, u) = {} /\ Cardinality(BucketsIn(log, s, u)) = 0
<1>1. SynsIn(log, s, u) = {} /\ BucketsIn(log, s, u) = {}
  BY DEF SynsIn, BucketsIn
<1> QED BY <1>1, FS_EmptySet

LEMMA InitBurst ==
  ASSUME EngineInit
  PROVE  BurstInv
<1>1. ASSUME NEW w \in Workers, NEW s, NEW u
      PROVE  InWindow(handled[w], s, u) = {}
  <2>1. handled[w] = <<>>
    BY DEF EngineInit
  <2>2. Len(handled[w]) = 0
    BY <2>1
  <2> QED BY <2>2 DEF InWindow
<1>2. /\ FloodThreshold \in Nat \ {0} /\ ScanThreshold \in Nat \ {0}
      /\ \A r \in Rows : \A s \in Sources : Hash[r][s] \in Columns
  BY DetectorAssumption
<1>3. /\ ~(0 >= FloodThreshold) /\ ~(0 >= ScanThreshold)
  BY <1>2
<1>4. ASSUME NEW w \in Workers PROVE BurstAt(handled[w], anomaly[w])
  <2>1. PICK log : log = handled[w] /\ \A s, u : InWindow(log, s, u) = {}
    BY <1>1
  <2>2. \A s, u : /\ Cardinality(SynsIn(log, s, u)) = 0
                  /\ BucketsIn(log, s, u) = {} /\ Cardinality(BucketsIn(log, s, u)) = 0
    BY <2>1, EmptyWindow
  <2>3. \A s, u : BurstsIn(log, s, u)
    BY <1>3, <2>2 DEF BurstsIn
  <2>4. PICK d : d = anomaly[w]
    OBVIOUS
  <2>5. /\ d.syn_counts = [r \in Rows |-> [c \in Columns |-> 0]]
        /\ d.port_cardinality = [s \in Sources |-> {}]
        /\ d.alerted_flood_this_window = {} /\ d.alerted_scan_this_window = {}
    BY <2>4 DEF EngineInit
  <2>6. \A r \in Rows : \A s \in Sources : d.syn_counts[r][Hash[r][s]] = 0
    BY <1>2, <2>5
  <2>7. 0 >= 0
    OBVIOUS
  <2>8. ASSUME NEW s \in Sources
        PROVE  Tells(log, s, d.window_start, d.syn_counts, d.port_cardinality[s],
                     d.alerted_flood_this_window, d.alerted_scan_this_window)
    BY <2>2, <2>5, <2>6, <2>7 DEF Tells, Covers
  <2> QED BY <2>1, <2>3, <2>4, <2>8 DEF BurstAt
<1> QED BY <1>4 DEF BurstInv

\* A log of length k grows by the entry h: what that is to source s and window u.
Grown(log, longer, k, h, s, u) ==
  /\ ~(h.window = u /\ h.event.packet.src_ip = s)
       => /\ SynsIn(longer, s, u) = SynsIn(log, s, u)
          /\ BucketsIn(longer, s, u) = BucketsIn(log, s, u)
  /\ h.window = u /\ h.event.packet.src_ip = s
       => /\ SynsIn(longer, s, u) = IF is_syn(h.event.packet) THEN SynsIn(log, s, u) \cup {k + 1}
                                 ELSE SynsIn(log, s, u)
          /\ BucketsIn(longer, s, u) = BucketsIn(log, s, u) \cup {Bucket[h.event.packet.dst_port]}
          /\ \A rule : Raised(h, rule) => Reported(longer, s, u, rule)
  /\ \A rule : Reported(log, s, u, rule) => Reported(longer, s, u, rule)
  /\ IsFiniteSet(InWindow(log, s, u)) /\ IsFiniteSet(SynsIn(log, s, u))
  /\ k + 1 \notin SynsIn(log, s, u)

LEMMA WindowGrows ==
  ASSUME NEW log, NEW longer, NEW k \in Nat, Len(log) = k, Len(longer) = k + 1,
         \A i \in 1..k : longer[i] = log[i], NEW h, longer[k + 1] = h, NEW s, NEW u
  PROVE  Grown(log, longer, k, h, s, u)
<1> DEFINE mine == h.window = u /\ h.event.packet.src_ip = s
<1>1. \A i : i \in 1..(k + 1) <=> i \in 1..k \/ i = k + 1
  OBVIOUS
<1>2. k + 1 \notin 1..k
  OBVIOUS
<1>3. InWindow(log, s, u) \subseteq 1..k
  BY DEF InWindow
<1>4. InWindow(longer, s, u) = IF mine THEN InWindow(log, s, u) \cup {k + 1} ELSE InWindow(log, s, u)
  <2>1. InWindow(longer, s, u)
          = {i \in 1..(k + 1) : longer[i].window = u /\ longer[i].event.packet.src_ip = s}
    BY DEF InWindow
  <2>2. InWindow(log, s, u) = {i \in 1..k : log[i].window = u /\ log[i].event.packet.src_ip = s}
    BY DEF InWindow
  <2> QED BY <1>1, <1>2, <2>1, <2>2
<1>5. \A i \in InWindow(log, s, u) : longer[i] = log[i]
  BY <1>3
<1>6. IsFiniteSet(InWindow(log, s, u)) /\ IsFiniteSet(SynsIn(log, s, u))
  <2>1. IsFiniteSet(1..k)
    <3>1. 1 \in Int /\ k \in Int
      OBVIOUS
    <3> QED BY <3>1, FS_Interval
  <2>2. SynsIn(log, s, u) \subseteq 1..k
    BY <1>3 DEF SynsIn
  <2> QED BY <1>3, <2>1, <2>2, FS_Subset
<1>7. k + 1 \notin SynsIn(log, s, u)
  BY <1>2, <1>3 DEF SynsIn
<1>8. \A rule : Reported(log, s, u, rule) => Reported(longer, s, u, rule)
  BY <1>4, <1>5 DEF Reported
<1> HIDE DEF mine
<1>9. CASE ~mine
  <2>1. InWindow(longer, s, u) = InWindow(log, s, u)
    BY <1>4, <1>9
  <2>2. SynsIn(longer, s, u) = SynsIn(log, s, u) /\ BucketsIn(longer, s, u) = BucketsIn(log, s, u)
    BY <1>5, <2>1 DEF SynsIn, BucketsIn
  <2> QED BY <1>6, <1>7, <1>8, <1>9, <2>2 DEF mine, Grown
<1>10. CASE mine
  <2>1. InWindow(longer, s, u) = InWindow(log, s, u) \cup {k + 1}
    BY <1>4, <1>10
  <2>2. SynsIn(longer, s, u) = IF is_syn(h.event.packet) THEN SynsIn(log, s, u) \cup {k + 1}
                            ELSE SynsIn(log, s, u)
    BY <1>5, <2>1 DEF SynsIn
  <2>3. BucketsIn(longer, s, u) = BucketsIn(log, s, u) \cup {Bucket[h.event.packet.dst_port]}
    BY <1>5, <2>1 DEF BucketsIn
  <2>4. \A rule : Raised(h, rule) => Reported(longer, s, u, rule)
    BY <2>1 DEF Reported
  <2> QED BY <1>6, <1>7, <1>8, <1>10, <2>2, <2>3, <2>4 DEF mine, Grown
<1> QED BY <1>9, <1>10

\* The collections that observe works on, after maybe_roll_window.
LEMMA RolledTells ==
  ASSUME EngineTypes, TimeInv, BurstInv, NEW w \in Workers, NEW p, NEW s \in Sources,
         NEW u, u = AnomalyAfter(w, p).window_start
  PROVE  Tells(handled[w], s, u, Anomaly(w)!Table, Anomaly(w)!Buckets(s),
               Anomaly(w)!Flooded, Anomaly(w)!Scanned)
<1>1. PICK log, d : log = handled[w] /\ d = anomaly[w]
  OBVIOUS
<1>2. CASE ~Anomaly(w)!WindowOver
  <2>1. u = d.window_start
    BY <1>1, <1>2, WindowAfter
  <2>2. /\ Anomaly(w)!Table = d.syn_counts /\ Anomaly(w)!Buckets(s) = d.port_cardinality[s]
        /\ Anomaly(w)!Flooded = d.alerted_flood_this_window
        /\ Anomaly(w)!Scanned = d.alerted_scan_this_window
    BY <1>1, <1>2 DEF Anomaly!Table, Anomaly!Buckets, Anomaly!Flooded, Anomaly!Scanned
  <2> QED BY <1>1, <2>1, <2>2 DEF BurstInv, BurstAt
<1>3. CASE Anomaly(w)!WindowOver
  <2>1. PICK a \in Nat, c \in Nat : a = d.window_start /\ c = u /\ a < c
    BY <1>1, <1>3, WindowAfter
  <2>2. PICK k \in Nat : k = Len(log)
    BY <1>1, Log
  <2>3. ASSUME NEW i \in 1..k PROVE log[i].window # u
    <3>1. PICK x \in Nat : x = log[i].window
      BY <1>1, <2>2, Log
    <3>2. x <= a
      BY <1>1, <2>1, <2>2, <3>1 DEF TimeInv
    <3> QED BY <2>1, <3>1, <3>2
  <2>4. InWindow(log, s, u) = {}
    BY <2>2, <2>3 DEF InWindow
  <2>5. Cardinality(SynsIn(log, s, u)) = 0 /\ BucketsIn(log, s, u) = {}
    BY <2>4, EmptyWindow
  <2>6. \A r \in Rows : Hash[r][s] \in Columns
    BY DetectorAssumption
  <2>7. /\ Anomaly(w)!Table = [r \in Rows |-> [x \in Columns |-> 0]]
        /\ Anomaly(w)!Buckets(s) = {} /\ Anomaly(w)!Flooded = {} /\ Anomaly(w)!Scanned = {}
    BY <1>3 DEF Anomaly!Table, Anomaly!EmptyTable, Anomaly!Buckets, Anomaly!Flooded, Anomaly!Scanned
  <2>8. \A r \in Rows : Anomaly(w)!Table[r][Hash[r][s]] = 0
    BY <2>6, <2>7
  <2>9. 0 >= 0
    OBVIOUS
  <2> QED BY <1>1, <2>5, <2>7, <2>8, <2>9 DEF Tells, Covers
<1> QED BY <1>2, <1>3


\* A counter that has counted c, and counts once more, has counted c + 1.
LEMMA CoversMore ==
  ASSUME NEW n \in 0..CounterMax, NEW c \in Nat, Covers(n, c),
         NEW m, m = IF n < CounterMax THEN n + 1 ELSE CounterMax
  PROVE  Covers(m, c) /\ Covers(m, c + 1)
<1>1. CounterMax \in Nat
  BY DetectorAssumption
<1>2. n \in Nat /\ (n >= c \/ n = CounterMax)
  BY <1>1 DEF Covers
<1>3. (m >= c \/ m = CounterMax) /\ (m >= c + 1 \/ m = CounterMax)
  BY <1>1, <1>2
<1> QED BY <1>3 DEF Covers

LEMMA CoversThreshold ==
  ASSUME NEW n \in 0..CounterMax, NEW c \in Nat, Covers(n, c), c >= FloodThreshold
  PROVE  n >= FloodThreshold
<1>1. PICK x \in Nat, f \in Nat : x = CounterMax /\ f = FloodThreshold /\ f <= x
  BY DetectorAssumption
<1>2. n \in Nat /\ (n >= c \/ n = x) /\ c >= f
  BY <1>1 DEF Covers
<1>3. n >= f
  BY <1>1, <1>2
<1> QED BY <1>1, <1>3

\* The counter of a source in row r after a packet.
CellAfter(n, m, p, s, r) ==
  /\ n \in 0..CounterMax
  /\ m = n \/ m = IF n < CounterMax THEN n + 1 ELSE CounterMax
  /\ is_syn(p) /\ p.src_ip = s => m = IF n < CounterMax THEN n + 1 ELSE CounterMax
  /\ ~is_syn(p) \/ Hash[r][p.src_ip] # Hash[r][s] => m = n

LEMMA CountedCells ==
  ASSUME NEW w \in Workers, anomaly[w] \in Detectors, NEW p, NEW s \in Sources, NEW r \in Rows,
         NEW n, n = Anomaly(w)!Table[r][Hash[r][s]],
         NEW m, m = Anomaly(w)!Counted(p)[r][Hash[r][s]]
  PROVE  CellAfter(n, m, p, s, r)
<1>1. Hash[r][s] \in Columns
  BY DetectorAssumption
<1>2. PICK c \in Columns : c = Hash[r][s]
  BY <1>1
<1>3. PICK T \in [Rows -> [Columns -> 0..CounterMax]] : T = Anomaly(w)!Table
  <2>1. CounterMax \in Nat \ {0}
    BY DetectorAssumption
  <2>2. Anomaly(w)!Table \in [Rows -> [Columns -> 0..CounterMax]]
    BY <2>1 DEF Detectors, Anomaly!Table, Anomaly!EmptyTable
  <2> QED BY <2>2
<1>4. n = T[r][c] /\ n \in 0..CounterMax
  BY <1>2, <1>3
<1>5. PICK M : M = Anomaly(w)!Counted(p)
  OBVIOUS
<1>6. M = IF is_syn(p) THEN Anomaly(w)!increment(T, p.src_ip) ELSE T
  BY <1>3, <1>5 DEF Anomaly!Counted, Anomaly!is_syn, is_syn
<1>7. Anomaly(w)!increment(T, p.src_ip)[r][c]
        = IF c = Hash[r][p.src_ip] THEN (IF n < CounterMax THEN n + 1 ELSE CounterMax) ELSE n
  BY <1>4 DEF Anomaly!increment, Anomaly!saturating_add
<1>8. m = M[r][c]
  BY <1>2, <1>5
<1> QED BY <1>2, <1>4, <1>6, <1>7, <1>8 DEF CellAfter

\* What a detector tells of a source after an event.
LEMMA TellsAfter ==
  ASSUME EngineTypes, TimeInv, BurstInv, NEW w \in Workers, NEW e, NEW h, Handling(w, e, h),
         NEW s \in Sources
  PROVE  Tells(handled'[w], s, h.window, Anomaly(w)!Counted(e.packet),
               anomaly'[w].port_cardinality[s], Anomaly(w)!FloodedAfter(e.packet),
               Anomaly(w)!ScannedAfter(e.packet))
<1>1. PICK p, u, log, longer : p = e.packet /\ u = h.window /\ log = handled[w] /\ longer = handled'[w]
  OBVIOUS
<1>2. PICK k \in Nat : k = Len(log)
  BY <1>1, Log
<1>3. Len(longer) = k + 1 /\ longer[k + 1] = h /\ \A i \in 1..k : longer[i] = log[i]
  BY <1>1, <1>2, Entered
<1>4. /\ h.event.packet = p /\ u = AnomalyAfter(w, p).window_start /\ p.src_ip \in Sources
      /\ Raised(h, "syn_flood_anomaly") <=> Anomaly(w)!FloodFires(p)
      /\ Raised(h, "port_scan_anomaly") <=> Anomaly(w)!ScanFires(p)
  BY <1>1, EntryRaised, PacketTypes
<1>5. Tells(log, s, u, Anomaly(w)!Table, Anomaly(w)!Buckets(s), Anomaly(w)!Flooded, Anomaly(w)!Scanned)
  BY <1>1, <1>4, RolledTells
<1>6. /\ ~(p.src_ip = s)
           => SynsIn(longer, s, u) = SynsIn(log, s, u) /\ BucketsIn(longer, s, u) = BucketsIn(log, s, u)
      /\ p.src_ip = s
           => /\ SynsIn(longer, s, u) = IF is_syn(p) THEN SynsIn(log, s, u) \cup {k + 1}
                                     ELSE SynsIn(log, s, u)
              /\ BucketsIn(longer, s, u) = BucketsIn(log, s, u) \cup {Bucket[p.dst_port]}
              /\ \A rule : Raised(h, rule) => Reported(longer, s, u, rule)
      /\ \A rule : Reported(log, s, u, rule) => Reported(longer, s, u, rule)
      /\ IsFiniteSet(SynsIn(log, s, u)) /\ k + 1 \notin SynsIn(log, s, u)
  <2>1. Grown(log, longer, k, h, s, u)
    BY <1>2, <1>3, WindowGrows
  <2> QED BY <1>1, <1>4, <2>1 DEF Grown
<1>7. ASSUME NEW r \in Rows
      PROVE  Covers(Anomaly(w)!Counted(p)[r][Hash[r][s]], Cardinality(SynsIn(longer, s, u)))
  <2>1. PICK n, m : /\ n = Anomaly(w)!Table[r][Hash[r][s]]
                    /\ m = Anomaly(w)!Counted(p)[r][Hash[r][s]]
    OBVIOUS
  <2>2. anomaly[w] \in Detectors
    BY DEF EngineTypes, AnomalyTypes
  <2>3. /\ n \in 0..CounterMax
        /\ m = n \/ m = IF n < CounterMax THEN n + 1 ELSE CounterMax
        /\ is_syn(p) /\ p.src_ip = s => m = IF n < CounterMax THEN n + 1 ELSE CounterMax
    <3>1. CellAfter(n, m, p, s, r)
      BY <2>1, <2>2, CountedCells
    <3> QED BY <3>1 DEF CellAfter
  <2>4. PICK c \in Nat : c = Cardinality(SynsIn(log, s, u))
    BY <1>6, FS_CardinalityType
  <2>5. Covers(n, c)
    BY <1>5, <2>1, <2>4 DEF Tells
  <2>6. PICK a : a = IF n < CounterMax THEN n + 1 ELSE CounterMax
    OBVIOUS
  <2>7. Covers(a, c) /\ Covers(a, c + 1)
    BY <2>3, <2>5, <2>6, CoversMore
  <2>8. CASE is_syn(p) /\ p.src_ip = s
    <3>1. Cardinality(SynsIn(longer, s, u)) = c + 1
      BY <1>6, <2>4, <2>8, FS_AddElement
    <3> QED BY <2>1, <2>3, <2>6, <2>7, <2>8, <3>1
  <2>9. CASE ~(is_syn(p) /\ p.src_ip = s)
    <3>1. SynsIn(longer, s, u) = SynsIn(log, s, u)
      BY <1>6, <2>9
    <3> QED BY <2>1, <2>3, <2>4, <2>5, <2>6, <2>7, <3>1
  <2> QED BY <2>8, <2>9
<1>8. anomaly'[w].port_cardinality[s] = BucketsIn(longer, s, u)
  <2>1. Anomaly(w)!Buckets(s) = BucketsIn(log, s, u)
    BY <1>5 DEF Tells
  <2>2. anomaly'[w].port_cardinality[s]
          = IF s = p.src_ip THEN Anomaly(w)!Buckets(s) \cup {Bucket[p.dst_port]}
            ELSE Anomaly(w)!Buckets(s)
    BY <1>1, <1>4, BucketsAfter DEF Anomaly!Buckets
  <2> QED BY <1>6, <2>1, <2>2
<1>9. s \in Anomaly(w)!FloodedAfter(p) => Reported(longer, s, u, "syn_flood_anomaly")
  <2>1. s \in Anomaly(w)!FloodedAfter(p)
          => s \in Anomaly(w)!Flooded \/ (s = p.src_ip /\ Anomaly(w)!FloodFires(p))
    BY DEF Anomaly!FloodedAfter
  <2> QED BY <1>4, <1>5, <1>6, <2>1 DEF Tells
<1>10. s \in Anomaly(w)!ScannedAfter(p) => Reported(longer, s, u, "port_scan_anomaly")
  <2>1. s \in Anomaly(w)!ScannedAfter(p)
          => s \in Anomaly(w)!Scanned \/ (s = p.src_ip /\ Anomaly(w)!ScanFires(p))
    BY DEF Anomaly!ScannedAfter
  <2> QED BY <1>4, <1>5, <1>6, <2>1 DEF Tells
<1> QED BY <1>1, <1>7, <1>8, <1>9, <1>10 DEF Tells


\* What reaches a threshold with an event is reported, then or before.
LEMMA BurstsAfter ==
  ASSUME EngineTypes, TimeInv, BurstInv, NEW w \in Workers, NEW e, NEW h, Handling(w, e, h),
         NEW s \in Sources, NEW v \in Nat
  PROVE  BurstsIn(handled'[w], s, v)
<1>1. PICK p, u, log, longer : p = e.packet /\ u = h.window /\ log = handled[w] /\ longer = handled'[w]
  OBVIOUS
<1>2. PICK k \in Nat : k = Len(log)
  BY <1>1, Log
<1>3. Len(longer) = k + 1 /\ longer[k + 1] = h /\ \A i \in 1..k : longer[i] = log[i]
  BY <1>1, <1>2, Entered
<1>4. /\ h.event.packet = p /\ u = AnomalyAfter(w, p).window_start /\ p.src_ip \in Sources
      /\ Raised(h, "syn_flood_anomaly") <=> Anomaly(w)!FloodFires(p)
      /\ Raised(h, "port_scan_anomaly") <=> Anomaly(w)!ScanFires(p)
  BY <1>1, EntryRaised, PacketTypes
<1>5. Grown(log, longer, k, h, s, v)
  BY <1>2, <1>3, WindowGrows
<1>6. BurstsIn(log, s, v)
  BY <1>1 DEF BurstInv, BurstAt
<1>7. CASE ~(u = v /\ p.src_ip = s)
  <2>1. SynsIn(longer, s, v) = SynsIn(log, s, v) /\ BucketsIn(longer, s, v) = BucketsIn(log, s, v)
    BY <1>1, <1>4, <1>5, <1>7 DEF Grown
  <2>2. \A rule : Reported(log, s, v, rule) => Reported(longer, s, v, rule)
    BY <1>5 DEF Grown
  <2> QED BY <1>1, <1>6, <2>1, <2>2 DEF BurstsIn
<1>8. CASE u = v /\ p.src_ip = s
  <2>1. /\ SynsIn(longer, s, u) = IF is_syn(p) THEN SynsIn(log, s, u) \cup {k + 1} ELSE SynsIn(log, s, u)
        /\ \A rule : Raised(h, rule) => Reported(longer, s, u, rule)
        /\ \A rule : Reported(log, s, u, rule) => Reported(longer, s, u, rule)
        /\ IsFiniteSet(SynsIn(log, s, u))
    BY <1>1, <1>4, <1>5, <1>8 DEF Grown
  <2>2. Tells(log, s, u, Anomaly(w)!Table, Anomaly(w)!Buckets(s), Anomaly(w)!Flooded, Anomaly(w)!Scanned)
    BY <1>1, <1>4, RolledTells
  <2>3. /\ \A r \in Rows : Covers(Anomaly(w)!Counted(p)[r][Hash[r][s]], Cardinality(SynsIn(longer, s, u)))
        /\ anomaly'[w].port_cardinality[s] = BucketsIn(longer, s, u)
    BY <1>1, TellsAfter DEF Tells
  <2>4. ASSUME Cardinality(SynsIn(longer, s, u)) >= FloodThreshold
        PROVE  Reported(longer, s, u, "syn_flood_anomaly")
    <3>1. CASE ~is_syn(p)
      <4>1. SynsIn(longer, s, u) = SynsIn(log, s, u)
        BY <2>1, <3>1
      <4> QED BY <1>6, <1>8, <2>1, <2>4, <4>1 DEF BurstsIn
    <3>2. CASE is_syn(p)
      <4>1. PICK c \in Nat : c = Cardinality(SynsIn(longer, s, u))
        <5>1. IsFiniteSet(SynsIn(longer, s, u))
          BY <2>1, <3>2, FS_AddElement
        <5> QED BY <5>1, FS_CardinalityType
      <4>2. ASSUME NEW r \in Rows
            PROVE  Anomaly(w)!Counted(p)[r][Hash[r][s]] >= FloodThreshold
        <5>1. PICK n, m : /\ n = Anomaly(w)!Table[r][Hash[r][s]]
                          /\ m = Anomaly(w)!Counted(p)[r][Hash[r][s]]
          OBVIOUS
        <5>2. CellAfter(n, m, p, s, r)
          <6>1. anomaly[w] \in Detectors
            BY DEF EngineTypes, AnomalyTypes
          <6> QED BY <5>1, <6>1, CountedCells
        <5>3. m \in 0..CounterMax
          <6>1. PICK x \in Nat : x = CounterMax
            BY DetectorAssumption
          <6>2. n \in 0..x /\ (m = n \/ m = IF n < x THEN n + 1 ELSE x)
            BY <5>2, <6>1 DEF CellAfter
          <6>3. m \in 0..x
            BY <6>2
          <6> QED BY <6>1, <6>3
        <5>4. Covers(m, c)
          BY <2>3, <4>1, <5>1
        <5> QED BY <2>4, <4>1, <5>1, <5>3, <5>4, CoversThreshold
      <4>3. Anomaly(w)!EstimateAtLeast(Anomaly(w)!Counted(p), p.src_ip, FloodThreshold)
        BY <1>8, <4>2 DEF Anomaly!EstimateAtLeast
      <4>4. Anomaly(w)!FloodFires(p) \/ s \in Anomaly(w)!Flooded
        BY <1>8, <3>2, <4>3 DEF Anomaly!FloodFires, Anomaly!is_syn, is_syn
      <4> QED BY <1>4, <2>1, <2>2, <4>4 DEF Tells
    <3> QED BY <3>1, <3>2
  <2>5. ASSUME Cardinality(BucketsIn(longer, s, u)) >= ScanThreshold
        PROVE  Reported(longer, s, u, "port_scan_anomaly")
    <3>1. Anomaly(w)!Filled(p) = BucketsIn(longer, s, u)
      BY <1>1, <1>8, <2>3, BucketsAfter
    <3>2. Anomaly(w)!ScanFires(p) \/ s \in Anomaly(w)!Scanned
      BY <1>8, <2>5, <3>1 DEF Anomaly!ScanFires, Anomaly!Cardinality, Cardinality
    <3> QED BY <1>4, <2>1, <2>2, <3>2 DEF Tells
  <2> QED BY <1>1, <1>8, <2>4, <2>5 DEF BurstsIn
<1> QED BY <1>7, <1>8

LEMMA NextBurst ==
  ASSUME EngineTypes, TimeInv, BurstInv, [EngineNext]_engineVars
  PROVE  BurstInv'
<1>1. CASE handled' = handled /\ anomaly' = anomaly
  BY <1>1 DEF BurstInv
<1>2. ASSUME NEW w \in Workers, Handle(w) PROVE BurstInv'
  <2>1. PICK e, h : Handling(w, e, h)
    BY <1>2, HandleIs DEF EngineTypes
  <2>2. PICK p, d : p = e.packet /\ d = anomaly'[w]
    OBVIOUS
  <2>3. /\ d.window_start = h.window /\ d.syn_counts = Anomaly(w)!Counted(p)
        /\ d.alerted_flood_this_window = Anomaly(w)!FloodedAfter(p)
        /\ d.alerted_scan_this_window = Anomaly(w)!ScannedAfter(p)
    <3>1. d = AnomalyAfter(w, p)
      BY <2>1, <2>2, DetectorAfter
    <3>2. h.window = AnomalyAfter(w, p).window_start
      BY <2>1, <2>2, EntryRaised
    <3> QED BY <3>1, <3>2 DEF AnomalyAfter
  <2>4. BurstAt(handled'[w], d)
    <3>1. \A s \in Sources : \A u \in Nat : BurstsIn(handled'[w], s, u)
      BY <2>1, BurstsAfter
    <3>2. \A s \in Sources :
            Tells(handled'[w], s, h.window, Anomaly(w)!Counted(p), anomaly'[w].port_cardinality[s],
                  Anomaly(w)!FloodedAfter(p), Anomaly(w)!ScannedAfter(p))
      BY <2>1, <2>2, TellsAfter
    <3> QED BY <2>2, <2>3, <3>1, <3>2 DEF BurstAt
  <2>5. \A v \in Workers : v # w => handled'[v] = handled[v] /\ anomaly'[v] = anomaly[v]
    BY <2>1, Entered, DetectorAfter
  <2> QED BY <2>2, <2>4, <2>5 DEF BurstInv
<1> QED BY <1>1, <1>2 DEF EngineNext, NextBatch, Push, Tick, engineVars

\* The entries of a burst: all in the log of one worker, from one source, and
\* each at a place of its own in the log and in the batch.
LEMMA BurstLogged ==
  ASSUME EngineTypes, OrderInv, DrawnInv, NEW t \in 1..tick, NEW kind \in {"flood", "scan"},
         NEW b, NEW k, NEW l, NEW m, NEW n, Drawn(t, b, k, l, m, n),
         Attack(kind, t) # {}
  PROVE  \E w \in Workers : \E s \in Sources :
           \E f \in [Attack(kind, t) -> 1..Len(handled[w])] :
             \A h \in Attack(kind, t) :
               /\ handled[w][f[h]] = h /\ h.event.packet.src_ip = s /\ h.event.packet \in Packets
               /\ h.event.n \in 1..Len(b) /\ h.event.packet = b[h.event.n]
               /\ kind = "scan" => h.event.n \in (n + 1)..Len(b)
<1>1. k \in Nat /\ l \in Nat /\ m \in Nat /\ n \in Nat /\ Laid(b, k, l, m, n)
  BY DEF Drawn
<1>2. PICK B : B = Attack(kind, t)
  OBVIOUS
<1>3. \A h \in B : h \in Handled /\ h.event.packet.kind = kind /\ h.event.tick = t
  BY <1>2 DEF Attack
<1>4. PICK first, last, s :
        /\ kind = "flood" => first = k + 1 /\ last = l
        /\ kind = "scan" => first = n + 1 /\ last = Len(b)
        /\ \A i \in first..last : b[i].src_ip = s
  <2>0. /\ \E x : \A i \in (k + 1)..l : b[i].kind = "flood" /\ b[i].src_ip = x
        /\ \E y : \A i \in (n + 1)..Len(b) :
             b[i].kind = "scan" /\ b[i].src_ip = y /\ b[i].dst_port = ScannedPorts[i - n]
    BY <1>1, ZenonT(20) DEF Laid
  <2>1. PICK x : \A i \in (k + 1)..l : b[i].src_ip = x
    BY <2>0
  <2>2. PICK y : \A i \in (n + 1)..Len(b) : b[i].src_ip = y
    BY <2>0
  <2>3. CASE kind = "flood"
    <3>1. PICK f, u : f = k + 1 /\ u = l
      OBVIOUS
    <3> QED BY <2>1, <2>3, <3>1
  <2>4. CASE kind = "scan"
    <3>1. PICK f, u : f = n + 1 /\ u = Len(b)
      OBVIOUS
    <3> QED BY <2>2, <2>4, <3>1
  <2> QED BY <2>3, <2>4
<1>5. ASSUME NEW h \in B
      PROVE  /\ h.event.packet.src_ip = s /\ h.event.packet \in Packets
             /\ h.event.n \in 1..Len(b) /\ h.event.packet = b[h.event.n]
             /\ kind = "scan" => h.event.n \in (n + 1)..Len(b)
             /\ \E i \in 1..Len(handled[ShardKey[s] % WORKER_COUNT]) :
                  handled[ShardKey[s] % WORKER_COUNT][i] = h
             /\ ShardKey[s] % WORKER_COUNT \in Workers /\ s \in Sources
  <2>1. PICK w \in Workers : \E i \in 1..Len(handled[w]) :
           h = handled[w][i] /\ ShardKey[h.event.packet.src_ip] % WORKER_COUNT = w
    BY <1>3, LoggedAt
  <2>2. PICK i \in 1..Len(handled[w]) :
           h = handled[w][i] /\ ShardKey[h.event.packet.src_ip] % WORKER_COUNT = w
    BY <2>1
  <2>3. h.event.n \in 1..Len(b) /\ h.event.packet = b[h.event.n]
    BY <1>3, <2>2 DEF Drawn
  <2>4. PICK c \in 1..Len(b) : c = h.event.n /\ b[c].kind = kind
    BY <1>3, <2>3
  <2>5. Placed(b, k, l, m, n, c)
    BY <1>1, Places
  <2>6. c \in first..last /\ (kind = "scan" => c \in (n + 1)..Len(b))
    BY <1>4, <2>4, <2>5 DEF Placed
  <2>7. h.event.packet.src_ip = s
    BY <1>4, <2>3, <2>4, <2>6
  <2>8. h.event.packet \in Packets
    BY <2>2, Log
  <2>9. s \in Sources
    BY <2>7, <2>8, PacketTypes
  <2> QED BY <2>2, <2>3, <2>4, <2>6, <2>7, <2>8, <2>9
<1>6. PICK w : w = ShardKey[s] % WORKER_COUNT
  OBVIOUS
<1>7. PICK f : f = [h \in B |-> CHOOSE i \in 1..Len(handled[w]) : handled[w][i] = h]
  OBVIOUS
<1>8. \A h \in B : f[h] \in 1..Len(handled[w]) /\ handled[w][f[h]] = h
  BY <1>5, <1>6, <1>7
<1>9. f \in [B -> 1..Len(handled[w])]
  BY <1>7, <1>8
<1>10. w \in Workers /\ s \in Sources
  BY <1>2, <1>5, <1>6
<1> QED BY <1>2, <1>5, <1>8, <1>9, <1>10


\* The entries of a burst of kind in the window u, in the log of w.
InOneWindow(kind, t, w, s, u, f) ==
  /\ w \in Workers /\ s \in Sources /\ u \in Nat
  /\ IsFiniteSet(Attack(kind, t)) /\ IsFiniteSet(InWindow(handled[w], s, u))
  /\ f \in [Attack(kind, t) -> InWindow(handled[w], s, u)]
  /\ \A h \in Attack(kind, t) : /\ handled[w][f[h]] = h /\ h.event.packet \in Packets
                                /\ h.window = u /\ h.event.packet.src_ip = s
  /\ \A g, h \in Attack(kind, t) : f[g] = f[h] => g = h

LEMMA BurstWindow ==
  ASSUME EngineTypes, OrderInv, DrawnInv, NEW t \in 1..tick, NEW kind \in {"flood", "scan"},
         NEW b, NEW k, NEW l, NEW m, NEW n, Drawn(t, b, k, l, m, n),
         Attack(kind, t) # {}, Cardinality({h.window : h \in Attack(kind, t)}) = 1
  PROVE  /\ \E w, s, u, f : InOneWindow(kind, t, w, s, u, f)
         /\ \A h \in Attack(kind, t) :
              /\ h.event.n \in 1..Len(b) /\ h.event.packet = b[h.event.n]
              /\ kind = "scan" => h.event.n \in (n + 1)..Len(b)
<1>1. PICK B : B = Attack(kind, t)
  OBVIOUS
<1>2. PICK w \in Workers, s \in Sources : \E f \in [B -> 1..Len(handled[w])] :
             \A h \in B :
               /\ handled[w][f[h]] = h /\ h.event.packet.src_ip = s /\ h.event.packet \in Packets
               /\ h.event.n \in 1..Len(b) /\ h.event.packet = b[h.event.n]
               /\ kind = "scan" => h.event.n \in (n + 1)..Len(b)
  BY <1>1, BurstLogged
<1>3. PICK c, log : c \in Nat /\ log = handled[w] /\ c = Len(log)
  BY Log
<1>4. PICK f \in [B -> 1..c] :
             \A h \in B :
               /\ log[f[h]] = h /\ h.event.packet.src_ip = s /\ h.event.packet \in Packets
               /\ h.event.n \in 1..Len(b) /\ h.event.packet = b[h.event.n]
               /\ kind = "scan" => h.event.n \in (n + 1)..Len(b)
  BY <1>2, <1>3
<1>5. \A g, h \in B : f[g] = f[h] => g = h
  BY <1>4
<1>6. IsFiniteSet(1..c)
  <2>1. 1 \in Int /\ c \in Int
    BY <1>3
  <2> QED BY <2>1, FS_Interval
<1>7. IsFiniteSet(B)
  BY <1>5, <1>6, IntoBound
<1>8. PICK u : \A h \in B : h.window = u
  <2>1. PICK T, g : T = {h.window : h \in B} /\ g = [h \in B |-> h.window]
    OBVIOUS
  <2>2. g \in [B -> T] /\ \A y \in T : \E x \in B : g[x] = y
    BY <2>1
  <2>3. IsFiniteSet(T)
    BY <1>7, <2>2, OntoBound
  <2>4. PICK x : T = {x}
    BY <1>1, <2>1, <2>3, FS_Singleton
  <2> QED BY <2>1, <2>4
<1>9. \A h \in B : h.window \in Nat
  <2>1. \A i \in 1..c : log[i].window \in Nat
    BY <1>3, Log
  <2> QED BY <1>4, <2>1
<1>10. u \in Nat
  BY <1>1, <1>8, <1>9
<1>11. \A h \in B : f[h] \in InWindow(log, s, u)
  BY <1>3, <1>4, <1>8 DEF InWindow
<1>12. f \in [B -> InWindow(log, s, u)]
  BY <1>11
<1>13. IsFiniteSet(InWindow(log, s, u))
  <2>1. InWindow(log, s, u) \subseteq 1..c
    BY <1>3 DEF InWindow
  <2> QED BY <1>6, <2>1, FS_Subset
<1>14. InOneWindow(kind, t, w, s, u, f)
  BY <1>1, <1>3, <1>4, <1>5, <1>7, <1>8, <1>10, <1>12, <1>13 DEF InOneWindow
<1> QED BY <1>1, <1>4, <1>14

\* A flood of full size has as many SYNs as it takes.
LEMMA FloodReaches ==
  ASSUME NEW t, NEW w, NEW s, NEW u, NEW f, InOneWindow("flood", t, w, s, u, f),
         Cardinality(Attack("flood", t)) = FloodBurst
  PROVE  Cardinality(SynsIn(handled[w], s, u)) >= FloodThreshold
<1>1. PICK B, log : B = Attack("flood", t) /\ log = handled[w]
  OBVIOUS
<1>2. /\ IsFiniteSet(B) /\ IsFiniteSet(InWindow(log, s, u)) /\ f \in [B -> InWindow(log, s, u)]
      /\ \A h \in B : log[f[h]] = h /\ h.event.packet \in Packets
      /\ \A g, h \in B : f[g] = f[h] => g = h
  BY <1>1 DEF InOneWindow
<1>3. ASSUME NEW h \in B PROVE f[h] \in SynsIn(log, s, u)
  <2>1. h.event.packet.kind = "flood"
    BY <1>1 DEF Attack
  <2>2. is_syn(h.event.packet)
    BY <1>2, <2>1, PacketFacts
  <2> QED BY <1>2, <2>2 DEF SynsIn
<1>4. f \in [B -> SynsIn(log, s, u)]
  BY <1>2, <1>3
<1>5. IsFiniteSet(SynsIn(log, s, u))
  <2>1. SynsIn(log, s, u) \subseteq InWindow(log, s, u)
    BY DEF SynsIn
  <2> QED BY <1>2, <2>1, FS_Subset
<1>6. Cardinality(B) <= Cardinality(SynsIn(log, s, u))
  BY <1>2, <1>4, <1>5, IntoBound
<1>7. PICK x \in Nat, y \in Nat : x = Cardinality(B) /\ y = Cardinality(SynsIn(log, s, u))
  BY <1>2, <1>5, FS_CardinalityType
<1>8. PICK z \in Nat : z = FloodThreshold /\ z <= x
  BY <1>1, <1>7, DetectorAssumption, TrafficAssumption
<1>9. z <= y
  BY <1>6, <1>7, <1>8
<1> QED BY <1>1, <1>7, <1>8, <1>9

LEMMA BucketsFinite ==
  ASSUME NEW log, NEW s, NEW u, IsFiniteSet(InWindow(log, s, u))
  PROVE  IsFiniteSet(BucketsIn(log, s, u))
<1>1. PICK I, Q : I = InWindow(log, s, u) /\ Q = BucketsIn(log, s, u)
  OBVIOUS
<1>2. PICK j : j = [i \in I |-> Bucket[log[i].event.packet.dst_port]]
  OBVIOUS
<1>3. j \in [I -> Q] /\ \A y \in Q : \E x \in I : j[x] = y
  BY <1>1, <1>2 DEF BucketsIn
<1> QED BY <1>1, <1>3, OntoBound

\* A scan of full size has all the scanned ports.
LEMMA ScanReaches ==
  ASSUME EngineTypes, OrderInv, NEW t, NEW w, NEW s, NEW u, NEW f,
         InOneWindow("scan", t, w, s, u, f),
         Cardinality(Attack("scan", t)) = Len(ScannedPorts), Attack("scan", t) # {},
         NEW b, NEW k, NEW l, NEW m, NEW n, Drawn(t, b, k, l, m, n),
         \A h \in Attack("scan", t) :
              h.event.n \in (n + 1)..Len(b) /\ h.event.packet = b[h.event.n]
  PROVE  Cardinality(BucketsIn(handled[w], s, u)) >= ScanThreshold
<1>1. PICK B, log : B = Attack("scan", t) /\ log = handled[w]
  OBVIOUS
<1>2. /\ IsFiniteSet(B) /\ IsFiniteSet(InWindow(log, s, u)) /\ f \in [B -> InWindow(log, s, u)]
      /\ \A h \in B : log[f[h]] = h
      /\ w \in Workers
  BY <1>1 DEF InOneWindow
<1>3. PICK ports \in Nat : ports = Len(ScannedPorts)
  BY PerTickIs
<1>4. n \in Nat /\ Laid(b, k, l, m, n)
  BY DEF Drawn
<1>5. PICK o \in Nat : o = Len(b)
  BY <1>4, LenProperties DEF Laid
<1>6. \A h \in B : h.event.n \in (n + 1)..o /\ h.event.packet = b[h.event.n]
  BY <1>1, <1>5
<1>7. o = n + ports /\ \A i \in (n + 1)..o : b[i].dst_port = ScannedPorts[i - n]
  <2>1. o - n \in {0, ports} /\ \A i \in (n + 1)..o : b[i].dst_port = ScannedPorts[i - n]
    BY <1>3, <1>4, <1>5 DEF Laid
  <2>2. PICK i : i \in (n + 1)..o
    BY <1>1, <1>6
  <2>3. n + 1 <= o
    BY <1>4, <2>2
  <2>4. o = n + ports
    BY <1>4, <2>1, <2>3
  <2> QED BY <2>1, <2>4
<1>8. PICK J : J = (n + 1)..o
  OBVIOUS
<1>9. IsFiniteSet(J) /\ Cardinality(J) = ports
  <2>1. n + 1 \in Int /\ o \in Int
    BY <1>4
  <2>2. IsFiniteSet(J) /\ Cardinality(J) = IF n + 1 > o THEN 0 ELSE o - (n + 1) + 1
    BY <1>8, <2>1, FS_Interval
  <2>3. (IF n + 1 > o THEN 0 ELSE o - (n + 1) + 1) = ports
    BY <1>4, <1>7
  <2> QED BY <2>2, <2>3
<1>10. PICK g : g = [h \in B |-> h.event.n]
  OBVIOUS
<1>11. g \in [B -> J]
  BY <1>6, <1>8, <1>10
<1>12. ASSUME NEW x \in B, NEW y \in B, g[x] = g[y]
       PROVE  x = y
  <2>1. f[x] \in 1..Len(log) /\ f[y] \in 1..Len(log)
    BY <1>2 DEF InWindow
  <2>2. x.event.n = y.event.n
    BY <1>10, <1>12
  <2>3. x.event.tick = t /\ y.event.tick = t
    BY <1>1 DEF Attack
  <2>4. PICK i \in 1..Len(handled[w]), j \in 1..Len(handled[w]) :
          i = f[x] /\ j = f[y] /\ handled[w][i] = x /\ handled[w][j] = y
    BY <1>1, <1>2, <2>1
  <2>5. /\ handled[w][i].event.tick = handled[w][j].event.tick
        /\ handled[w][i].event.n = handled[w][j].event.n
    BY <2>2, <2>3, <2>4
  <2>6. i = j
    BY <1>2, <2>5, EntriesDiffer
  <2> QED BY <2>4, <2>6
<1>13. \A i \in J : \E h \in B : g[h] = i
  BY <1>1, <1>3, <1>9, <1>11, <1>12, IntoBound
<1>14. PICK P, Q : /\ P = {Bucket[ScannedPorts[i]] : i \in DOMAIN ScannedPorts}
                   /\ Q = BucketsIn(log, s, u)
  OBVIOUS
<1>15. ASSUME NEW i \in 1..ports PROVE Bucket[ScannedPorts[i]] \in Q
  <2>1. PICK c : c \in J /\ c - n = i
    <3>1. PICK c : c = n + i
      OBVIOUS
    <3>2. c \in (n + 1)..o /\ c - n = i
      BY <1>4, <1>7, <3>1
    <3> QED BY <1>8, <3>2
  <2>2. PICK h \in B : g[h] = c
    BY <1>13, <2>1
  <2>3. h.event.n = c /\ h.event.packet.dst_port = ScannedPorts[i]
    BY <1>6, <1>7, <1>8, <1>10, <2>1, <2>2
  <2>4. f[h] \in InWindow(log, s, u) /\ log[f[h]] = h
    BY <1>2
  <2> QED BY <1>14, <2>3, <2>4 DEF BucketsIn
<1>16. DOMAIN ScannedPorts = 1..ports
  BY <1>3, SimulatorAssumption, LenProperties
<1>17. P \subseteq Q
  BY <1>14, <1>15, <1>16
<1>18. IsFiniteSet(Q)
  BY <1>2, <1>14, BucketsFinite
<1>19. IsFiniteSet(P) /\ Cardinality(P) <= Cardinality(Q)
  BY <1>17, <1>18, FS_Subset
<1>20. PICK x \in Nat, y \in Nat, z \in Nat :
         x = Cardinality(P) /\ y = Cardinality(Q) /\ z = ScanThreshold /\ z <= x
  BY <1>14, <1>18, <1>19, FS_CardinalityType, DetectorAssumption, TrafficAssumption
<1>21. z <= y
  BY <1>19, <1>20
<1> QED BY <1>1, <1>14, <1>20, <1>21

\* What is reported in the log is reported.
LEMMA ReportFound ==
  ASSUME EngineTypes, NEW t, NEW kind, NEW w, NEW s, NEW u, NEW f, NEW rule,
         InOneWindow(kind, t, w, s, u, f), Attack(kind, t) # {}, Reported(handled[w], s, u, rule)
  PROVE  \E h \in Handled : \E g \in Attack(kind, t) :
           /\ Raised(h, rule) /\ h.window = g.window
           /\ h.event.packet.src_ip = g.event.packet.src_ip
<1>1. PICK i \in 1..Len(handled[w]) : /\ Raised(handled[w][i], rule) /\ handled[w][i].window = u
                                      /\ handled[w][i].event.packet.src_ip = s
  BY DEF Reported, InWindow
<1>2. PICK g : g \in Attack(kind, t) /\ g.window = u /\ g.event.packet.src_ip = s
  BY DEF InOneWindow
<1>3. handled[w][i] \in Handled
  BY Log DEF Handled, InOneWindow
<1> QED BY <1>1, <1>2, <1>3

LEMMA BurstSuffices ==
  ASSUME EngineTypes, OrderInv, DrawnInv, BurstInv
  PROVE  BurstReported
<1>1. ASSUME NEW t \in 1..tick, Attack("flood", t) # {},
             Cardinality(Attack("flood", t)) = FloodBurst,
             Cardinality({h.window : h \in Attack("flood", t)}) = 1
      PROVE  \E h \in Handled : \E g \in Attack("flood", t) :
               /\ Raised(h, "syn_flood_anomaly") /\ h.window = g.window
               /\ h.event.packet.src_ip = g.event.packet.src_ip
  <2>1. PICK b, k, l, m, n : Drawn(t, b, k, l, m, n)
    BY DrawnAt
  <2>2. PICK w, s, u, f : InOneWindow("flood", t, w, s, u, f)
    BY <1>1, <2>1, BurstWindow
  <2>3. Cardinality(SynsIn(handled[w], s, u)) >= FloodThreshold
    BY <1>1, <2>2, FloodReaches
  <2>4. Reported(handled[w], s, u, "syn_flood_anomaly")
    BY <2>2, <2>3 DEF InOneWindow, BurstInv, BurstAt, BurstsIn
  <2> QED BY <1>1, <2>2, <2>4, ReportFound
<1>2. ASSUME NEW t \in 1..tick, Attack("scan", t) # {},
             Cardinality(Attack("scan", t)) = Len(ScannedPorts),
             Cardinality({h.window : h \in Attack("scan", t)}) = 1
      PROVE  \E h \in Handled : \E g \in Attack("scan", t) :
               /\ Raised(h, "port_scan_anomaly") /\ h.window = g.window
               /\ h.event.packet.src_ip = g.event.packet.src_ip
  <2>1. PICK b, k, l, m, n : Drawn(t, b, k, l, m, n)
    BY DrawnAt
  <2>2. PICK w, s, u, f : InOneWindow("scan", t, w, s, u, f)
    BY <1>2, <2>1, BurstWindow
  <2>3. \A h \in Attack("scan", t) :
          h.event.n \in (n + 1)..Len(b) /\ h.event.packet = b[h.event.n]
    BY <1>2, <2>1, BurstWindow
  <2>4. Cardinality(BucketsIn(handled[w], s, u)) >= ScanThreshold
    BY <1>2, <2>1, <2>2, <2>3, ScanReaches
  <2>5. Reported(handled[w], s, u, "port_scan_anomaly")
    BY <2>2, <2>4 DEF InOneWindow, BurstInv, BurstAt, BurstsIn
  <2> QED BY <1>2, <2>2, <2>5, ReportFound
<1> QED BY <1>1, <1>2 DEF BurstReported

\* "shard_key fixes this": a flood or a scan none of whose events was dropped, and
\* which its worker handles in one window, is reported in that window, whatever
\* the sketch's collisions and the other traffic.
THEOREM BurstsReported == EngineSpec => []BurstReported
<1>1. EngineInit => BurstInv
  BY InitBurst
<1>2. EngineBase /\ BurstInv /\ [EngineNext]_engineVars => BurstInv'
  BY NextBurst DEF EngineBase
<1>3. EngineBase /\ BurstInv => BurstReported
  BY BurstSuffices DEF EngineBase
<1> QED BY <1>1, <1>2, <1>3, EngineInvariant, PTL DEF EngineSpec

-----------------------------------------------------------------------------
(* Whom the alerts accuse. *)

\* The buckets of all the ports that are not a scan's.
Ordinary == {Bucket[q] : q \in BenignPorts \cup {80}}

LEMMA OrdinaryFew ==
  /\ IsFiniteSet(Ordinary) /\ Cardinality(Ordinary) < ScanThreshold /\ ScanThreshold \in Nat
  /\ \A T : T \subseteq Ordinary => ~(Cardinality(T) >= ScanThreshold)
<1>1. IsFiniteSet(BenignPorts \cup {80})
  BY TrafficAssumption, FS_AddElement
<1>2. PICK P : P = BenignPorts \cup {80}
  OBVIOUS
<1>3. PICK f : f = [q \in P |-> Bucket[q]]
  OBVIOUS
<1>4. f \in [P -> Ordinary] /\ \A y \in Ordinary : \E x \in P : f[x] = y
  BY <1>2, <1>3 DEF Ordinary
<1>5. IsFiniteSet(Ordinary)
  BY <1>1, <1>2, <1>4, OntoBound
<1>6. Cardinality(Ordinary) < ScanThreshold /\ ScanThreshold \in Nat
  BY TrafficAssumption, DetectorAssumption DEF Ordinary
<1>7. ASSUME NEW T, T \subseteq Ordinary
      PROVE  ~(Cardinality(T) >= ScanThreshold)
  <2>1. Cardinality(T) <= Cardinality(Ordinary) /\ IsFiniteSet(T)
    BY <1>5, <1>7, FS_Subset
  <2>2. Cardinality(T) \in Nat /\ Cardinality(Ordinary) \in Nat
    BY <1>5, <2>1, FS_CardinalityType
  <2> QED BY <1>6, <2>1, <2>2
<1> QED BY <1>5, <1>6, <1>7

\* In row r source s shares its column with no source of its worker.
Alone(r, s) ==
  \A u \in Sources \ {s} :
    ShardKey[u] % WORKER_COUNT = ShardKey[s] % WORKER_COUNT => Hash[r][u] # Hash[r][s]

\* Where a source of worker w is alone, its counter has counted nothing but its
\* SYNs of window u.
CountsOwn(w, log, u, table) ==
  \A s \in Sources : \A r \in Rows :
    ShardKey[s] % WORKER_COUNT = w /\ Alone(r, s)
      => table[r][Hash[r][s]] <= Cardinality(SynsIn(log, s, u))

\* Each partial match of the rule was begun by a SYN of its source.
SynAt(log, s, at) ==
  \E j \in 1..Len(log) :
    log[j].event.packet.src_ip = s /\ is_syn(log[j].event.packet) /\ log[j].at = at
StartsLogged(log, engine) ==
  \A key \in DOMAIN engine[CepRule] : \A i \in 1..Len(engine[CepRule][key]) :
    SynAt(log, key, engine[CepRule][key][i].started_at)

\* The i-th entry of worker w accuses its source of nothing it has not done.
FairEntry(w, i) ==
  /\ Raised(handled[w][i], "port_scan_anomaly")
       => \E j \in InItsWindow(w, i) : handled[w][j].event.packet.kind = "scan"
  /\ Raised(handled[w][i], "syn_flood_anomaly")
     /\ Distinguished(handled[w][i].event.packet.src_ip)
       => Cardinality({j \in InItsWindow(w, i) : is_syn(handled[w][j].event.packet)})
            >= FloodThreshold
  /\ Raised(handled[w][i], CepRule)
       => /\ handled[w][i].event.packet.kind \in {"payload", "exploit"}
          /\ \E j \in SoFar(w, i) \ {i} :
               /\ is_syn(handled[w][j].event.packet)
               /\ handled[w][i].at - handled[w][j].at <= Window

FairAt(w) ==
  /\ CountsOwn(w, handled[w], anomaly[w].window_start, anomaly[w].syn_counts)
  /\ StartsLogged(handled[w], cep[w])
  /\ \A i \in 1..Len(handled[w]) : FairEntry(w, i)

FairInv == \A w \in Workers : FairAt(w)

LEMMA InitFair ==
  ASSUME EngineInit
  PROVE  FairInv
<1>1. /\ \A r \in Rows : \A s \in Sources : Hash[r][s] \in Columns
      /\ 0 <= 0
  BY DetectorAssumption
<1>2. ASSUME NEW w \in Workers PROVE FairAt(w)
  <2>1. /\ Len(handled[w]) = 0 /\ DOMAIN cep[w][CepRule] = {}
        /\ anomaly[w].syn_counts = [r \in Rows |-> [c \in Columns |-> 0]]
    BY DEF EngineInit, CepRules
  <2>2. \A s, u : InWindow(handled[w], s, u) = {}
    BY <2>1 DEF InWindow
  <2>3. \A s, u : Cardinality(SynsIn(handled[w], s, u)) = 0
    BY <2>2, EmptyWindow
  <2>4. \A r \in Rows : \A s \in Sources : anomaly[w].syn_counts[r][Hash[r][s]] = 0
    BY <1>1, <2>1
  <2> QED BY <1>1, <2>1, <2>3, <2>4 DEF FairAt, CountsOwn, StartsLogged
<1> QED BY <1>2 DEF FairInv

\* The counters that observe works on, after maybe_roll_window.
LEMMA RolledOwn ==
  ASSUME EngineTypes, TimeInv, NEW w \in Workers, FairAt(w), NEW p,
         NEW u, u = AnomalyAfter(w, p).window_start
  PROVE  CountsOwn(w, handled[w], u, Anomaly(w)!Table)
<1>1. CASE ~Anomaly(w)!WindowOver
  <2>1. u = anomaly[w].window_start /\ Anomaly(w)!Table = anomaly[w].syn_counts
    BY <1>1, WindowAfter DEF Anomaly!Table
  <2> QED BY <2>1 DEF FairAt
<1>2. CASE Anomaly(w)!WindowOver
  <2>1. Anomaly(w)!Table = [r \in Rows |-> [x \in Columns |-> 0]]
    BY <1>2 DEF Anomaly!Table, Anomaly!EmptyTable
  <2>2. ASSUME NEW s \in Sources, NEW r \in Rows
        PROVE  Anomaly(w)!Table[r][Hash[r][s]] <= Cardinality(SynsIn(handled[w], s, u))
    <3>1. Hash[r][s] \in Columns
      BY DetectorAssumption
    <3>2. Anomaly(w)!Table[r][Hash[r][s]] = 0
      BY <2>1, <3>1
    <3>3. PICK k \in Nat : k = Len(handled[w])
      BY Log
    <3>4. IsFiniteSet(1..k)
      <4>1. 1 \in Int /\ k \in Int
        OBVIOUS
      <4> QED BY <4>1, FS_Interval
    <3>5. SynsIn(handled[w], s, u) \subseteq 1..k
      BY <3>3 DEF SynsIn, InWindow
    <3>6. PICK c \in Nat : c = Cardinality(SynsIn(handled[w], s, u))
      BY <3>4, <3>5, FS_Subset, FS_CardinalityType
    <3>7. 0 <= c
      OBVIOUS
    <3> QED BY <3>2, <3>6, <3>7
  <2> QED BY <2>2 DEF CountsOwn
<1> QED BY <1>1, <1>2

\* A SYN raises the counters of its own source only, where that one is alone.
LEMMA OwnCounted ==
  ASSUME EngineTypes, TimeInv, OrderInv, NEW w \in Workers, FairAt(w), NEW e, NEW h,
         Handling(w, e, h)
  PROVE  CountsOwn(w, handled'[w], h.window, Anomaly(w)!Counted(e.packet))
<1>1. PICK p, u, log, longer : p = e.packet /\ u = h.window /\ log = handled[w] /\ longer = handled'[w]
  OBVIOUS
<1>2. PICK k \in Nat : k = Len(log)
  BY <1>1, Log
<1>3. Len(longer) = k + 1 /\ longer[k + 1] = h /\ \A i \in 1..k : longer[i] = log[i]
  BY <1>1, <1>2, Entered
<1>4. h.event.packet = p /\ u = AnomalyAfter(w, p).window_start
  BY <1>1, EntryRaised
<1>5. p.src_ip \in Sources /\ ShardKey[p.src_ip] % WORKER_COUNT = w
  BY <1>1, HandledShard
<1>6. CountsOwn(w, log, u, Anomaly(w)!Table)
  BY <1>1, <1>4, RolledOwn
<1>7. ASSUME NEW s \in Sources, NEW r \in Rows, ShardKey[s] % WORKER_COUNT = w, Alone(r, s)
      PROVE  Anomaly(w)!Counted(p)[r][Hash[r][s]] <= Cardinality(SynsIn(longer, s, u))
  <2>1. PICK n, m : /\ n = Anomaly(w)!Table[r][Hash[r][s]]
                    /\ m = Anomaly(w)!Counted(p)[r][Hash[r][s]]
    OBVIOUS
  <2>2. CellAfter(n, m, p, s, r)
    <3>1. anomaly[w] \in Detectors
      BY DEF EngineTypes, AnomalyTypes
    <3> QED BY <2>1, <3>1, CountedCells
  <2>3. /\ ~(p.src_ip = s) \/ ~is_syn(p) => SynsIn(longer, s, u) = SynsIn(log, s, u)
        /\ p.src_ip = s /\ is_syn(p) => SynsIn(longer, s, u) = SynsIn(log, s, u) \cup {k + 1}
        /\ IsFiniteSet(SynsIn(log, s, u)) /\ k + 1 \notin SynsIn(log, s, u)
    <3>1. Grown(log, longer, k, h, s, u)
      BY <1>2, <1>3, WindowGrows
    <3> QED BY <1>1, <1>4, <3>1 DEF Grown
  <2>4. PICK c \in Nat : c = Cardinality(SynsIn(log, s, u))
    BY <2>3, FS_CardinalityType
  <2>5. PICK x \in Nat : x = CounterMax
    BY DetectorAssumption
  <2>6. n \in 0..x /\ n <= c
    BY <1>6, <1>7, <2>1, <2>2, <2>4, <2>5 DEF CountsOwn, CellAfter
  <2>7. CASE p.src_ip = s /\ is_syn(p)
    <3>1. Cardinality(SynsIn(longer, s, u)) = c + 1
      BY <2>3, <2>4, <2>7, FS_AddElement
    <3>2. m = IF n < x THEN n + 1 ELSE x
      BY <2>2, <2>5, <2>7 DEF CellAfter
    <3>3. m <= c + 1
      BY <2>6, <3>2
    <3> QED BY <2>1, <3>1, <3>3
  <2>8. CASE ~(p.src_ip = s /\ is_syn(p))
    <3>1. ~is_syn(p) \/ Hash[r][p.src_ip] # Hash[r][s]
      BY <1>5, <1>7, <2>8 DEF Alone
    <3>2. m = n
      BY <2>2, <3>1 DEF CellAfter
    <3> QED BY <2>1, <2>3, <2>4, <2>6, <2>8, <3>2
  <2> QED BY <2>7, <2>8
<1> QED BY <1>1, <1>7 DEF CountsOwn

\* A partial match is begun by the SYN that is handled.
LEMMA StartsAfter ==
  ASSUME EngineTypes, CepTypes, NEW w \in Workers, FairAt(w), NEW e, NEW h, Handling(w, e, h)
  PROVE  StartsLogged(handled'[w], cep'[w])
<1>1. PICK p, s : p = e.packet /\ s = p.src_ip
  OBVIOUS
<1>2. PICK k, log, longer : k \in Nat /\ k = Len(log) /\ log = handled[w] /\ longer = handled'[w]
  BY Log
<1>3. /\ Len(longer) = k + 1 /\ longer[k + 1] = h /\ \A i \in 1..k : longer[i] = log[i]
      /\ h.event.packet = p /\ h.at = clock
  BY <1>1, <1>2, Entered, EntryRaised
<1>4. PICK L, R : /\ L \in Seq(Partial) /\ L = Cep(w)!Partials(CepRule, s)
                  /\ R = Cep(w)!Processed(CepRule, p)
  BY ListType DEF ListOf
<1>5. \A i \in 1..Len(R) : StartFrom(R[i], L, p)
  <2>1. clock \in Nat
    BY DEF EngineTypes, TrafficTypes
  <2> QED BY <1>1, <1>4, <2>1, ListAfter
<1>6. ListSet(w, s, R)
  BY <1>1, <1>4, CepAfter
<1>7. \A t, at : SynAt(log, t, at) => SynAt(longer, t, at)
  <2>1. \A j \in 1..k : j \in 1..(k + 1)
    BY <1>2
  <2> QED BY <1>2, <1>3, <2>1 DEF SynAt
<1>8. is_syn(p) => SynAt(longer, s, clock)
  <2>1. k + 1 \in 1..(k + 1)
    BY <1>2
  <2> QED BY <1>1, <1>3, <2>1 DEF SynAt
<1>9. \A j \in 1..Len(L) : SynAt(log, s, L[j].started_at)
  <2>1. s \in DOMAIN cep[w][CepRule] => L = cep[w][CepRule][s]
    BY <1>4, ListType DEF ListOf
  <2>2. s \notin DOMAIN cep[w][CepRule] => Len(L) = 0
    BY <1>4, ListType DEF ListOf
  <2>3. Len(L) = 0 => \A j \in 1..Len(L) : FALSE
    OBVIOUS
  <2> QED BY <1>2, <2>1, <2>2, <2>3 DEF FairAt, StartsLogged
<1>10. ASSUME NEW key \in DOMAIN cep'[w][CepRule], NEW i \in 1..Len(cep'[w][CepRule][key])
       PROVE  SynAt(longer, key, cep'[w][CepRule][key][i].started_at)
  <2>1. CASE key = s
    <3>1. cep'[w][CepRule][key] = R
      BY <1>6, <2>1 DEF ListSet
    <3>2. StartFrom(R[i], L, p)
      BY <1>5, <1>10, <3>1
    <3> QED BY <1>7, <1>8, <1>9, <2>1, <3>1, <3>2 DEF StartFrom
  <2>2. CASE key # s
    <3>1. key \in DOMAIN cep[w][CepRule] /\ cep'[w][CepRule][key] = cep[w][CepRule][key]
      BY <1>6, <2>2 DEF ListSet
    <3>2. SynAt(log, key, cep[w][CepRule][key][i].started_at)
      BY <1>2, <1>10, <3>1 DEF FairAt, StartsLogged
    <3> QED BY <1>7, <3>1, <3>2
  <2> QED BY <2>1, <2>2
<1> QED BY <1>2, <1>10 DEF StartsLogged

\* A fired sequence has a partial match that is not too old.
LEMMA SequenceFair ==
  ASSUME EngineTypes, CepTypes, NEW w \in Workers, FairAt(w), NEW e, NEW h, Handling(w, e, h),
         Raised(h, CepRule)
  PROVE  /\ e.packet.kind \in {"payload", "exploit"}
         /\ \E j \in 1..Len(handled[w]) :
              /\ handled[w][j].event.packet.src_ip = e.packet.src_ip
              /\ is_syn(handled[w][j].event.packet)
              /\ clock - handled[w][j].at <= Window
<1>1. PICK p, s : p = e.packet /\ s = p.src_ip
  OBVIOUS
<1>2. p \in Packets /\ Cep(w)!Fires(CepRule, p)
  BY <1>1, EntryRaised
<1>3. PICK L : L \in Seq(Partial) /\ L = Cep(w)!Partials(CepRule, s)
  BY ListType DEF ListOf
<1>4. clock \in Nat
  BY DEF EngineTypes, TrafficTypes
<1>5. Passwd(p) /\ \E j \in 1..Len(L) : clock - L[j].started_at <= Window
  BY <1>1, <1>2, <1>3, <1>4, ListAfter
<1>6. PICK j \in 1..Len(L) : clock - L[j].started_at <= Window
  BY <1>5
<1>7. SynAt(handled[w], s, L[j].started_at)
  <2>1. s \in DOMAIN cep[w][CepRule] => L = cep[w][CepRule][s]
    BY <1>3, ListType DEF ListOf
  <2>2. s \notin DOMAIN cep[w][CepRule] => Len(L) = 0
    BY <1>3, ListType DEF ListOf
  <2>3. Len(L) # 0
    BY <1>6
  <2> QED BY <2>1, <2>2, <2>3 DEF FairAt, StartsLogged
<1> QED BY <1>1, <1>2, <1>5, <1>6, <1>7, PasswdIs DEF SynAt

\* What an entry says of its source rests on the entries up to it, which stay.
LEMMA EntriesStay ==
  ASSUME EngineTypes, NEW w \in Workers, NEW e, NEW h, Handling(w, e, h),
         NEW i \in 1..Len(handled[w]), FairEntry(w, i)
  PROVE  FairEntry(w, i)'
<1>1. PICK k \in Nat : k = Len(handled[w]) /\ \A j \in 1..k : handled'[w][j] = handled[w][j]
  BY Log, Entered
<1>2. \A j \in 1..i : j \in 1..k
  BY <1>1
<1>3. SoFar(w, i)' = SoFar(w, i)
  BY <1>1, <1>2 DEF SoFar
<1>4. InItsWindow(w, i)' = InItsWindow(w, i)
  BY <1>1, <1>2, <1>3 DEF InItsWindow, SoFar
<1>5. {j \in InItsWindow(w, i) : is_syn(handled'[w][j].event.packet)}
        = {j \in InItsWindow(w, i) : is_syn(handled[w][j].event.packet)}
  BY <1>1, <1>2 DEF InItsWindow, SoFar
<1>6. \A j \in SoFar(w, i) : handled'[w][j] = handled[w][j]
  BY <1>1, <1>2 DEF SoFar
<1>7. handled'[w][i] = handled[w][i] /\ \A j \in InItsWindow(w, i) : j \in SoFar(w, i)
  BY <1>1 DEF InItsWindow
<1> QED BY <1>3, <1>4, <1>5, <1>6, <1>7 DEF FairEntry

\* The entry that is made accuses its source fairly.
LEMMA EntryFair ==
  ASSUME EngineTypes, TimeInv, OrderInv, BurstInv, CepTypes, NEW w \in Workers, FairAt(w),
         NEW e, NEW h, Handling(w, e, h), NEW i, i = Len(handled[w]) + 1
  PROVE  FairEntry(w, i)'
<1>1. PICK p, s, u, longer : p = e.packet /\ s = p.src_ip /\ u = h.window /\ longer = handled'[w]
  OBVIOUS
<1>2. PICK k \in Nat : k = Len(handled[w]) /\ i = k + 1
  BY Log
<1>3. Len(longer) = k + 1 /\ longer[i] = h /\ \A j \in 1..k : longer[j] = handled[w][j]
  BY <1>1, <1>2, Entered
<1>4. /\ p \in Packets /\ s \in Sources /\ h.event.packet = p /\ h.at = clock
      /\ ShardKey[s] % WORKER_COUNT = w
      /\ Raised(h, "syn_flood_anomaly") <=> Anomaly(w)!FloodFires(p)
      /\ Raised(h, "port_scan_anomaly") <=> Anomaly(w)!ScanFires(p)
  BY <1>1, EntryRaised, HandledShard
<1>5. /\ SoFar(w, i)' = {j \in 1..(k + 1) : longer[j].event.packet.src_ip = s}
      /\ InItsWindow(w, i)' = InWindow(longer, s, u)
      /\ {j \in InWindow(longer, s, u) : is_syn(longer[j].event.packet)} = SynsIn(longer, s, u)
  BY <1>1, <1>2, <1>3, <1>4 DEF SoFar, InItsWindow, InWindow, SynsIn
<1>6. ASSUME Raised(h, "port_scan_anomaly")
      PROVE  \E j \in InWindow(longer, s, u) : longer[j].event.packet.kind = "scan"
  <2>1. SUFFICES ASSUME \A j \in InWindow(longer, s, u) : longer[j].event.packet.kind # "scan"
                 PROVE  FALSE
    OBVIOUS
  <2>2. Cardinality(Anomaly(w)!Filled(p)) >= ScanThreshold
    BY <1>4, <1>6 DEF Anomaly!ScanFires, Anomaly!Cardinality, Cardinality
  <2>3. Anomaly(w)!Filled(p) = BucketsIn(longer, s, u)
    <3>1. anomaly'[w].port_cardinality[s] = BucketsIn(longer, s, u)
      BY <1>1, <1>4, TellsAfter DEF Tells
    <3> QED BY <1>1, <3>1, BucketsAfter
  <2>4. ASSUME NEW j \in InWindow(longer, s, u)
        PROVE  longer[j].event.packet.dst_port \in BenignPorts \cup {80}
    <3>1. j \in 1..(k + 1)
      BY <1>3 DEF InWindow
    <3>2. longer[j].event.packet \in Packets
      <4>1. CASE j = k + 1
        BY <1>2, <1>3, <1>4, <4>1
      <4>2. CASE j # k + 1
        <5>1. j \in 1..k
          BY <3>1, <4>2
        <5> QED BY <1>2, <1>3, <5>1, Log
      <4> QED BY <4>1, <4>2
    <3> QED BY <2>1, <3>2, PacketFacts
  <2>5. BucketsIn(longer, s, u) \subseteq Ordinary
    BY <2>4 DEF BucketsIn, Ordinary
  <2> QED BY <2>2, <2>3, <2>5, OrdinaryFew
<1>7. ASSUME Raised(h, "syn_flood_anomaly"), Distinguished(s)
      PROVE  Cardinality(SynsIn(longer, s, u)) >= FloodThreshold
  <2>1. PICK r \in Rows : Alone(r, s)
    BY <1>7 DEF Distinguished, Alone
  <2>2. PICK m : m = Anomaly(w)!Counted(p)[r][Hash[r][s]] /\ m >= FloodThreshold
    BY <1>1, <1>4, <1>7 DEF Anomaly!FloodFires, Anomaly!EstimateAtLeast
  <2>3. m <= Cardinality(SynsIn(longer, s, u))
    BY <1>1, <1>4, <2>1, <2>2, OwnCounted DEF CountsOwn
  <2>4. m \in Nat
    <3>1. PICK n : n = Anomaly(w)!Table[r][Hash[r][s]]
      OBVIOUS
    <3>2. CellAfter(n, m, p, s, r)
      <4>1. anomaly[w] \in Detectors
        BY DEF EngineTypes, AnomalyTypes
      <4> QED BY <1>4, <2>2, <3>1, <4>1, CountedCells
    <3>3. PICK x \in Nat : x = CounterMax
      BY DetectorAssumption
    <3>4. n \in 0..x /\ (m = n \/ m = IF n < x THEN n + 1 ELSE x)
      BY <3>2, <3>3 DEF CellAfter
    <3> QED BY <3>4
  <2>5. IsFiniteSet(SynsIn(longer, s, u))
    <3>1. IsFiniteSet(1..(k + 1))
      <4>1. 1 \in Int /\ k + 1 \in Int
        OBVIOUS
      <4> QED BY <4>1, FS_Interval
    <3>2. SynsIn(longer, s, u) \subseteq 1..(k + 1)
      BY <1>3 DEF SynsIn, InWindow
    <3> QED BY <3>1, <3>2, FS_Subset
  <2>6. PICK c \in Nat : c = Cardinality(SynsIn(longer, s, u))
    BY <2>5, FS_CardinalityType
  <2>7. PICK f \in Nat : f = FloodThreshold
    BY DetectorAssumption
  <2>8. c >= f
    BY <2>2, <2>3, <2>4, <2>6, <2>7
  <2> QED BY <2>6, <2>7, <2>8
<1>8. ASSUME Raised(h, CepRule)
      PROVE  /\ p.kind \in {"payload", "exploit"}
             /\ \E j \in SoFar(w, i)' \ {i} :
                  is_syn(longer[j].event.packet) /\ clock - longer[j].at <= Window
  <2>1. PICK j \in 1..k : /\ handled[w][j].event.packet.src_ip = s
                          /\ is_syn(handled[w][j].event.packet)
                          /\ clock - handled[w][j].at <= Window
    BY <1>1, <1>2, <1>8, SequenceFair
  <2>2. longer[j] = handled[w][j] /\ j \in 1..(k + 1) /\ j # i
    BY <1>2, <1>3
  <2>3. j \in SoFar(w, i)' \ {i}
    BY <1>5, <2>1, <2>2
  <2>4. p.kind \in {"payload", "exploit"}
    BY <1>1, <1>8, SequenceFair
  <2> QED BY <2>1, <2>2, <2>3, <2>4
<1>9. Distinguished(s)' <=> Distinguished(s)
  BY DEF Distinguished
<1>10. /\ handled'[w] = longer /\ handled'[w][i] = h /\ handled'[w][i].event.packet = p
       /\ handled'[w][i].event.packet.src_ip = s /\ handled'[w][i].at = clock
  BY <1>1, <1>3, <1>4
<1>11. Raised(handled'[w][i], "port_scan_anomaly")
         => \E j \in InItsWindow(w, i)' : handled'[w][j].event.packet.kind = "scan"
  BY <1>5, <1>6, <1>10
<1>12. Raised(handled'[w][i], "syn_flood_anomaly") /\ Distinguished(s)'
         => Cardinality({j \in InItsWindow(w, i)' : is_syn(handled'[w][j].event.packet)})
              >= FloodThreshold
  BY <1>5, <1>7, <1>9, <1>10
<1>13. Raised(handled'[w][i], CepRule)
         => /\ handled'[w][i].event.packet.kind \in {"payload", "exploit"}
            /\ \E j \in SoFar(w, i)' \ {i} :
                 /\ is_syn(handled'[w][j].event.packet)
                 /\ handled'[w][i].at - handled'[w][j].at <= Window
  BY <1>8, <1>10
<1> QED BY <1>10, <1>11, <1>12, <1>13 DEF FairEntry

LEMMA NextFair ==
  ASSUME EngineTypes, TimeInv, OrderInv, BurstInv, CepTypes, FairInv, [EngineNext]_engineVars
  PROVE  FairInv'
<1>1. CASE cep' = cep /\ handled' = handled /\ anomaly' = anomaly
  BY <1>1 DEF FairInv, FairAt, FairEntry, SoFar, InItsWindow
<1>2. ASSUME NEW w \in Workers, Handle(w) PROVE FairInv'
  <2>1. PICK e, h : Handling(w, e, h)
    BY <1>2, HandleIs DEF EngineTypes
  <2>2. FairAt(w)
    BY DEF FairInv
  <2>3. /\ anomaly'[w] = AnomalyAfter(w, e.packet)
        /\ h.window = AnomalyAfter(w, e.packet).window_start
    BY <2>1, DetectorAfter, EntryRaised
  <2>4. CountsOwn(w, handled'[w], anomaly'[w].window_start, anomaly'[w].syn_counts)
    <3>1. /\ anomaly'[w].window_start = h.window
          /\ anomaly'[w].syn_counts = Anomaly(w)!Counted(e.packet)
      BY <2>3 DEF AnomalyAfter
    <3> QED BY <2>1, <2>2, <3>1, OwnCounted
  <2>5. StartsLogged(handled'[w], cep'[w])
    BY <2>1, <2>2, StartsAfter
  <2>6. \A i \in 1..Len(handled'[w]) : FairEntry(w, i)'
    <3>1. ASSUME NEW i \in 1..Len(handled'[w])
          PROVE  FairEntry(w, i)'
      <4>1. CASE i \in 1..Len(handled[w])
        BY <2>1, <2>2, <4>1, EntriesStay DEF FairAt
      <4>2. CASE i = Len(handled[w]) + 1
        BY <2>1, <2>2, <4>2, EntryFair
      <4> QED BY <2>1, <3>1, <4>1, <4>2, Entered
    <3> QED BY <3>1
  <2>7. FairAt(w)'
    BY <2>4, <2>5, <2>6 DEF FairAt
  <2>8. ASSUME NEW v \in Workers, v # w
        PROVE  FairAt(v)'
    <3>1. handled'[v] = handled[v] /\ anomaly'[v] = anomaly[v] /\ cep'[v] = cep[v]
      BY <2>1, <2>8, Entered, DetectorAfter, CepAfter DEF ListSet
    <3>2. FairAt(v)
      BY DEF FairInv
    <3>3. ASSUME NEW i, FairEntry(v, i)
          PROVE  FairEntry(v, i)'
      <4>1. SoFar(v, i)' = SoFar(v, i)
        BY <3>1 DEF SoFar
      <4>2. InItsWindow(v, i)' = InItsWindow(v, i)
        BY <3>1, <4>1 DEF InItsWindow
      <4>3. \A s : Distinguished(s)' <=> Distinguished(s)
        BY DEF Distinguished
      <4> QED BY <3>1, <3>3, <4>1, <4>2, <4>3, Zenon DEF FairEntry
    <3>4. /\ CountsOwn(v, handled'[v], anomaly'[v].window_start, anomaly'[v].syn_counts)
          /\ StartsLogged(handled'[v], cep'[v])
      BY <3>1, <3>2 DEF FairAt
    <3>5. \A i \in 1..Len(handled'[v]) : FairEntry(v, i)'
      BY <3>1, <3>2, <3>3 DEF FairAt
    <3> QED BY <3>4, <3>5 DEF FairAt
  <2> QED BY <2>7, <2>8 DEF FairInv
<1> QED BY <1>1, <1>2 DEF EngineNext, NextBatch, Push, Tick, engineVars

\* An alert rests on what its worker has handled of the accused source up to then
\* and within a window: a port scan on a packet of a scan, a flood on as many SYNs
\* of the source as the threshold unless others collide with it in every row of
\* the sketch, a sequence on an earlier SYN and now a malicious payload.
THEOREM NoneIsAccusedFalsely == EngineSpec => []NoneAccusedFalsely
<1>1. EngineInit => BurstInv /\ FairInv
  BY InitBurst, InitFair
<1>2. CepInv /\ BurstInv /\ FairInv /\ [EngineNext]_engineVars => BurstInv' /\ FairInv'
  BY NextBurst, NextFair DEF CepInv, EngineBase
<1>3. CepInv /\ FairInv => NoneAccusedFalsely
  <2>1. ASSUME CepInv, FairInv, NEW w \in Workers, NEW i \in DOMAIN handled[w]
        PROVE  FairEntry(w, i)
    <3>1. DOMAIN handled[w] = 1..Len(handled[w])
      BY <2>1, Log DEF CepInv, EngineBase
    <3> QED BY <2>1, <3>1 DEF FairInv, FairAt
  <2> QED BY <2>1 DEF NoneAccusedFalsely, FairEntry
<1> QED BY <1>1, <1>2, <1>3, CepInvariant, PTL DEF EngineSpec
=============================================================================
