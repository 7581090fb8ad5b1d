--------------------------- MODULE MpmcQueueProofs ---------------------------
(***************************************************************************)
(* Proofs about the ring buffer of engine/src/queue.rs for every number of  *)
(* threads, every item set and every capacity of at least two: first the    *)
(* invariants of the protocol, then that it implements the bounded FIFO.    *)
(* The claims of push and pop are the steps of the FIFO, the start of a pop *)
(* empties the consumer's hand, and every other access to shared memory is  *)
(* a stuttering step.                                                       *)
(***************************************************************************)
EXTENDS MpmcQueue, SequenceTheorems, TLAPS

-----------------------------------------------------------------------------
(* Slot arithmetic: pos & mask. *)

\* Quotient and remainder by Capacity are unique (pos = Capacity * lap + slot).
LEMMA DivisionUnique ==
  ASSUME Capacity \in Nat, Capacity >= 2,
         NEW k \in Int, NEW r \in 0..(Capacity - 1),
         NEW l \in Int, NEW s \in 0..(Capacity - 1),
         Capacity * k + r = Capacity * l + s
  PROVE  k = l /\ r = s
OBVIOUS

\* A position is a number of laps of the ring plus its slot.
LEMMA DivisionOfPosition ==
  ASSUME Capacity \in Nat, Capacity >= 2, NEW n \in Int
  PROVE  /\ n \div Capacity \in Int
         /\ Slot(n) \in 0..(Capacity - 1)
         /\ n = Capacity * (n \div Capacity) + Slot(n)
BY DEF Slot

\* Every position has a slot, and positions Capacity apart share it
\* (`&self.buffer[pos & self.mask]` never indexes out of bounds).
LEMMA SlotOfPosition ==
  ASSUME Capacity \in Nat, Capacity >= 2, NEW n \in Int
  PROVE  Slot(n) \in Slots /\ Slot(n - Capacity) = Slot(n)
<1> DEFINE k == n \div Capacity
           l == (n - Capacity) \div Capacity
<1>1. k \in Int /\ Slot(n) \in 0..(Capacity - 1) /\ n = Capacity * k + Slot(n)
  BY DivisionOfPosition
<1>2. /\ l \in Int
      /\ Slot(n - Capacity) \in 0..(Capacity - 1)
      /\ n - Capacity = Capacity * l + Slot(n - Capacity)
  BY DivisionOfPosition
<1> HIDE DEF k, l
<1>3. PICK m \in Int : m = k - 1 /\ Capacity * m = Capacity * k - Capacity
  BY <1>1
<1>4. Capacity * m + Slot(n) = Capacity * l + Slot(n - Capacity)
  BY <1>1, <1>2, <1>3
<1>5. Slot(n) = Slot(n - Capacity)
  BY <1>1, <1>2, <1>4, DivisionUnique
<1> QED BY <1>1, <1>5 DEF Slots

\* Two different positions less than Capacity apart have different slots
\* (`pos & self.mask`).
LEMMA SlotInjective ==
  ASSUME Capacity \in Nat, Capacity >= 2,
         NEW m \in Int, NEW n \in Int, m < n, n - m < Capacity
  PROVE  Slot(m) # Slot(n)
<1> DEFINE k == m \div Capacity
           l == n \div Capacity
<1>1. k \in Int /\ m = Capacity * k + Slot(m) /\ Slot(m) \in 0..(Capacity - 1)
  BY DivisionOfPosition
<1>2. l \in Int /\ n = Capacity * l + Slot(n) /\ Slot(n) \in 0..(Capacity - 1)
  BY DivisionOfPosition
<1> HIDE DEF k, l
<1>3. Capacity * (l - k) = Capacity * l - Capacity * k
  BY <1>1, <1>2
<1>4. SUFFICES ASSUME Slot(m) = Slot(n) PROVE FALSE
  OBVIOUS
<1>5. Capacity * (l - k) = n - m
  BY <1>1, <1>2, <1>3, <1>4
<1>6. l - k >= 1 => Capacity * (l - k) >= Capacity
  BY <1>1, <1>2
<1>7. l - k < 1 => Capacity * (l - k) <= 0
  BY <1>1, <1>2
<1> QED BY <1>1, <1>2, <1>5, <1>6, <1>7

\* Slot arithmetic as the steps below use it.
LEMMA SlotFacts ==
  ASSUME Capacity >= 2
  PROVE  /\ Capacity \in Nat
         /\ \A n \in Int : Slot(n) \in Slots /\ Slot(n - Capacity) = Slot(n)
         /\ \A m, n \in Int :
              m # n /\ m - n < Capacity /\ n - m < Capacity => Slot(m) # Slot(n)
<1>1. Capacity \in Nat
  BY CapacityAssumption
<1>2. ASSUME NEW n \in Int
      PROVE  Slot(n) \in Slots /\ Slot(n - Capacity) = Slot(n)
  BY <1>1, SlotOfPosition
<1>3. ASSUME NEW m \in Int, NEW n \in Int,
             m # n, m - n < Capacity, n - m < Capacity
      PROVE  Slot(m) # Slot(n)
  <2>1. CASE m < n
    BY <1>1, <1>3, <2>1, SlotInjective
  <2>2. CASE n < m
    BY <1>1, <1>3, <2>2, SlotInjective
  <2> QED BY <1>3, <2>1, <2>2
<1> QED BY <1>1, <1>2, <1>3

-----------------------------------------------------------------------------
(* The protocol invariant is inductive: one lemma per action. *)

\* Different positions of the window have different slots: what a thread does
\* to the slot of its own position disturbs no other.
LEMMA WindowApart ==
  ASSUME Capacity >= 2, TypeOK
  PROVE  \A m, n \in Window : m # n => Slot(m) # Slot(n)
<1>1. Capacity \in Nat /\ enqueue_pos \in Nat
  BY SlotFacts DEF TypeOK
<1>2. ASSUME NEW m \in Window, NEW n \in Window
      PROVE  m \in Int /\ n \in Int /\ m - n < Capacity /\ n - m < Capacity
  BY <1>1 DEF Window
<1> QED BY <1>2, SlotFacts

\* The window reaches back to the oldest item that is still queued, and the
\* positions held by the threads inside a slot all lie in it.
LEMMA HeldInWindow ==
  ASSUME Capacity >= 2, ProtocolInv
  PROVE  /\ \A p \in Producers : pc[p] \in {"write", "publish"} => pos[p] \in Window
         /\ \A c \in Consumers : pc[c] \in {"take", "release"} => pos[c] \in Window
         /\ \A m \in dequeue_pos..(enqueue_pos - 1) : m \in Window
BY SlotFacts DEF ProtocolInv, TypeOK, QueueBounded, ProducerState, ConsumerState,
                 Window, Threads

\* MpmcQueue::new establishes the protocol invariant.
LEMMA InitProtocol ==
  ASSUME Capacity >= 2, Init
  PROVE  ProtocolInv
<1>0. /\ Capacity \in Nat
      /\ \A n \in Int : Slot(n) \in Slots /\ Slot(n - Capacity) = Slot(n)
  BY SlotFacts
<1>1. TypeOK
  BY <1>0 DEF Init, TypeOK, Slots, Threads
<1>2. QueueBounded
  BY <1>0 DEF Init, QueueBounded
<1>3. SlotState
  <2>1. enqueue_pos = 0 /\ dequeue_pos = 0
    BY DEF Init
  <2> SUFFICES ASSUME NEW m \in Window
               PROVE  /\ ~(dequeue_pos <= m)
                      /\ sequence[Slot(m)] = m + Capacity /\ value[Slot(m)] = None
    BY Zenon DEF SlotState
  <2>2. m \in Int /\ m < 0 /\ m + Capacity \in 0..(Capacity - 1)
    BY <1>0, <2>1 DEF Window
  <2>3. Slot(m + Capacity) = m + Capacity
    <3>1. (m + Capacity) \div Capacity = 0 /\ (m + Capacity) % Capacity = m + Capacity
      BY <1>0, <2>2, SMT
    <3> QED BY <3>1 DEF Slot
  <2>4. Slot(m) = m + Capacity
    BY <1>0, <2>2, <2>3, (m + Capacity) - Capacity = m, m + Capacity \in Int
  <2> QED BY <1>0, <2>1, <2>2, <2>4 DEF Init, Slots
<1>4. ProducerState /\ ConsumerState
  BY DEF Init, ProducerState, ConsumerState, Threads
<1> QED BY <1>1, <1>2, <1>3, <1>4 DEF ProtocolInv

\* A push step that only loads, compares or returns keeps the invariant.
LEMMA PushQuietProtocol ==
  ASSUME Capacity >= 2, ProtocolInv, NEW p \in Producers,
         \/ \E v \in Items : Push(p, v)
         \/ PushLoad(p) \/ PushCheck(p) \/ PushLose(p)
  PROVE  ProtocolInv'
<1>1. UNCHANGED <<sequence, value, enqueue_pos, dequeue_pos>>
  BY DEF Push, PushLoad, PushCheck, PushReady, PushFull, PushBehind, PushLose
<1> DEFINE Quiet ==
      /\ pc' \in [Threads -> {"idle", "load", "slot", "cas",
                              "write", "publish", "take", "release"}]
      /\ pos' \in [Threads -> Nat]
      /\ item' \in [Threads -> Items \cup {None}]
      /\ \A t \in Threads \ {p} :
           pc'[t] = pc[t] /\ pos'[t] = pos[t] /\ item'[t] = item[t]
      /\ pc[p] \notin {"write", "publish"}
      /\ pc'[p] \in {"idle", "load", "slot", "cas"}
      /\ pos'[p] <= enqueue_pos
      /\ pc'[p] # "idle" => item'[p] \in Items
      /\ pc'[p] = "cas" => sequence[Slot(pos'[p])] >= pos'[p]
<1>2. TypeOK /\ ProducerState /\ p \in Threads
  BY DEF ProtocolInv, Threads
<1>3. Quiet
  <2>1. CASE \E v \in Items : Push(p, v)
    BY <1>2, <2>1 DEF TypeOK, Push, Goto
  <2>2. CASE PushLoad(p) \/ PushLose(p)
    BY <1>2, <2>2 DEF TypeOK, ProducerState, PushLoad, PushLose, RelaxedLoad, Goto
  <2>3. ASSUME NEW seq \in AcquireLoad(Slot(pos[p])), PushReady(p, seq) PROVE Quiet
    <3>1. /\ pos[p] \in Int /\ sequence[Slot(pos[p])] \in Int
          /\ seq \in Int /\ seq <= sequence[Slot(pos[p])]
      BY <1>2, SlotFacts DEF TypeOK, AcquireLoad, Slots
    <3> QED BY <1>2, <2>3, <3>1 DEF TypeOK, ProducerState, PushReady, PushDiff, Goto
  <2>4. ASSUME NEW seq, PushFull(p, seq) \/ PushBehind(p, seq) PROVE Quiet
    BY <1>2, <2>4 DEF TypeOK, ProducerState, PushFull, PushBehind, Goto
  <2> QED BY <2>1, <2>2, <2>3, <2>4 DEF PushCheck
<1>4. TypeOK'
  BY <1>1, <1>2, <1>3, ThreadAssumption DEF TypeOK, Threads
<1>5. QueueBounded' /\ SlotState'
  BY <1>1 DEF ProtocolInv, QueueBounded, SlotState, Window
<1>6. ProducerState'
  BY <1>1, <1>2, <1>3 DEF ProducerState, TypeOK, Threads
<1>7. ConsumerState'
  BY <1>1, <1>2, <1>3, ThreadAssumption DEF ProtocolInv, ConsumerState, TypeOK, Threads
<1> QED BY <1>4, <1>5, <1>6, <1>7 DEF ProtocolInv

\* The compare-exchange of push claims a slot that the last pop of the previous
\* lap has given back.
LEMMA PushClaimProtocol ==
  ASSUME Capacity >= 2, ProtocolInv, NEW p \in Producers, PushClaim(p)
  PROVE  /\ ProtocolInv'
         /\ enqueue_pos - dequeue_pos < Capacity
         /\ sequence[Slot(enqueue_pos)] = enqueue_pos
<1> DEFINE e == enqueue_pos
           d == dequeue_pos
<1>0. /\ Capacity \in Nat
      /\ \A n \in Int : Slot(n) \in Slots /\ Slot(n - Capacity) = Slot(n)
  BY SlotFacts
<1>1. /\ TypeOK /\ e \in Nat /\ d \in Nat /\ d <= e /\ e - d <= Capacity
      /\ p \in Threads /\ pos[p] = e /\ sequence[Slot(e)] >= e
      /\ sequence[Slot(e)] \in Nat
  BY <1>0 DEF ProtocolInv, TypeOK, QueueBounded, ProducerState, PushClaim, Threads
<1>2. /\ UNCHANGED <<sequence, value, dequeue_pos, pos, item>>
      /\ enqueue_pos' = e + 1 /\ pc' = [pc EXCEPT ![p] = "write"] /\ pc[p] = "cas"
  BY DEF PushClaim, Goto
<1>3. e - d # Capacity
  <2> SUFFICES ASSUME e - d = Capacity PROVE FALSE
    OBVIOUS
  <2>1. d \in Window /\ Slot(d) = Slot(e)
    BY <1>0, <1>1 DEF Window
  <2>2. sequence[Slot(d)] \in {d, d + 1}
    BY <1>1, <2>1 DEF ProtocolInv, SlotState
  <2> QED BY <1>0, <1>1, <2>1, <2>2
<1>4. sequence[Slot(e)] = e
  <2>1. e - Capacity \in Window /\ Slot(e - Capacity) = Slot(e) /\ ~(d <= e - Capacity)
    BY <1>0, <1>1, <1>3 DEF Window
  <2> QED BY <1>0, <1>1, <2>1 DEF ProtocolInv, SlotState
<1>5. \A c \in Consumers :
        pc[c] \in {"take", "release"} => pos[c] # e - Capacity
  BY <1>0, <1>1, <1>4 DEF ProtocolInv, ConsumerState
<1>6. TypeOK'
  BY <1>1, <1>2, ThreadAssumption DEF TypeOK, Threads
<1>7. QueueBounded'
  BY <1>0, <1>1, <1>2, <1>3 DEF QueueBounded
<1>8. SlotState'
  <2> SUFFICES ASSUME NEW m \in (e + 1 - Capacity)..e
               PROVE  IF d <= m
                      THEN \/ sequence[Slot(m)] = m
                           \/ sequence[Slot(m)] = m + 1 /\ value[Slot(m)] \in Items
                      ELSE \/ sequence[Slot(m)] = m + 1
                           \/ sequence[Slot(m)] = m + Capacity /\ value[Slot(m)] = None
    BY <1>0, <1>1, <1>2 DEF SlotState, Window
  <2>1. CASE m = e
    BY <1>1, <1>4, <2>1
  <2>2. CASE m # e
    BY <1>0, <1>1, <2>2 DEF ProtocolInv, SlotState, Window
  <2> QED BY <2>1, <2>2
<1>9. ProducerState'
  BY <1>0, <1>1, <1>2, <1>4 DEF ProtocolInv, ProducerState, TypeOK, Threads
<1>10. ConsumerState'
  <2>1. \A c \in Consumers : pc'[c] = pc[c] /\ pos[c] \in Nat
    BY <1>1, <1>2, ThreadAssumption DEF TypeOK, Threads
  <2>2. \A c \in Consumers :
          pc[c] \in {"take", "release"} => (e + 1) - Capacity <= pos[c]
    BY <1>0, <1>1, <1>5, <2>1 DEF ProtocolInv, ConsumerState
  <2> QED BY <1>1, <1>2, <2>1, <2>2 DEF ProtocolInv, ConsumerState
<1>11. e - d < Capacity
  BY <1>0, <1>1, <1>3
<1> QED BY <1>4, <1>6, <1>7, <1>8, <1>9, <1>10, <1>11 DEF ProtocolInv

\* The write into the claimed slot touches no slot another thread holds.
LEMMA PushWriteProtocol ==
  ASSUME Capacity >= 2, ProtocolInv, NEW p \in Producers, PushWrite(p)
  PROVE  ProtocolInv'
<1> DEFINE n == pos[p]
<1>1. /\ UNCHANGED <<sequence, enqueue_pos, dequeue_pos, pos, item>>
      /\ value' = [value EXCEPT ![Slot(n)] = item[p]]
      /\ pc[p] = "write" /\ pc' = [pc EXCEPT ![p] = "publish"]
  BY DEF PushWrite, Goto
<1>2. /\ TypeOK /\ Window' = Window /\ n \in Window /\ Slot(n) \in Slots
      /\ dequeue_pos <= n /\ n < enqueue_pos
      /\ sequence[Slot(n)] = n /\ item[p] \in Items
      /\ p \in Threads
  <2>1. n \in Nat /\ p \in Threads
    BY DEF ProtocolInv, TypeOK, Threads
  <2> QED BY <1>1, <2>1, SlotFacts, HeldInWindow DEF ProtocolInv, ProducerState, Window
<1>3. \A m \in Window : m # n => value'[Slot(m)] = value[Slot(m)]
  BY <1>1, <1>2, SlotFacts, WindowApart DEF TypeOK, Window
<1>4. value'[Slot(n)] = item[p]
  BY <1>1, <1>2 DEF TypeOK
<1>5. TypeOK' /\ QueueBounded'
  BY <1>1, <1>2, ThreadAssumption DEF ProtocolInv, QueueBounded, TypeOK, Threads
<1>6. SlotState'
  BY <1>1, <1>2, <1>3 DEF ProtocolInv, SlotState
<1>7. ProducerState'
  <2>1. \A q \in Producers : q # p => pc'[q] = pc[q]
    BY <1>1, <1>2 DEF TypeOK, Threads
  <2>2. \A q \in Producers :
          q # p /\ pc[q] \in {"write", "publish"} => pos[q] \in Window /\ pos[q] # n
    BY <1>1, HeldInWindow DEF ProtocolInv, ProducerState
  <2>3. pc'[p] = "publish"
    BY <1>1, <1>2 DEF TypeOK
  <2> QED BY <1>1, <1>2, <1>3, <1>4, <2>1, <2>2, <2>3 DEF ProtocolInv, ProducerState
<1>8. ConsumerState'
  <2>1. \A c \in Consumers : pc'[c] = pc[c]
    BY <1>1, <1>2, ThreadAssumption DEF TypeOK, Threads
  <2>2. \A c \in Consumers :
          pc[c] \in {"take", "release"} => pos[c] \in Window /\ pos[c] # n
    BY <1>2, HeldInWindow DEF ProtocolInv, ConsumerState, TypeOK, Window
  <2> QED BY <1>1, <1>3, <2>1, <2>2 DEF ProtocolInv, ConsumerState
<1> QED BY <1>5, <1>6, <1>7, <1>8 DEF ProtocolInv

\* The Release store of push hands a filled slot to the consumers.
LEMMA PushPublishProtocol ==
  ASSUME Capacity >= 2, ProtocolInv, NEW p \in Producers, PushPublish(p)
  PROVE  ProtocolInv'
<1> DEFINE n == pos[p]
<1>1. /\ UNCHANGED <<value, enqueue_pos, dequeue_pos>>
      /\ sequence' = [sequence EXCEPT ![Slot(n)] = n + 1]
      /\ pos' = [pos EXCEPT ![p] = n + 1] /\ item' = [item EXCEPT ![p] = None]
      /\ pc[p] = "publish" /\ pc' = [pc EXCEPT ![p] = "idle"]
  BY DEF PushPublish, Goto
<1>2. /\ TypeOK /\ Window' = Window /\ n \in Window /\ Slot(n) \in Slots
      /\ n \in Nat /\ dequeue_pos <= n /\ n < enqueue_pos
      /\ sequence[Slot(n)] = n /\ item[p] \in Items /\ value[Slot(n)] = item[p]
      /\ p \in Threads
  <2>1. n \in Nat /\ p \in Threads
    BY DEF ProtocolInv, TypeOK, Threads
  <2> QED BY <1>1, <2>1, SlotFacts, HeldInWindow DEF ProtocolInv, ProducerState, Window
<1>3. \A m \in Window : m # n => sequence'[Slot(m)] = sequence[Slot(m)]
  BY <1>1, <1>2, SlotFacts, WindowApart DEF TypeOK, Window
<1>4. sequence'[Slot(n)] = n + 1
  BY <1>1, <1>2 DEF TypeOK
<1>5. /\ \A i \in Slots : sequence[i] \in Nat /\ sequence'[i] \in Nat
      /\ \A i \in Slots : sequence'[i] >= sequence[i]
  BY <1>1, <1>2 DEF TypeOK
<1>6. TypeOK' /\ QueueBounded'
  BY <1>1, <1>2, ThreadAssumption DEF ProtocolInv, QueueBounded, TypeOK, Threads
<1>7. SlotState'
  BY <1>1, <1>2, <1>3, <1>4 DEF ProtocolInv, SlotState
<1>8. ProducerState'
  <2>1. \A q \in Producers : q # p => pc'[q] = pc[q] /\ pos'[q] = pos[q] /\ item'[q] = item[q]
    BY <1>1, <1>2 DEF TypeOK, Threads
  <2>2. \A q \in Producers :
          q # p /\ pc[q] \in {"write", "publish"} => pos[q] \in Window /\ pos[q] # n
    BY <1>1, HeldInWindow DEF ProtocolInv, ProducerState
  <2>3. pc'[p] = "idle"
    BY <1>1, <1>2 DEF TypeOK
  <2>4. \A q \in Producers : pos[q] \in Nat /\ Slot(pos[q]) \in Slots
    BY <1>2, SlotFacts DEF TypeOK, Threads
  <2>5. \A q \in Producers : q # p /\ pc[q] = "cas" => sequence'[Slot(pos[q])] >= pos[q]
    BY <1>5, <2>4 DEF ProtocolInv, ProducerState
  <2> QED BY <1>1, <1>2, <1>3, <2>1, <2>2, <2>3, <2>5 DEF ProtocolInv, ProducerState
<1>9. ConsumerState'
  <2>1. \A c \in Consumers : pc'[c] = pc[c] /\ pos'[c] = pos[c]
    BY <1>1, <1>2, ThreadAssumption DEF TypeOK, Threads
  <2>2. \A c \in Consumers :
          pc[c] \in {"take", "release"} => pos[c] \in Window /\ pos[c] # n
    BY <1>2, HeldInWindow DEF ProtocolInv, ConsumerState, TypeOK, Window
  <2>3. \A c \in Consumers : pos[c] \in Nat /\ Slot(pos[c]) \in Slots
    BY <1>2, SlotFacts DEF TypeOK, Threads
  <2>4. \A c \in Consumers : pc[c] = "cas" => sequence'[Slot(pos[c])] >= pos[c] + 1
    BY <1>5, <2>3 DEF ProtocolInv, ConsumerState
  <2> QED BY <1>1, <1>3, <2>1, <2>2, <2>4 DEF ProtocolInv, ConsumerState
<1> QED BY <1>6, <1>7, <1>8, <1>9 DEF ProtocolInv

\* A pop step that only loads, compares or returns None keeps the invariant.
LEMMA PopQuietProtocol ==
  ASSUME Capacity >= 2, ProtocolInv, NEW c \in Consumers,
         \/ Pop(c)
         \/ PopLoad(c) \/ PopCheck(c) \/ PopLose(c)
  PROVE  ProtocolInv'
<1>1. UNCHANGED <<sequence, value, enqueue_pos, dequeue_pos>>
  BY DEF Pop, PopLoad, PopCheck, PopBranch, PopReady, PopEmpty, PopBehind, PopLose
<1> DEFINE Quiet ==
      /\ pc' \in [Threads -> {"idle", "load", "slot", "cas",
                              "write", "publish", "take", "release"}]
      /\ pos' \in [Threads -> Nat]
      /\ item' \in [Threads -> Items \cup {None}]
      /\ \A t \in Threads \ {c} :
           pc'[t] = pc[t] /\ pos'[t] = pos[t] /\ item'[t] = item[t]
      /\ pc[c] \notin {"take", "release"}
      /\ pc'[c] \in {"idle", "load", "slot", "cas"}
      /\ pos'[c] <= dequeue_pos
      /\ pc'[c] = "cas" => sequence[Slot(pos'[c])] >= pos'[c] + 1
<1>2. TypeOK /\ ConsumerState /\ c \in Threads
  BY DEF ProtocolInv, Threads
<1>3. Quiet
  <2>1. CASE Pop(c)
    BY <1>2, <2>1 DEF TypeOK, Pop, Goto
  <2>2. CASE PopLoad(c) \/ PopLose(c)
    BY <1>2, <2>2 DEF TypeOK, ConsumerState, PopLoad, PopLose, RelaxedLoad, Goto
  <2>3. ASSUME NEW seq \in AcquireLoad(Slot(pos[c])), PopReady(c, seq) PROVE Quiet
    <3>1. /\ pos[c] \in Int /\ sequence[Slot(pos[c])] \in Int
          /\ seq \in Int /\ seq <= sequence[Slot(pos[c])]
      BY <1>2, SlotFacts DEF TypeOK, AcquireLoad, Slots
    <3> QED BY <1>2, <2>3, <3>1 DEF TypeOK, ConsumerState, PopReady, PopDiff, Goto
  <2>4. ASSUME NEW seq, PopEmpty(c, seq) \/ PopBehind(c, seq) PROVE Quiet
    BY <1>2, <2>4 DEF TypeOK, ConsumerState, PopEmpty, PopBehind, Goto
  <2> QED BY <2>1, <2>2, <2>3, <2>4 DEF PopCheck, PopBranch
<1>4. TypeOK'
  BY <1>1, <1>2, <1>3, ThreadAssumption DEF TypeOK, Threads
<1>5. QueueBounded' /\ SlotState'
  BY <1>1 DEF ProtocolInv, QueueBounded, SlotState, Window
<1>6. ProducerState'
  BY <1>1, <1>2, <1>3, ThreadAssumption DEF ProtocolInv, ProducerState, TypeOK, Threads
<1>7. ConsumerState'
  BY <1>1, <1>2, <1>3 DEF ConsumerState, TypeOK, Threads
<1> QED BY <1>4, <1>5, <1>6, <1>7 DEF ProtocolInv

\* The compare-exchange of pop claims a position whose push has published its
\* item, so no producer is inside the slot.
LEMMA PopClaimProtocol ==
  ASSUME Capacity >= 2, ProtocolInv, NEW c \in Consumers, PopClaim(c)
  PROVE  /\ ProtocolInv'
         /\ dequeue_pos < enqueue_pos
         /\ sequence[Slot(dequeue_pos)] = dequeue_pos + 1
         /\ value[Slot(dequeue_pos)] \in Items
         /\ \A p \in Producers : pc[p] \in {"write", "publish"} => pos[p] # dequeue_pos
<1> DEFINE e == enqueue_pos
           d == dequeue_pos
<1>0. /\ Capacity \in Nat
      /\ \A n \in Int : Slot(n) \in Slots /\ Slot(n - Capacity) = Slot(n)
  BY SlotFacts
<1>1. /\ TypeOK /\ e \in Nat /\ d \in Nat /\ d <= e /\ e - d <= Capacity
      /\ c \in Threads /\ pos[c] = d /\ sequence[Slot(d)] >= d + 1
      /\ sequence[Slot(d)] \in Nat
  BY <1>0 DEF ProtocolInv, TypeOK, QueueBounded, ConsumerState, PopClaim, Threads
<1>2. /\ UNCHANGED <<sequence, value, enqueue_pos, pos, item>>
      /\ dequeue_pos' = d + 1 /\ pc' = [pc EXCEPT ![c] = "take"] /\ pc[c] = "cas"
  BY DEF PopClaim, Goto
<1>3. d # e
  <2> SUFFICES ASSUME d = e PROVE FALSE
    OBVIOUS
  <2>1. e - Capacity \in Window /\ Slot(e - Capacity) = Slot(d) /\ ~(d <= e - Capacity)
    BY <1>0, <1>1 DEF Window
  <2>2. sequence[Slot(d)] \in {(e - Capacity) + 1, (e - Capacity) + Capacity}
    BY <2>1 DEF ProtocolInv, SlotState
  <2> QED BY <1>0, <1>1, <2>2
<1>4. d \in Window /\ sequence[Slot(d)] = d + 1 /\ value[Slot(d)] \in Items
  <2>1. d \in Window
    BY <1>0, <1>1, <1>3 DEF Window
  <2> QED BY <1>1, <2>1 DEF ProtocolInv, SlotState
<1>5. \A p \in Producers : pc[p] \in {"write", "publish"} => pos[p] # d
  BY <1>1, <1>4 DEF ProtocolInv, ProducerState
<1>6. TypeOK'
  BY <1>1, <1>2, ThreadAssumption DEF TypeOK, Threads
<1>7. QueueBounded'
  BY <1>0, <1>1, <1>2, <1>3 DEF QueueBounded
<1>8. SlotState'
  <2>1. Window' = Window /\ \A m \in Window : m \in Int /\ (m = d \/ (d + 1 <= m <=> d <= m))
    BY <1>0, <1>1, <1>2 DEF Window
  <2> QED BY <1>1, <1>2, <1>4, <2>1 DEF ProtocolInv, SlotState
<1>9. ProducerState'
  <2>1. \A p \in Producers : pc'[p] = pc[p] /\ pos[p] \in Nat
    BY <1>1, <1>2, ThreadAssumption DEF TypeOK, Threads
  <2>2. \A p \in Producers : pc[p] \in {"write", "publish"} => d + 1 <= pos[p]
    BY <1>1, <1>5, <2>1 DEF ProtocolInv, ProducerState
  <2> QED BY <1>2, <2>1, <2>2 DEF ProtocolInv, ProducerState
<1>10. ConsumerState'
  <2>1. /\ \A b \in Consumers : pos[b] \in Nat /\ (b # c => pc'[b] = pc[b])
        /\ pc'[c] = "take"
    BY <1>1, <1>2 DEF TypeOK, Threads
  <2> QED BY <1>0, <1>1, <1>2, <1>4, <2>1 DEF ProtocolInv, ConsumerState
<1> QED BY <1>1, <1>3, <1>4, <1>5, <1>6, <1>7, <1>8, <1>9, <1>10 DEF ProtocolInv

\* The take empties the claimed slot and touches no slot another thread holds.
LEMMA PopTakeProtocol ==
  ASSUME Capacity >= 2, ProtocolInv, NEW c \in Consumers, PopTake(c)
  PROVE  ProtocolInv'
<1> DEFINE n == pos[c]
<1>1. /\ UNCHANGED <<sequence, enqueue_pos, dequeue_pos, pos>>
      /\ value' = [value EXCEPT ![Slot(n)] = None]
      /\ item' = [item EXCEPT ![c] = value[Slot(n)]]
      /\ pc[c] = "take" /\ pc' = [pc EXCEPT ![c] = "release"]
  BY DEF PopTake, Goto
<1>2. /\ TypeOK /\ Window' = Window /\ n \in Window /\ Slot(n) \in Slots
      /\ n \in Nat /\ n < dequeue_pos
      /\ sequence[Slot(n)] = n + 1 /\ value[Slot(n)] \in Items
      /\ c \in Threads
  <2>1. n \in Nat /\ c \in Threads
    BY DEF ProtocolInv, TypeOK, Threads
  <2> QED BY <1>1, <2>1, SlotFacts, HeldInWindow DEF ProtocolInv, ConsumerState, Window
<1>3. \A m \in Window : m # n => value'[Slot(m)] = value[Slot(m)]
  BY <1>1, <1>2, SlotFacts, WindowApart DEF TypeOK, Window
<1>4. value'[Slot(n)] = None
  BY <1>1, <1>2 DEF TypeOK
<1>5. TypeOK' /\ QueueBounded'
  BY <1>1, <1>2, ThreadAssumption DEF ProtocolInv, QueueBounded, TypeOK, Threads
<1>6. SlotState'
  <2>1. ~(dequeue_pos <= n)
    BY <1>2 DEF TypeOK
  <2> QED BY <1>1, <1>2, <1>3, <2>1 DEF ProtocolInv, SlotState
<1>7. ProducerState'
  <2>1. \A p \in Producers : pc'[p] = pc[p] /\ item'[p] = item[p]
    BY <1>1, <1>2, ThreadAssumption DEF TypeOK, Threads
  <2>2. \A p \in Producers :
          pc[p] \in {"write", "publish"} => pos[p] \in Window /\ pos[p] # n
    BY <1>2, HeldInWindow DEF ProtocolInv, ProducerState, TypeOK, Window
  <2> QED BY <1>1, <1>3, <2>1, <2>2 DEF ProtocolInv, ProducerState
<1>8. ConsumerState'
  <2>1. \A b \in Consumers : b # c => pc'[b] = pc[b]
    BY <1>1, <1>2 DEF TypeOK, Threads
  <2>2. \A b \in Consumers :
          b # c /\ pc[b] \in {"take", "release"} => pos[b] \in Window /\ pos[b] # n
    BY <1>1, HeldInWindow DEF ProtocolInv, ConsumerState
  <2>3. pc'[c] = "release"
    BY <1>1, <1>2 DEF TypeOK
  <2> QED BY <1>1, <1>2, <1>3, <1>4, <2>1, <2>2, <2>3 DEF ProtocolInv, ConsumerState
<1> QED BY <1>5, <1>6, <1>7, <1>8 DEF ProtocolInv

\* The Release store of pop hands an empty slot to the producers of the next lap.
LEMMA PopReleaseProtocol ==
  ASSUME Capacity >= 2, ProtocolInv, NEW c \in Consumers, PopRelease(c)
  PROVE  ProtocolInv'
<1> DEFINE n == pos[c]
<1>0. Capacity \in Nat /\ \A m \in Int : Slot(m) \in Slots
  BY SlotFacts
<1>1. /\ UNCHANGED <<value, enqueue_pos, dequeue_pos, item>>
      /\ sequence' = [sequence EXCEPT ![Slot(n)] = n + Capacity]
      /\ pos' = [pos EXCEPT ![c] = n + 1]
      /\ pc[c] = "release" /\ pc' = [pc EXCEPT ![c] = "idle"]
  BY DEF PopRelease, Goto
<1>2. /\ TypeOK /\ Window' = Window /\ n \in Window /\ Slot(n) \in Slots
      /\ n \in Nat /\ n < dequeue_pos
      /\ sequence[Slot(n)] = n + 1 /\ value[Slot(n)] = None
      /\ c \in Threads
  <2>1. n \in Nat /\ c \in Threads
    BY DEF ProtocolInv, TypeOK, Threads
  <2> QED BY <1>1, <2>1, SlotFacts, HeldInWindow DEF ProtocolInv, ConsumerState, Window
<1>3. \A m \in Window : m # n => sequence'[Slot(m)] = sequence[Slot(m)]
  BY <1>1, <1>2, SlotFacts, WindowApart DEF TypeOK, Window
<1>4. sequence'[Slot(n)] = n + Capacity
  BY <1>1, <1>2 DEF TypeOK
<1>5. /\ \A i \in Slots : sequence[i] \in Nat /\ sequence'[i] \in Nat
      /\ \A i \in Slots : sequence'[i] >= sequence[i]
  BY <1>0, <1>1, <1>2 DEF TypeOK
<1>6. TypeOK' /\ QueueBounded'
  BY <1>0, <1>1, <1>2, ThreadAssumption DEF ProtocolInv, QueueBounded, TypeOK, Threads
<1>7. SlotState'
  <2>1. ~(dequeue_pos <= n)
    BY <1>2 DEF TypeOK
  <2> QED BY <1>1, <1>2, <1>3, <1>4, <2>1 DEF ProtocolInv, SlotState
<1>8. ProducerState'
  <2>1. \A p \in Producers : pc'[p] = pc[p] /\ pos'[p] = pos[p]
    BY <1>1, <1>2, ThreadAssumption DEF TypeOK, Threads
  <2>2. \A p \in Producers :
          pc[p] \in {"write", "publish"} => pos[p] \in Window /\ pos[p] # n
    BY <1>2, HeldInWindow DEF ProtocolInv, ProducerState, TypeOK, Window
  <2>3. \A p \in Producers : pos[p] \in Nat /\ Slot(pos[p]) \in Slots
    BY <1>0, <1>2 DEF TypeOK, Threads
  <2>4. \A p \in Producers : pc[p] = "cas" => sequence'[Slot(pos[p])] >= pos[p]
    BY <1>5, <2>3 DEF ProtocolInv, ProducerState
  <2> QED BY <1>1, <1>3, <2>1, <2>2, <2>4 DEF ProtocolInv, ProducerState
<1>9. ConsumerState'
  <2>1. \A b \in Consumers : b # c => pc'[b] = pc[b] /\ pos'[b] = pos[b]
    BY <1>1, <1>2 DEF TypeOK, Threads
  <2>2. \A b \in Consumers :
          b # c /\ pc[b] \in {"take", "release"} => pos[b] \in Window /\ pos[b] # n
    BY <1>1, HeldInWindow DEF ProtocolInv, ConsumerState
  <2>3. pc'[c] = "idle"
    BY <1>1, <1>2 DEF TypeOK
  <2>4. \A b \in Consumers : pos[b] \in Nat /\ Slot(pos[b]) \in Slots
    BY <1>0, <1>2 DEF TypeOK, Threads
  <2>5. \A b \in Consumers : b # c /\ pc[b] = "cas" => sequence'[Slot(pos[b])] >= pos[b] + 1
    BY <1>5, <2>4 DEF ProtocolInv, ConsumerState
  <2> QED BY <1>1, <1>3, <2>1, <2>2, <2>3, <2>5 DEF ProtocolInv, ConsumerState
<1> QED BY <1>6, <1>7, <1>8, <1>9 DEF ProtocolInv

-----------------------------------------------------------------------------
(* Who is inside a slot whose number has not moved on. *)

\* A producer inside a slot has a position of the window, and that slot is no
\* other position's.
LEMMA ProducerHolds ==
  ASSUME Capacity >= 2, ProtocolInv, NEW p \in Producers, pc[p] \in {"write", "publish"}
  PROVE  /\ pos[p] \in Window /\ pos[p] \in Nat /\ Slot(pos[p]) \in Slots
         /\ dequeue_pos <= pos[p] /\ pos[p] < enqueue_pos
         /\ sequence[Slot(pos[p])] = pos[p]
         /\ \A m \in Window : m # pos[p] => Slot(m) # Slot(pos[p])
<1>1. pos[p] \in Nat /\ pos[p] \in Window
  BY HeldInWindow DEF ProtocolInv, TypeOK, Threads
<1>2. \A m \in Window : m # pos[p] => Slot(m) # Slot(pos[p])
  BY <1>1, WindowApart DEF ProtocolInv
<1> QED BY <1>1, <1>2, SlotFacts DEF ProtocolInv, ProducerState

\* The same of a consumer inside a slot.
LEMMA ConsumerHolds ==
  ASSUME Capacity >= 2, ProtocolInv, NEW c \in Consumers, pc[c] \in {"take", "release"}
  PROVE  /\ pos[c] \in Window /\ pos[c] \in Nat /\ Slot(pos[c]) \in Slots
         /\ pos[c] < dequeue_pos
         /\ sequence[Slot(pos[c])] = pos[c] + 1
         /\ \A m \in Window : m # pos[c] => Slot(m) # Slot(pos[c])
<1>1. pos[c] \in Nat /\ pos[c] \in Window
  BY HeldInWindow DEF ProtocolInv, TypeOK, Threads
<1>2. \A m \in Window : m # pos[c] => Slot(m) # Slot(pos[c])
  BY <1>1, WindowApart DEF ProtocolInv
<1> QED BY <1>1, <1>2, SlotFacts DEF ProtocolInv, ConsumerState

\* No slot is held in a new queue.
LEMMA InitHolder ==
  ASSUME Capacity >= 2, Init
  PROVE  HolderState
BY SlotFacts DEF Init, HolderState, Window

\* A step that neither claims nor publishes a position for push leaves every
\* producer that is inside a slot inside it.
LEMMA QuietHolder ==
  ASSUME HolderState, UNCHANGED <<sequence, enqueue_pos>>,
         dequeue_pos \in Nat, dequeue_pos' \in Nat, dequeue_pos <= dequeue_pos',
         enqueue_pos \in Nat, Capacity \in Nat,
         \A p \in Producers : pc[p] \in {"write", "publish"} =>
           pc'[p] \in {"write", "publish"} /\ pos'[p] = pos[p]
  PROVE  HolderState'
<1>1. Window' = Window /\ \A m \in Window : m \in Int
  BY DEF Window
<1> SUFFICES ASSUME NEW m \in Window, dequeue_pos' <= m, sequence[Slot(m)] = m
             PROVE  \E p \in Producers : pc'[p] \in {"write", "publish"} /\ pos'[p] = m
  BY <1>1 DEF HolderState
<1>2. PICK p \in Producers : pc[p] \in {"write", "publish"} /\ pos[p] = m
  BY <1>1 DEF HolderState
<1> QED BY <1>2

\* The compare-exchange of push puts the producer inside the slot it claims.
LEMMA PushClaimHolder ==
  ASSUME Capacity >= 2, ProtocolInv, HolderState, NEW p \in Producers, PushClaim(p)
  PROVE  HolderState'
<1> DEFINE e == enqueue_pos
<1>1. /\ UNCHANGED <<sequence, dequeue_pos, pos>>
      /\ enqueue_pos' = e + 1 /\ pc[p] = "cas" /\ pos[p] = e
      /\ pc' = [pc EXCEPT ![p] = "write"]
  BY DEF PushClaim, Goto
<1>2. /\ e \in Nat /\ Capacity \in Nat /\ p \in Threads /\ Producers \subseteq Threads
      /\ pc \in [Threads -> {"idle", "load", "slot", "cas",
                             "write", "publish", "take", "release"}]
  BY <1>1, SlotFacts DEF ProtocolInv, TypeOK, Threads
<1>3. pc'[p] = "write" /\ \A q \in Producers : q # p => pc'[q] = pc[q]
  BY <1>1, <1>2
<1> SUFFICES ASSUME NEW m \in Window', dequeue_pos <= m, sequence[Slot(m)] = m
             PROVE  \E q \in Producers : pc'[q] \in {"write", "publish"} /\ pos[q] = m
  BY <1>1 DEF HolderState
<1>4. CASE m = e
  BY <1>1, <1>3, <1>4
<1>5. CASE m # e
  <2>1. m \in Window
    BY <1>1, <1>2, <1>5 DEF Window
  <2>2. PICK q \in Producers : pc[q] \in {"write", "publish"} /\ pos[q] = m
    BY <2>1 DEF HolderState
  <2> QED BY <1>1, <1>3, <2>2
<1> QED BY <1>4, <1>5

\* The Release store of push moves the number on as the producer leaves.
LEMMA PushPublishHolder ==
  ASSUME Capacity >= 2, ProtocolInv, HolderState, NEW p \in Producers, PushPublish(p)
  PROVE  HolderState'
<1> DEFINE n == pos[p]
<1>1. /\ UNCHANGED <<enqueue_pos, dequeue_pos>> /\ Window' = Window
      /\ sequence' = [sequence EXCEPT ![Slot(n)] = n + 1]
      /\ pos' = [pos EXCEPT ![p] = n + 1]
      /\ pc[p] = "publish" /\ pc' = [pc EXCEPT ![p] = "idle"]
  BY DEF PushPublish, Goto, Window
<1>2. /\ TypeOK /\ n \in Nat /\ Slot(n) \in Slots
      /\ \A m \in Window : m # n => Slot(m) # Slot(n)
      /\ p \in Threads
  BY <1>1, ProducerHolds DEF ProtocolInv, Threads
<1>3. /\ sequence'[Slot(n)] = n + 1
      /\ \A m \in Window : m # n => sequence'[Slot(m)] = sequence[Slot(m)]
  BY <1>1, <1>2, SlotFacts DEF TypeOK, Window
<1>4. \A q \in Producers : q # p => pc'[q] = pc[q] /\ pos'[q] = pos[q]
  BY <1>1, <1>2 DEF TypeOK, Threads
<1> SUFFICES ASSUME NEW m \in Window, dequeue_pos <= m, sequence'[Slot(m)] = m
             PROVE  \E q \in Producers : pc'[q] \in {"write", "publish"} /\ pos'[q] = m
  BY <1>1 DEF HolderState
<1>5. m # n
  BY <1>2, <1>3
<1>6. PICK q \in Producers : pc[q] \in {"write", "publish"} /\ pos[q] = m
  BY <1>3, <1>5 DEF HolderState
<1> QED BY <1>4, <1>5, <1>6

\* The compare-exchange of pop only takes a position out of what HolderState
\* speaks of.
LEMMA PopClaimHolder ==
  ASSUME Capacity >= 2, ProtocolInv, HolderState, NEW c \in Consumers, PopClaim(c)
  PROVE  HolderState'
<1>1. /\ UNCHANGED <<sequence, enqueue_pos, pos>>
      /\ dequeue_pos' = dequeue_pos + 1 /\ pc' = [pc EXCEPT ![c] = "take"]
  BY DEF PopClaim, Goto
<1>2. /\ dequeue_pos \in Nat /\ enqueue_pos \in Nat /\ Capacity \in Nat
      /\ \A p \in Producers : pc'[p] = pc[p]
  BY <1>1, SlotFacts, ThreadAssumption DEF ProtocolInv, TypeOK, Threads
<1> QED BY <1>1, <1>2, QuietHolder

\* The Release store of pop moves the number of a position behind dequeue_pos.
LEMMA PopReleaseHolder ==
  ASSUME Capacity >= 2, ProtocolInv, HolderState, NEW c \in Consumers, PopRelease(c)
  PROVE  HolderState'
<1> DEFINE n == pos[c]
<1>1. /\ UNCHANGED <<enqueue_pos, dequeue_pos>> /\ Window' = Window
      /\ sequence' = [sequence EXCEPT ![Slot(n)] = n + Capacity]
      /\ pos' = [pos EXCEPT ![c] = n + 1]
      /\ pc[c] = "release" /\ pc' = [pc EXCEPT ![c] = "idle"]
  BY DEF PopRelease, Goto, Window
<1>2. /\ TypeOK /\ n \in Window /\ n \in Nat /\ n < dequeue_pos /\ dequeue_pos \in Nat
      /\ c \in Threads
  BY <1>1, HeldInWindow DEF ProtocolInv, ConsumerState, TypeOK, Threads
<1>3. \A p \in Producers : pc'[p] = pc[p] /\ pos'[p] = pos[p]
  BY <1>1, <1>2, ThreadAssumption DEF TypeOK, Threads
<1> SUFFICES ASSUME NEW m \in Window, dequeue_pos <= m, sequence'[Slot(m)] = m
             PROVE  \E p \in Producers : pc'[p] \in {"write", "publish"} /\ pos'[p] = m
  BY <1>1 DEF HolderState
<1>4. Slot(m) # Slot(n) /\ Slot(m) \in Slots
  BY <1>2, WindowApart, SlotFacts DEF Window, TypeOK
<1>5. sequence[Slot(m)] = m
  BY <1>1, <1>2, <1>4 DEF TypeOK
<1>6. PICK p \in Producers : pc[p] \in {"write", "publish"} /\ pos[p] = m
  BY <1>5 DEF HolderState
<1> QED BY <1>3, <1>6

\* Every step of Next, and every stuttering step, keeps the holders.
LEMMA NextHolder ==
  ASSUME Capacity >= 2, ProtocolInv, HolderState, [Next]_vars
  PROVE  HolderState'
<1>0. /\ pc \in [Threads -> {"idle", "load", "slot", "cas",
                             "write", "publish", "take", "release"}]
      /\ pos \in [Threads -> Nat]
      /\ dequeue_pos \in Nat /\ enqueue_pos \in Nat /\ Capacity \in Nat
      /\ Producers \subseteq Threads /\ Consumers \subseteq Threads
  BY SlotFacts DEF ProtocolInv, TypeOK, Threads
<1>1. CASE UNCHANGED vars
  BY <1>0, <1>1, QuietHolder DEF vars
<1>2. ASSUME NEW p \in Producers, NEW v \in Items, Push(p, v)
      PROVE  HolderState'
  BY <1>0, <1>2, ThreadAssumption, QuietHolder DEF Push, Goto, Threads
<1>3. ASSUME NEW p \in Producers, PushLoad(p) \/ PushCheck(p) \/ PushLose(p)
      PROVE  HolderState'
  BY <1>0, <1>3, ThreadAssumption, QuietHolder
     DEF PushLoad, PushCheck, PushReady, PushFull, PushBehind, PushLose, RelaxedLoad, Goto, Threads
<1>4. ASSUME NEW p \in Producers, PushWrite(p)
      PROVE  HolderState'
  BY <1>0, <1>4, ThreadAssumption, QuietHolder DEF PushWrite, Goto, Threads
<1>5. ASSUME NEW c \in Consumers, Pop(c) \/ PopLoad(c) \/ PopCheck(c) \/ PopLose(c)
      PROVE  HolderState'
  BY <1>0, <1>5, ThreadAssumption, QuietHolder
     DEF Pop, PopLoad, PopCheck, PopBranch, PopReady, PopEmpty, PopBehind, PopLose,
         RelaxedLoad, Goto, Threads
<1>6. ASSUME NEW c \in Consumers, PopTake(c)
      PROVE  HolderState'
  BY <1>0, <1>6, ThreadAssumption, QuietHolder DEF PopTake, Goto, Threads
<1>7. ASSUME NEW p \in Producers, PushStep(p) PROVE HolderState'
  BY <1>3, <1>4, <1>7, PushClaimHolder, PushPublishHolder DEF PushStep
<1>8. ASSUME NEW c \in Consumers, Pop(c) \/ PopStep(c) PROVE HolderState'
  BY <1>5, <1>6, <1>8, PopClaimHolder, PopReleaseHolder DEF PopStep
<1> QED BY <1>1, <1>2, <1>7, <1>8 DEF Next

-----------------------------------------------------------------------------
(* Theorems *)

\* Every step of Next, and every stuttering step, keeps the protocol invariant.
LEMMA NextProtocol ==
  ASSUME Capacity >= 2, ProtocolInv, [Next]_vars
  PROVE  ProtocolInv'
<1>1. CASE UNCHANGED vars
  BY <1>1 DEF vars, ProtocolInv, TypeOK, QueueBounded, SlotState, Window,
              ProducerState, ConsumerState
<1>2. ASSUME NEW p \in Producers, (\E v \in Items : Push(p, v)) \/ PushStep(p)
      PROVE  ProtocolInv'
  BY <1>2, PushQuietProtocol, PushClaimProtocol, PushWriteProtocol, PushPublishProtocol
     DEF PushStep
<1>3. ASSUME NEW c \in Consumers, Pop(c) \/ PopStep(c)
      PROVE  ProtocolInv'
  BY <1>3, PopQuietProtocol, PopClaimProtocol, PopTakeProtocol, PopReleaseProtocol
     DEF PopStep
<1> QED BY <1>1, <1>2, <1>3 DEF Next

\* With at least two slots, the sequence numbers of queue.rs and the threads
\* inside push and pop agree in every reachable state.
THEOREM ProtocolInvariant == ASSUME Capacity >= 2 PROVE Spec => []ProtocolInv
<1>1. Init => ProtocolInv
  BY InitProtocol
<1>2. ProtocolInv /\ [Next]_vars => ProtocolInv'
  BY NextProtocol
<1> QED BY <1>1, <1>2, PTL DEF Spec

\* push and pop keep their state well typed, and no thread works with a position
\* its shared counter has not reached.
THEOREM TypeCorrect == ASSUME Capacity >= 2 PROVE Spec => []TypeOK
<1>1. ProtocolInv => TypeOK
  BY DEF ProtocolInv
<1> QED BY <1>1, ProtocolInvariant, PTL

\* The ring never holds more items than it has slots: push reports full rather
\* than overwrite an item pop has not claimed.
THEOREM Bounded == ASSUME Capacity >= 2 PROVE Spec => []QueueBounded
<1>1. ProtocolInv => QueueBounded
  BY DEF ProtocolInv
<1> QED BY <1>1, ProtocolInvariant, PTL

\* The Safety comment of the unsafe impl Sync: at most one thread is ever inside
\* a slot, so the unsynchronised accesses to Slot::value do not race.
THEOREM SlotExclusion == ASSUME Capacity >= 2 PROVE Spec => []ExclusiveAccess
<1>1. ProtocolInv => ExclusiveAccess
  <2> SUFFICES ASSUME ProtocolInv, NEW t \in Threads, NEW u \in Threads,
                      t # u, InSlot(t), InSlot(u)
               PROVE  Slot(pos[t]) # Slot(pos[u])
    BY DEF ExclusiveAccess
  <2>1. /\ t \in Producers => pc[t] \in {"write", "publish"}
        /\ u \in Producers => pc[u] \in {"write", "publish"}
        /\ t \in Consumers => pc[t] \in {"take", "release"}
        /\ u \in Consumers => pc[u] \in {"take", "release"}
    BY DEF ProtocolInv, TypeOK, InSlot, Threads
  <2>2. pos[t] \in Window /\ pos[u] \in Window
    BY <2>1, HeldInWindow DEF Threads
  <2>3. pos[t] \in Nat /\ pos[u] \in Nat /\ dequeue_pos \in Nat
    BY DEF ProtocolInv, TypeOK, Threads
  <2>4. pos[t] # pos[u]
    BY <2>1, <2>3 DEF ProtocolInv, ProducerState, ConsumerState, Threads
  <2> QED BY <2>2, <2>4, WindowApart DEF ProtocolInv
<1> QED BY <1>1, ProtocolInvariant, PTL

\* A slot whose number says that a push has claimed and not published it has that
\* producer inside, in every reachable state: no claimed position is abandoned.
THEOREM HolderInvariant == ASSUME Capacity >= 2 PROVE Spec => []HolderState
<1>1. Init => HolderState
  BY InitHolder
<1>2. ProtocolInv /\ HolderState /\ [Next]_vars => HolderState'
  BY NextHolder
<1> QED BY <1>1, <1>2, ProtocolInvariant, PTL DEF Spec

-----------------------------------------------------------------------------
(* The refinement mapping. *)

\* An item is in the hands of the producer that is writing it, and in its slot
\* before and after that.
ItemMapping ==
  \A n \in Int :
    /\ \A p \in Producers : pc[p] = "write" /\ pos[p] = n => QueuedItem(n) = item[p]
    /\ (\A p \in Producers : ~(pc[p] = "write" /\ pos[p] = n))
         => QueuedItem(n) = value[Slot(n)]

\* The mapping is well defined: a position has at most one writer.
LEMMA MappedItem == ProtocolInv => ItemMapping
<1> SUFFICES ASSUME ProtocolInv, NEW n \in Int
             PROVE  /\ \A p \in Producers :
                         pc[p] = "write" /\ pos[p] = n => QueuedItem(n) = item[p]
                    /\ (\A p \in Producers : ~(pc[p] = "write" /\ pos[p] = n))
                         => QueuedItem(n) = value[Slot(n)]
  BY DEF ItemMapping
<1>1. ASSUME NEW p \in Producers, pc[p] = "write", pos[p] = n
      PROVE  QueuedItem(n) = item[p]
  <2>1. Writing(n) = {p}
    BY <1>1 DEF Writing, ProtocolInv, ProducerState
  <2> QED BY <2>1 DEF QueuedItem
<1>2. ASSUME \A p \in Producers : ~(pc[p] = "write" /\ pos[p] = n)
      PROVE  QueuedItem(n) = value[Slot(n)]
  BY <1>2 DEF QueuedItem, Writing
<1> QED BY <1>1, <1>2

\* Every position between the counters has an item.
LEMMA QueuedAreItems ==
  ASSUME Capacity >= 2
  PROVE  ProtocolInv /\ HolderState =>
           \A n \in dequeue_pos..(enqueue_pos - 1) : QueuedItem(n) \in Items
<1> SUFFICES ASSUME ProtocolInv, HolderState, NEW n \in dequeue_pos..(enqueue_pos - 1)
             PROVE  QueuedItem(n) \in Items
  OBVIOUS
<1>1. CASE Writing(n) # {}
  <2>1. PICK p \in Producers : pc[p] = "write" /\ pos[p] = n
    BY <1>1 DEF Writing
  <2>2. QueuedItem(n) = item[p]
    BY <2>1, MappedItem DEF ItemMapping
  <2> QED BY <2>1, <2>2 DEF ProtocolInv, ProducerState
<1>2. CASE Writing(n) = {}
  <2>1. n \in Window /\ dequeue_pos <= n
    BY HeldInWindow DEF ProtocolInv, TypeOK
  <2>2. QueuedItem(n) = value[Slot(n)]
    BY <1>2 DEF QueuedItem
  <2>3. CASE sequence[Slot(n)] = n
    <3>1. PICK p \in Producers : pc[p] \in {"write", "publish"} /\ pos[p] = n
      BY <2>1, <2>3 DEF HolderState
    <3>2. pc[p] = "publish"
      BY <1>2, <3>1 DEF Writing
    <3> QED BY <2>2, <3>1, <3>2 DEF ProtocolInv, ProducerState
  <2>4. CASE sequence[Slot(n)] # n
    BY <2>1, <2>2, <2>4 DEF ProtocolInv, SlotState
  <2> QED BY <2>3, <2>4
<1> QED BY <1>1, <1>2

\* A position whose producer goes on writing, or whose slot keeps its value, has
\* the same item after the step.
LEMMA SameItem ==
  ASSUME ProtocolInv, ProtocolInv', NEW n \in Int,
         \A p \in Producers :
           /\ pc[p] = "write" /\ pos[p] = n <=> pc'[p] = "write" /\ pos'[p] = n
           /\ pc[p] = "write" => item'[p] = item[p],
         value'[Slot(n)] = value[Slot(n)]
  PROVE  QueuedItem(n)' = QueuedItem(n)
<1>1. ItemMapping /\ ItemMapping'
  BY MappedItem, PTL
<1>2. CASE \E p \in Producers : pc[p] = "write" /\ pos[p] = n
  <2>1. PICK p \in Producers : pc[p] = "write" /\ pos[p] = n
    BY <1>2
  <2> QED BY <1>1, <2>1 DEF ItemMapping
<1>3. CASE \A p \in Producers : ~(pc[p] = "write" /\ pos[p] = n)
  <2>1. QueuedItem(n)' = (value[Slot(n)])'
    BY <1>1, <1>3 DEF ItemMapping
  <2> QED BY <1>1, <1>3, <2>1 DEF ItemMapping, Slot
<1> QED BY <1>2, <1>3

\* The queue of items is the same when the counters and the items are.
LEMMA SameQueue ==
  ASSUME UNCHANGED <<enqueue_pos, dequeue_pos>>,
         enqueue_pos \in Nat, dequeue_pos \in Nat,
         \A n \in dequeue_pos..(enqueue_pos - 1) : QueuedItem(n)' = QueuedItem(n)
  PROVE  Queued' = Queued
BY DEF Queued

\* Hands stay as they are when no consumer begins a pop, claims or takes.
LEMMA SameHands ==
  ASSUME \A c \in Consumers :
           /\ pc'[c] = "take" <=> pc[c] = "take"
           /\ pc[c] = "take" => (value[Slot(pos[c])])' = value[Slot(pos[c])]
           /\ pc[c] # "take" => item'[c] = item[c]
  PROVE  Received' = Received
BY DEF Received

-----------------------------------------------------------------------------
(* One lemma per kind of step. *)

\* A step that keeps the counters, the slots' values, the writers and the hands
\* is a stuttering step.
LEMMA QuietStutters ==
  ASSUME ProtocolInv, ProtocolInv',
         UNCHANGED <<value, enqueue_pos, dequeue_pos>>,
         \A p \in Producers :
           /\ pc[p] = "write" <=> pc'[p] = "write"
           /\ pc[p] = "write" => pos'[p] = pos[p] /\ item'[p] = item[p],
         \A c \in Consumers :
           /\ pc'[c] = "take" <=> pc[c] = "take"
           /\ pc[c] = "take" => pos'[c] = pos[c]
           /\ pc[c] # "take" => item'[c] = item[c]
  PROVE  UNCHANGED <<Queued, Received>>
<1>1. Queued' = Queued
  <2>1. enqueue_pos \in Nat /\ dequeue_pos \in Nat
    BY DEF ProtocolInv, TypeOK
  <2>2. ASSUME NEW n \in dequeue_pos..(enqueue_pos - 1)
        PROVE  QueuedItem(n)' = QueuedItem(n)
    <3>1. PICK m \in Int : m = n
      BY <2>1
    <3>2. QueuedItem(m)' = QueuedItem(m)
      BY SameItem
    <3> QED BY <3>1, <3>2
  <2> QED BY <2>1, <2>2, SameQueue
<1>2. Received' = Received
  BY SameHands DEF Slot
<1> QED BY <1>1, <1>2

\* The write into the slot moves the item from the producer's hand to the slot,
\* which is no step of the FIFO.
LEMMA PushWriteStutters ==
  ASSUME Capacity >= 2, ProtocolInv, ProtocolInv', NEW p \in Producers, PushWrite(p)
  PROVE  UNCHANGED <<Queued, Received>>
<1> DEFINE n == pos[p]
<1>1. /\ UNCHANGED <<enqueue_pos, dequeue_pos, pos, item>>
      /\ value' = [value EXCEPT ![Slot(n)] = item[p]]
      /\ pc[p] = "write" /\ pc' = [pc EXCEPT ![p] = "publish"]
  BY DEF PushWrite, Goto
<1>2. /\ TypeOK /\ n \in Nat /\ n \in Window /\ Slot(n) \in Slots
      /\ n < enqueue_pos /\ dequeue_pos <= n
      /\ \A m \in Window : m # n => Slot(m) # Slot(n)
      /\ p \in Threads
  BY <1>1, ProducerHolds DEF ProtocolInv, Threads
<1>3. value'[Slot(n)] = item[p] /\ \A m \in Window : m # n => value'[Slot(m)] = value[Slot(m)]
  <2>1. \A m \in Window : Slot(m) \in Slots
    BY <1>2, SlotFacts DEF Window, TypeOK
  <2> QED BY <1>1, <1>2, <2>1 DEF TypeOK
<1>4. /\ pc'[p] = "publish" /\ \A q \in Producers : q # p => pc'[q] = pc[q]
      /\ \A c \in Consumers : pc'[c] = pc[c]
  BY <1>1, <1>2, ThreadAssumption DEF TypeOK, Threads
<1>5. \A q \in Producers : q # p /\ pc[q] = "write" => pos[q] # n
  BY <1>1 DEF ProtocolInv, ProducerState
<1>6. Queued' = Queued
  <2>1. ASSUME NEW m \in dequeue_pos..(enqueue_pos - 1)
        PROVE  QueuedItem(m)' = QueuedItem(m)
    <3>1. PICK k \in Int : k = m
      BY <1>2 DEF TypeOK
    <3>2. k \in Window
      BY <2>1, <3>1, HeldInWindow
    <3>3. CASE k = n
      <4>1. ItemMapping /\ ItemMapping'
        BY MappedItem, PTL
      <4>2. QueuedItem(k) = item[p]
        BY <1>1, <3>3, <4>1 DEF ItemMapping
      <4>3. QueuedItem(k)' = value'[Slot(k)]
        <5>1. \A q \in Producers : ~(pc'[q] = "write" /\ pos'[q] = k)
          BY <1>1, <1>4, <1>5, <3>3
        <5>2. QueuedItem(k)' = (value[Slot(k)])'
          BY <4>1, <5>1 DEF ItemMapping
        <5> QED BY <5>2 DEF Slot
      <4> QED BY <1>3, <3>1, <3>3, <4>2, <4>3
    <3>4. CASE k # n
      <4>1. /\ value'[Slot(k)] = value[Slot(k)]
            /\ \A q \in Producers :
                 /\ pc[q] = "write" /\ pos[q] = k <=> pc'[q] = "write" /\ pos'[q] = k
                 /\ pc[q] = "write" => item'[q] = item[q]
        BY <1>1, <1>3, <1>4, <3>2, <3>4
      <4>2. QueuedItem(k)' = QueuedItem(k)
        BY <4>1, SameItem
      <4> QED BY <3>1, <4>2
    <3> QED BY <3>3, <3>4
  <2> QED BY <1>1, <1>2, <2>1, SameQueue DEF TypeOK
<1>7. Received' = Received
  <2>1. ASSUME NEW c \in Consumers, pc[c] = "take"
        PROVE  (value[Slot(pos[c])])' = value[Slot(pos[c])]
    <3>1. PICK k \in Nat : k = pos[c]
      BY <1>2 DEF TypeOK, Threads
    <3>2. k \in Window /\ k # n
      BY <1>2, <2>1, <3>1, ConsumerHolds DEF TypeOK
    <3>3. (value[Slot(pos[c])])' = value'[Slot(k)]
      BY <1>1, <3>1 DEF Slot
    <3> QED BY <1>3, <3>1, <3>2, <3>3
  <2> QED BY <1>1, <1>4, <2>1, SameHands
<1> QED BY <1>6, <1>7

\* Taking the item out of the slot moves it to the consumer's hand, which has
\* counted as having it since the claim.
LEMMA PopTakeStutters ==
  ASSUME Capacity >= 2, ProtocolInv, ProtocolInv', NEW c \in Consumers, PopTake(c)
  PROVE  UNCHANGED <<Queued, Received>>
<1> DEFINE n == pos[c]
<1>1. /\ UNCHANGED <<enqueue_pos, dequeue_pos, pos>>
      /\ value' = [value EXCEPT ![Slot(n)] = None]
      /\ item' = [item EXCEPT ![c] = value[Slot(n)]]
      /\ pc[c] = "take" /\ pc' = [pc EXCEPT ![c] = "release"]
  BY DEF PopTake, Goto
<1>2. /\ TypeOK /\ n \in Nat /\ n \in Window /\ Slot(n) \in Slots /\ n < dequeue_pos
      /\ \A m \in Window : m # n => Slot(m) # Slot(n)
      /\ c \in Threads
  BY <1>1, ConsumerHolds DEF ProtocolInv, Threads
<1>3. \A m \in Window : m # n => value'[Slot(m)] = value[Slot(m)]
  BY <1>1, <1>2, SlotFacts DEF TypeOK, Window
<1>4. /\ pc'[c] = "release" /\ \A b \in Consumers : b # c => pc'[b] = pc[b] /\ item'[b] = item[b]
      /\ \A p \in Producers : pc'[p] = pc[p] /\ item'[p] = item[p]
      /\ item'[c] = value[Slot(n)]
  BY <1>1, <1>2, ThreadAssumption DEF TypeOK, Threads
<1>5. Queued' = Queued
  <2>1. ASSUME NEW m \in dequeue_pos..(enqueue_pos - 1)
        PROVE  QueuedItem(m)' = QueuedItem(m)
    <3>1. PICK k \in Int : k = m
      BY <1>2 DEF TypeOK
    <3>2. k \in Window /\ k # n
      BY <1>2, <2>1, <3>1, HeldInWindow DEF TypeOK
    <3>3. QueuedItem(k)' = QueuedItem(k)
      BY <1>1, <1>3, <1>4, <3>2, SameItem
    <3> QED BY <3>1, <3>3
  <2> QED BY <1>1, <1>2, <2>1, SameQueue DEF TypeOK
<1>6. Received' = Received
  <2>1. ASSUME NEW b \in Consumers, b # c, pc[b] = "take"
        PROVE  (value[Slot(pos[b])])' = value[Slot(pos[b])]
    <3>1. PICK k \in Nat : k = pos[b]
      BY <1>2 DEF TypeOK, Threads
    <3>2. k \in Window /\ k # n
      BY <1>1, <2>1, <3>1, ConsumerHolds DEF ProtocolInv, ConsumerState
    <3>3. (value[Slot(pos[b])])' = value'[Slot(k)]
      BY <1>1, <3>1 DEF Slot
    <3> QED BY <1>3, <3>1, <3>2, <3>3
  <2> DEFINE Hand(b) == IF pc[b] = "take" THEN value[Slot(pos[b])] ELSE item[b]
  <2>2. ASSUME NEW b \in Consumers PROVE Hand(b)' = Hand(b)
    <3>1. CASE b = c
      BY <1>1, <1>4, <3>1
    <3>2. CASE b # c
      BY <1>4, <2>1, <3>2
    <3> QED BY <3>1, <3>2
  <2> QED BY <2>2 DEF Received
<1> QED BY <1>5, <1>6

\* The queued items are a sequence, as long as push is ahead of pop.
QueuedSequence ==
  /\ Queued \in Seq(Items)
  /\ Len(Queued) = enqueue_pos - dequeue_pos
  /\ \A n \in Int :
       n \in dequeue_pos..(enqueue_pos - 1) => Queued[n + 1 - dequeue_pos] = QueuedItem(n)

LEMMA QueuedIsSequence ==
  ASSUME Capacity >= 2
  PROVE  ProtocolInv /\ HolderState => QueuedSequence
<1> SUFFICES ASSUME ProtocolInv, HolderState PROVE QueuedSequence
  OBVIOUS
<1>1. PICK k \in Nat : k = enqueue_pos - dequeue_pos
  BY SlotFacts DEF ProtocolInv, TypeOK, QueueBounded
<1>2. ASSUME NEW i \in 1..k PROVE QueuedItem(dequeue_pos + i - 1) \in Items
  <2>1. dequeue_pos + i - 1 \in dequeue_pos..(enqueue_pos - 1)
    BY <1>1 DEF ProtocolInv, TypeOK
  <2> QED BY <2>1, QueuedAreItems
<1>3. Queued \in [1..k -> Items]
  BY <1>1, <1>2 DEF Queued
<1>4. Queued \in Seq(Items)
  BY <1>1, <1>3, SeqDef
<1>5. DOMAIN Queued = 1..k /\ Len(Queued) \in Nat /\ DOMAIN Queued = 1..Len(Queued)
  BY <1>3, <1>4, LenProperties
<1>6. Len(Queued) = k
  BY <1>5
<1>7. ASSUME NEW n \in Int, n \in dequeue_pos..(enqueue_pos - 1)
      PROVE  Queued[n + 1 - dequeue_pos] = QueuedItem(n)
  <2>1. /\ n + 1 - dequeue_pos \in 1..(enqueue_pos - dequeue_pos)
        /\ dequeue_pos + (n + 1 - dequeue_pos) - 1 = n
    BY <1>7 DEF ProtocolInv, TypeOK
  <2> QED BY <2>1 DEF Queued
<1> QED BY <1>1, <1>4, <1>6, <1>7 DEF QueuedSequence

\* The compare-exchange of push accepts the item: it goes behind everything
\* claimed before it.
LEMMA PushClaimAccepts ==
  ASSUME Capacity >= 2, ProtocolInv, HolderState, ProtocolInv', HolderState',
         NEW p \in Producers, PushClaim(p)
  PROVE  Fifo!Accept(item[p]) /\ item[p] \in Items
<1> DEFINE e == enqueue_pos
           d == dequeue_pos
<1>1. /\ UNCHANGED <<value, dequeue_pos, pos, item>>
      /\ e' = e + 1 /\ pc[p] = "cas" /\ pos[p] = e
      /\ pc' = [pc EXCEPT ![p] = "write"]
  BY DEF PushClaim, Goto
<1>2. /\ TypeOK /\ e \in Nat /\ d \in Nat /\ d <= e /\ e - d < Capacity /\ p \in Threads
      /\ item[p] \in Items
  BY <1>1, PushClaimProtocol, SlotFacts
     DEF ProtocolInv, TypeOK, QueueBounded, ProducerState, Threads
<1>3. /\ pc'[p] = "write" /\ \A q \in Producers : q # p => pc'[q] = pc[q]
      /\ \A c \in Consumers : pc'[c] = pc[c]
  BY <1>1, <1>2, ThreadAssumption DEF TypeOK, Threads
<1>4. ASSUME NEW n \in d..(e - 1)
      PROVE  QueuedItem(n)' = QueuedItem(n)
  <2>1. PICK k \in Int : k = n
    BY <1>2
  <2>2. QueuedItem(k)' = QueuedItem(k)
    BY <1>1, <1>2, <1>3, <1>4, <2>1, SameItem
  <2> QED BY <2>1, <2>2
<1>5. PICK n \in Int : n = e
  BY <1>2
<1>6. QueuedItem(n)' = item[p]
  <2>1. ItemMapping'
    BY MappedItem, PTL
  <2> QED BY <1>1, <1>3, <1>5, <2>1 DEF ItemMapping
<1>7. QueuedSequence /\ QueuedSequence'
  BY QueuedIsSequence, PTL
<1>8. Queued' = Append(Queued, item[p])
  <2>1. /\ Append(Queued, item[p]) \in Seq(Items)
        /\ Len(Append(Queued, item[p])) = e - d + 1
        /\ \A i \in 1..(e - d) : Append(Queued, item[p])[i] = Queued[i]
        /\ Append(Queued, item[p])[e - d + 1] = item[p]
    BY <1>2, <1>7, AppendProperties DEF QueuedSequence
  <2>2. Queued' \in Seq(Items) /\ Len(Queued') = e - d + 1
    BY <1>1, <1>2, <1>7 DEF QueuedSequence
  <2>3. ASSUME NEW i \in 1..(e - d + 1)
        PROVE  Queued'[i] = Append(Queued, item[p])[i]
    <3>1. PICK k \in Int : k = d + i - 1
      BY <1>2
    <3>2. Queued'[i] = QueuedItem(k)'
      <4>1. k \in d..e /\ k + 1 - d = i /\ d' = d /\ e' - 1 = e
        BY <1>1, <1>2, <3>1
      <4> QED BY <1>7, <4>1 DEF QueuedSequence
    <3>3. CASE i = e - d + 1
      BY <1>2, <1>5, <1>6, <2>1, <3>1, <3>2, <3>3
    <3>4. CASE i # e - d + 1
      <4>1. k \in d..(e - 1) /\ k + 1 - d = i /\ i \in 1..(e - d)
        BY <1>2, <3>1, <3>4
      <4> QED BY <1>4, <1>7, <2>1, <3>2, <4>1 DEF QueuedSequence
    <3> QED BY <3>3, <3>4
  <2> QED BY <1>2, <2>1, <2>2, <2>3, SeqEqual
<1>9. Received' = Received
  BY <1>1, <1>3, SameHands DEF Slot
<1> QED BY <1>2, <1>7, <1>8, <1>9 DEF QueuedSequence, Fifo!Accept

\* The compare-exchange of pop delivers the oldest item, which its push has put
\* into the slot, to this consumer alone.
LEMMA PopClaimDelivers ==
  ASSUME Capacity >= 2, ProtocolInv, HolderState, ProtocolInv', HolderState',
         NEW c \in Consumers, PopClaim(c)
  PROVE  Fifo!Deliver(c)
<1> DEFINE e == enqueue_pos
           d == dequeue_pos
<1>1. /\ UNCHANGED <<value, enqueue_pos, pos, item>>
      /\ d' = d + 1 /\ pc[c] = "cas" /\ pos[c] = d
      /\ pc' = [pc EXCEPT ![c] = "take"]
  BY DEF PopClaim, Goto
<1>2. /\ TypeOK /\ e \in Nat /\ d \in Nat /\ d < e /\ c \in Threads
      /\ \A p \in Producers : pc[p] \in {"write", "publish"} => pos[p] # d
  BY PopClaimProtocol DEF ProtocolInv, TypeOK, Threads
<1>3. /\ pc'[c] = "take" /\ \A b \in Consumers : b # c => pc'[b] = pc[b]
      /\ \A p \in Producers : pc'[p] = pc[p]
  BY <1>1, <1>2, ThreadAssumption DEF TypeOK, Threads
<1>4. QueuedSequence /\ QueuedSequence'
  BY QueuedIsSequence, PTL
<1>5. Queued # <<>> /\ Head(Queued) = Queued[1]
  BY <1>2, <1>4, EmptySeq DEF QueuedSequence
<1>6. Queued[1] = value[Slot(d)]
  <2>1. PICK k \in Int : k = d
    BY <1>2
  <2>2. QueuedItem(k) = value[Slot(k)]
    BY <1>2, <2>1, MappedItem DEF ItemMapping
  <2>3. k \in d..(e - 1) /\ k + 1 - d = 1
    BY <1>2, <2>1
  <2> QED BY <1>4, <2>1, <2>2, <2>3 DEF QueuedSequence
<1>7. Queued' = Tail(Queued)
  <2>1. /\ Tail(Queued) \in Seq(Items)
        /\ Len(Tail(Queued)) = e - d - 1
        /\ \A i \in 1..(e - d - 1) : Tail(Queued)[i] = Queued[i + 1]
    BY <1>4, <1>5, HeadTailProperties DEF QueuedSequence
  <2>2. Queued' \in Seq(Items) /\ Len(Queued') = e - d - 1
    BY <1>1, <1>2, <1>4 DEF QueuedSequence
  <2>3. ASSUME NEW i \in 1..(e - d - 1)
        PROVE  Queued'[i] = Tail(Queued)[i]
    <3>1. PICK k \in Int : k = d + i
      BY <1>2
    <3>2. Queued'[i] = QueuedItem(k)'
      <4>1. k \in (d + 1)..(e - 1) /\ k + 1 - (d + 1) = i /\ d' = d + 1 /\ e' = e
        BY <1>1, <1>2, <3>1
      <4> QED BY <1>4, <4>1 DEF QueuedSequence
    <3>3. Queued[i + 1] = QueuedItem(k)
      <4>1. k \in d..(e - 1) /\ k + 1 - d = i + 1
        BY <1>2, <3>1
      <4> QED BY <1>4, <4>1 DEF QueuedSequence
    <3>4. QueuedItem(k)' = QueuedItem(k)
      BY <1>1, <1>3, SameItem
    <3> QED BY <2>1, <3>2, <3>3, <3>4
  <2> QED BY <2>1, <2>2, <2>3, SeqEqual
<1>8. Received' = [Received EXCEPT ![c] = Head(Queued)]
  <2> DEFINE Hand(b) == IF pc[b] = "take" THEN value[Slot(pos[b])] ELSE item[b]
  <2>1. ASSUME NEW b \in Consumers
        PROVE  Hand(b)' = IF b = c THEN Head(Queued) ELSE Hand(b)
    <3>1. CASE b = c
      BY <1>1, <1>3, <1>5, <1>6, <3>1 DEF Slot
    <3>2. CASE b # c
      BY <1>1, <1>3, <3>2 DEF Slot
    <3> QED BY <3>1, <3>2
  <2> QED BY <2>1 DEF Received
<1> QED BY <1>5, <1>7, <1>8 DEF Fifo!Deliver

\* A pop begins with empty hands.
LEMMA PopForgets ==
  ASSUME Capacity >= 2, ProtocolInv, ProtocolInv', NEW c \in Consumers, Pop(c)
  PROVE  Fifo!Forget(c)
<1>1. /\ UNCHANGED <<sequence, value, enqueue_pos, dequeue_pos, pos>>
      /\ pc[c] = "idle" /\ pc' = [pc EXCEPT ![c] = "load"]
      /\ item' = [item EXCEPT ![c] = None]
  BY DEF Pop, Goto
<1>2. /\ TypeOK /\ c \in Threads /\ enqueue_pos \in Nat /\ dequeue_pos \in Nat
      /\ pc'[c] = "load" /\ item'[c] = None
      /\ \A b \in Consumers : b # c => pc'[b] = pc[b] /\ item'[b] = item[b]
      /\ \A p \in Producers : pc'[p] = pc[p] /\ item'[p] = item[p]
  BY <1>1, ThreadAssumption DEF ProtocolInv, TypeOK, Threads
<1>3. Queued' = Queued
  <2>1. ASSUME NEW n \in dequeue_pos..(enqueue_pos - 1)
        PROVE  QueuedItem(n)' = QueuedItem(n)
    <3>1. PICK k \in Int : k = n
      BY <1>2
    <3>2. QueuedItem(k)' = QueuedItem(k)
      BY <1>1, <1>2, SameItem
    <3> QED BY <3>1, <3>2
  <2> QED BY <1>1, <1>2, <2>1, SameQueue
<1>4. Received' = [Received EXCEPT ![c] = None]
  <2> DEFINE Hand(b) == IF pc[b] = "take" THEN value[Slot(pos[b])] ELSE item[b]
  <2>1. ASSUME NEW b \in Consumers
        PROVE  Hand(b)' = IF b = c THEN None ELSE Hand(b)
    <3>1. CASE b = c
      BY <1>2, <3>1
    <3>2. CASE b # c
      BY <1>1, <1>2, <3>2 DEF Slot
    <3> QED BY <3>1, <3>2
  <2> QED BY <2>1 DEF Received
<1> QED BY <1>3, <1>4 DEF Fifo!Forget

-----------------------------------------------------------------------------
(* The refinement. *)

\* A new queue is an empty FIFO, and no consumer holds anything.
LEMMA InitIsFifoInit ==
  ASSUME Capacity >= 2, Init
  PROVE  Fifo!FifoInit
<1>1. QueuedSequence
  BY InitProtocol, InitHolder, QueuedIsSequence
<1>2. Queued = <<>>
  BY <1>1, EmptySeq DEF QueuedSequence, Init
<1>3. Received = [c \in Consumers |-> None]
  BY DEF Received, Init, Threads
<1> QED BY <1>2, <1>3 DEF Fifo!FifoInit

\* Every step of push and pop is a step of the FIFO or a stuttering step.
LEMMA NextIsFifoNext ==
  ASSUME Capacity >= 2, ProtocolInv, HolderState, [Next]_vars
  PROVE  [Fifo!FifoNext]_<<Queued, Received>>
<1>0. /\ ProtocolInv' /\ HolderState'
      /\ pc \in [Threads -> {"idle", "load", "slot", "cas",
                             "write", "publish", "take", "release"}]
      /\ pos \in [Threads -> Nat] /\ item \in [Threads -> Items \cup {None}]
      /\ Producers \subseteq Threads /\ Consumers \subseteq Threads
  BY NextProtocol, NextHolder DEF ProtocolInv, TypeOK, Threads
<1>1. CASE UNCHANGED vars
  BY <1>0, <1>1, QuietStutters DEF vars
<1>2. ASSUME NEW p \in Producers, NEW v \in Items, Push(p, v)
      PROVE  UNCHANGED <<Queued, Received>>
  BY <1>0, <1>2, ThreadAssumption, QuietStutters DEF Push, Goto
<1>3. ASSUME NEW p \in Producers,
             PushLoad(p) \/ PushCheck(p) \/ PushLose(p) \/ PushPublish(p)
      PROVE  UNCHANGED <<Queued, Received>>
  BY <1>0, <1>3, ThreadAssumption, QuietStutters
     DEF PushLoad, PushCheck, PushReady, PushFull, PushBehind, PushLose, PushPublish,
         RelaxedLoad, Goto
<1>4. ASSUME NEW p \in Producers, PushClaim(p)
      PROVE  Fifo!FifoNext
  <2>1. Fifo!Accept(item[p]) /\ item[p] \in Items
    BY <1>0, <1>4, PushClaimAccepts
  <2> QED BY <2>1 DEF Fifo!FifoNext
<1>5. ASSUME NEW c \in Consumers,
             PopLoad(c) \/ PopCheck(c) \/ PopLose(c) \/ PopRelease(c)
      PROVE  UNCHANGED <<Queued, Received>>
  BY <1>0, <1>5, ThreadAssumption, QuietStutters
     DEF PopLoad, PopCheck, PopBranch, PopReady, PopEmpty, PopBehind, PopLose, PopRelease,
         RelaxedLoad, Goto
<1>6. ASSUME NEW c \in Consumers, Pop(c) \/ PopClaim(c)
      PROVE  Fifo!FifoNext
  <2>1. Fifo!Forget(c) \/ Fifo!Deliver(c)
    BY <1>0, <1>6, PopForgets, PopClaimDelivers
  <2> QED BY <2>1 DEF Fifo!FifoNext
<1>7. ASSUME NEW p \in Producers, (\E v \in Items : Push(p, v)) \/ PushStep(p)
      PROVE  [Fifo!FifoNext]_<<Queued, Received>>
  BY <1>0, <1>2, <1>3, <1>4, <1>7, PushWriteStutters DEF PushStep
<1>8. ASSUME NEW c \in Consumers, Pop(c) \/ PopStep(c)
      PROVE  [Fifo!FifoNext]_<<Queued, Received>>
  BY <1>0, <1>5, <1>6, <1>8, PopTakeStutters DEF PopStep
<1> QED BY <1>1, <1>7, <1>8 DEF Next

\* Under every interleaving of any number of pushes and pops the ring buffer of
\* queue.rs is a bounded FIFO: nothing accepted is lost, duplicated, reordered
\* or handed to two consumers.
THEOREM QueueIsFifo == ASSUME Capacity >= 2 PROVE Spec => RefinesFifo
<1>1. Init => Fifo!FifoInit
  BY InitIsFifoInit
<1>2. ProtocolInv /\ HolderState /\ [Next]_vars => [Fifo!FifoNext]_<<Queued, Received>>
  BY NextIsFifoNext
<1>3. RefinesFifo <=> Fifo!FifoInit /\ [][Fifo!FifoNext]_<<Queued, Received>>
  BY DEF RefinesFifo, Fifo!FifoSpec, Fifo!fifoVars
<1> QED BY <1>1, <1>2, <1>3, ProtocolInvariant, HolderInvariant, PTL DEF Spec
=============================================================================
