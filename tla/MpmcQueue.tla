------------------------------ MODULE MpmcQueue ------------------------------
(***************************************************************************)
(* The bounded lock-free ring buffer of engine/src/queue.rs, one action per *)
(* access to shared memory, so that threads interleave wherever they can in *)
(* the program: between the load of a position, the load of a slot's        *)
(* sequence number, the compare-exchange that claims the position, the      *)
(* non-atomic access to the slot's value, and the store that gives the slot *)
(* to the other side.                                                       *)
(*                                                                          *)
(* Memory orderings.  A load may be stale, whatever its ordering.  The      *)
(* positions are loaded Relaxed: any value the position has had since the   *)
(* last one this thread saw (RelaxedLoad).  A slot's sequence number is     *)
(* loaded Acquire: any number the slot has had (AcquireLoad; that a thread  *)
(* does not see an older number after a newer one is not kept track of, so  *)
(* the model allows a little more than the hardware).  What Acquire adds is *)
(* order: a thread that has seen a number stored by Release sees the slot's *)
(* value as it was left at that store.  A thread touches the value only     *)
(* after it has seen its own position's number and claimed that position,   *)
(* and ProtocolInv says that this number is then still the slot's latest:   *)
(* so the value is accessed in its current state.  A compare-exchange acts  *)
(* on the current position; the weak form may fail spuriously, and what a   *)
(* failure reports is again a Relaxed load.                                 *)
(*                                                                          *)
(* Positions and sequence numbers are usize in the code and naturals here:  *)
(* 2^64 calls are out of reach.  `pos & self.mask` with mask = capacity - 1 *)
(* and capacity a power of two is pos % Capacity.                           *)
(***************************************************************************)
EXTENDS Integers, Sequences

CONSTANTS
  Producers,     \* threads that call push
  Consumers,     \* threads that call pop
  Items,         \* the values pushed
  None,          \* Option::None
  Capacity,      \* number of slots
  MaxEnqueues    \* bound: push is called only while enqueue_pos < MaxEnqueues

(***************************************************************************)
(* MpmcQueue::new asserts capacity.is_power_of_two(), which 1 satisfies.    *)
(***************************************************************************)
ASSUME CapacityAssumption ==
  /\ Capacity \in Nat
  /\ \E k \in 0..Capacity : Capacity = 2^k

ASSUME ThreadAssumption == Producers \cap Consumers = {}

ASSUME ItemAssumption == None \notin Items

ASSUME BoundAssumption == MaxEnqueues \in Nat

VARIABLES
  sequence,      \* sequence[i]: Slot::sequence of slot i
  value,         \* value[i]: Slot::value of slot i
  enqueue_pos,
  dequeue_pos,
  pc,            \* where each thread is in its current call
  pos,           \* the local pos of push/pop; between calls, the newest value
                 \* of the position this thread has seen
  item           \* push's argument / what the last pop returned

vars == <<sequence, value, enqueue_pos, dequeue_pos, pc, pos, item>>

Threads == Producers \cup Consumers
Slots == 0..(Capacity - 1)
Slot(n) == n % Capacity

Init ==
  /\ sequence = [i \in Slots |-> i]
  /\ value = [i \in Slots |-> None]
  /\ enqueue_pos = 0
  /\ dequeue_pos = 0
  /\ pc = [t \in Threads |-> "idle"]
  /\ pos = [t \in Threads |-> 0]
  /\ item = [t \in Threads |-> None]

Goto(t, label) == pc' = [pc EXCEPT ![t] = label]

\* t's Relaxed load of a position that only grows: any value from the last
\* one t saw to the current one.
RelaxedLoad(t, position) ==
  \E n \in pos[t]..position : pos' = [pos EXCEPT ![t] = n]

\* What an Acquire load of slot i's sequence number may return: the numbers it
\* has had, which are i itself and, for each position m whose slot it is, m + 1
\* and m + Capacity.
AcquireLoad(i) == {n \in i..sequence[i] : Slot(n) = i \/ Slot(n - 1) = i}

-----------------------------------------------------------------------------
(* push *)

Push(p, v) ==
  /\ pc[p] = "idle"
  /\ enqueue_pos < MaxEnqueues
  /\ item' = [item EXCEPT ![p] = v]
  /\ Goto(p, "load")
  /\ UNCHANGED <<sequence, value, enqueue_pos, dequeue_pos, pos>>

\* Mutant: the retry goes on with the position this thread already has.
PushLoadKept(p) ==
  /\ pc[p] = "load"
  /\ Goto(p, "slot")
  /\ UNCHANGED <<sequence, value, enqueue_pos, dequeue_pos, pos, item>>

\* let mut pos = self.enqueue_pos.load(Relaxed), also after diff > 0
PushLoad(p) ==
  /\ pc[p] = "load"
  /\ RelaxedLoad(p, enqueue_pos)
  /\ Goto(p, "slot")
  /\ UNCHANGED <<sequence, value, enqueue_pos, dequeue_pos, item>>

\* let diff = seq as isize - pos as isize
PushDiff(p, seq) == seq - pos[p]

\* Mutant: the full queue is not told from the free slot.
PushReadyWhenFull(p, seq) ==
  /\ pc[p] = "slot"
  /\ PushDiff(p, seq) <= 0
  /\ Goto(p, "cas")
  /\ UNCHANGED <<sequence, value, enqueue_pos, dequeue_pos, pos, item>>

\* diff == 0: the slot is free for this position; try to claim it.
PushReady(p, seq) ==
  /\ pc[p] = "slot"
  /\ PushDiff(p, seq) = 0
  /\ Goto(p, "cas")
  /\ UNCHANGED <<sequence, value, enqueue_pos, dequeue_pos, pos, item>>

\* diff < 0: return Err(item).
PushFull(p, seq) ==
  /\ pc[p] = "slot"
  /\ PushDiff(p, seq) < 0
  /\ item' = [item EXCEPT ![p] = None]
  /\ Goto(p, "idle")
  /\ UNCHANGED <<sequence, value, enqueue_pos, dequeue_pos, pos>>

\* diff > 0: another producer has had this position; load it again.
PushBehind(p, seq) ==
  /\ pc[p] = "slot"
  /\ PushDiff(p, seq) > 0
  /\ Goto(p, "load")
  /\ UNCHANGED <<sequence, value, enqueue_pos, dequeue_pos, pos, item>>

\* let seq = slot.sequence.load(Acquire), and the branch it leads to.
PushCheck(p) ==
  \E seq \in AcquireLoad(Slot(pos[p])) :
    PushReady(p, seq) \/ PushFull(p, seq) \/ PushBehind(p, seq)

\* Mutant: enqueue_pos is stored without comparing it.
PushClaimBlind(p) ==
  /\ pc[p] = "cas"
  /\ enqueue_pos' = pos[p] + 1
  /\ Goto(p, "write")
  /\ UNCHANGED <<sequence, value, dequeue_pos, pos, item>>

\* Mutant: the slot is published together with the claim, before the write.
PushClaimPublishes(p) ==
  /\ pc[p] = "cas"
  /\ enqueue_pos = pos[p]
  /\ enqueue_pos' = enqueue_pos + 1
  /\ sequence' = [sequence EXCEPT ![Slot(pos[p])] = pos[p] + 1]
  /\ Goto(p, "write")
  /\ UNCHANGED <<value, dequeue_pos, pos, item>>

\* compare_exchange_weak(pos, pos + 1) succeeds.
PushClaim(p) ==
  /\ pc[p] = "cas"
  /\ enqueue_pos = pos[p]
  /\ enqueue_pos' = enqueue_pos + 1
  /\ Goto(p, "write")
  /\ UNCHANGED <<sequence, value, dequeue_pos, pos, item>>

\* It fails: Err(cur) => pos = cur.
PushLose(p) ==
  /\ pc[p] = "cas"
  /\ RelaxedLoad(p, enqueue_pos)
  /\ Goto(p, "slot")
  /\ UNCHANGED <<sequence, value, enqueue_pos, dequeue_pos, item>>

\* unsafe { *slot.value.get() = Some(item) }: p is inside the slot from the
\* state pc[p] = "write" on.
PushWrite(p) ==
  /\ pc[p] = "write"
  /\ value' = [value EXCEPT ![Slot(pos[p])] = item[p]]
  /\ Goto(p, "publish")
  /\ UNCHANGED <<sequence, enqueue_pos, dequeue_pos, pos, item>>

\* Mutant: the sequence number is never stored.
PushPublishForgotten(p) ==
  /\ pc[p] = "publish"
  /\ pos' = [pos EXCEPT ![p] = @ + 1]
  /\ item' = [item EXCEPT ![p] = None]
  /\ Goto(p, "idle")
  /\ UNCHANGED <<sequence, value, enqueue_pos, dequeue_pos>>

\* slot.sequence.store(pos + 1, Release); return Ok(()).  p has written
\* enqueue_pos = pos + 1 and will not see an older value again.
PushPublish(p) ==
  /\ pc[p] = "publish"
  /\ sequence' = [sequence EXCEPT ![Slot(pos[p])] = pos[p] + 1]
  /\ pos' = [pos EXCEPT ![p] = @ + 1]
  /\ item' = [item EXCEPT ![p] = None]
  /\ Goto(p, "idle")
  /\ UNCHANGED <<value, enqueue_pos, dequeue_pos>>

-----------------------------------------------------------------------------
(* pop *)

Pop(c) ==
  /\ pc[c] = "idle"
  /\ item' = [item EXCEPT ![c] = None]
  /\ Goto(c, "load")
  /\ UNCHANGED <<sequence, value, enqueue_pos, dequeue_pos, pos>>

\* Mutant: pop reads the wrong counter.
PopLoadEnqueuePos(c) ==
  /\ pc[c] = "load"
  /\ RelaxedLoad(c, enqueue_pos)
  /\ Goto(c, "slot")
  /\ UNCHANGED <<sequence, value, enqueue_pos, dequeue_pos, item>>

\* let mut pos = self.dequeue_pos.load(Relaxed), also after diff > 0
PopLoad(c) ==
  /\ pc[c] = "load"
  /\ RelaxedLoad(c, dequeue_pos)
  /\ Goto(c, "slot")
  /\ UNCHANGED <<sequence, value, enqueue_pos, dequeue_pos, item>>

\* let diff = seq as isize - (pos as isize + 1)
PopDiff(c, seq) == seq - (pos[c] + 1)

\* diff == 0: the slot is published for this position; try to claim it.
PopReady(c, seq) ==
  /\ pc[c] = "slot"
  /\ PopDiff(c, seq) = 0
  /\ Goto(c, "cas")
  /\ UNCHANGED <<sequence, value, enqueue_pos, dequeue_pos, pos, item>>

\* diff < 0: return None.
PopEmpty(c, seq) ==
  /\ pc[c] = "slot"
  /\ PopDiff(c, seq) < 0
  /\ Goto(c, "idle")
  /\ UNCHANGED <<sequence, value, enqueue_pos, dequeue_pos, pos, item>>

\* diff > 0: another consumer has had this position; load it again.
PopBehind(c, seq) ==
  /\ pc[c] = "slot"
  /\ PopDiff(c, seq) > 0
  /\ Goto(c, "load")
  /\ UNCHANGED <<sequence, value, enqueue_pos, dequeue_pos, pos, item>>

PopBranch(c, seq) == PopReady(c, seq) \/ PopEmpty(c, seq) \/ PopBehind(c, seq)

\* let seq = slot.sequence.load(Acquire), and the branch it leads to.
PopCheck(c) == \E seq \in AcquireLoad(Slot(pos[c])) : PopBranch(c, seq)

\* compare_exchange_weak(pos, pos + 1) succeeds.
PopClaim(c) ==
  /\ pc[c] = "cas"
  /\ dequeue_pos = pos[c]
  /\ dequeue_pos' = dequeue_pos + 1
  /\ Goto(c, "take")
  /\ UNCHANGED <<sequence, value, enqueue_pos, pos, item>>

\* It fails: Err(cur) => pos = cur.
PopLose(c) ==
  /\ pc[c] = "cas"
  /\ RelaxedLoad(c, dequeue_pos)
  /\ Goto(c, "slot")
  /\ UNCHANGED <<sequence, value, enqueue_pos, dequeue_pos, item>>

\* Mutant: the item is copied out of the slot instead of taken.
PopTakeCopies(c) ==
  /\ pc[c] = "take"
  /\ item' = [item EXCEPT ![c] = value[Slot(pos[c])]]
  /\ Goto(c, "release")
  /\ UNCHANGED <<sequence, value, enqueue_pos, dequeue_pos, pos>>

\* let item = unsafe { (*slot.value.get()).take() }
PopTake(c) ==
  /\ pc[c] = "take"
  /\ item' = [item EXCEPT ![c] = value[Slot(pos[c])]]
  /\ value' = [value EXCEPT ![Slot(pos[c])] = None]
  /\ Goto(c, "release")
  /\ UNCHANGED <<sequence, enqueue_pos, dequeue_pos, pos>>

\* slot.sequence.store(pos + self.mask + 1, Release); return item
PopRelease(c) ==
  /\ pc[c] = "release"
  /\ sequence' = [sequence EXCEPT ![Slot(pos[c])] = pos[c] + Capacity]
  /\ pos' = [pos EXCEPT ![c] = @ + 1]
  /\ Goto(c, "idle")
  /\ UNCHANGED <<value, enqueue_pos, dequeue_pos, item>>

-----------------------------------------------------------------------------

PushStep(p) ==
  \/ PushLoad(p)
  \/ PushCheck(p)
  \/ PushClaim(p) \/ PushLose(p)
  \/ PushWrite(p) \/ PushPublish(p)

PopStep(c) ==
  \/ PopLoad(c)
  \/ PopCheck(c)
  \/ PopClaim(c) \/ PopLose(c)
  \/ PopTake(c) \/ PopRelease(c)

Next ==
  \/ \E p \in Producers : (\E v \in Items : Push(p, v)) \/ PushStep(p)
  \/ \E c \in Consumers : Pop(c) \/ PopStep(c)

Spec == Init /\ [][Next]_vars

(***************************************************************************)
(* Fairness.  A thread inside a call keeps running.  A store becomes        *)
(* visible: a thread that accesses a position, or loads a sequence number,  *)
(* again and again acts on the current value at some time; a                *)
(* compare-exchange that is retried with the right value does not fail      *)
(* spuriously for ever -- the forward progress the language and the         *)
(* hardware give.  Consumers call pop in a loop (spawn_workers); nobody is  *)
(* obliged to push.                                                         *)
(***************************************************************************)

\* An access to the position that acts on its current value.  (A call to push
\* is not repeated, so for producers this includes the claim itself.)
PushUpToDate(p) ==
  \/ PushClaim(p)
  \/ PushLoad(p) /\ pos'[p] = enqueue_pos
  \/ PushLose(p) /\ pos[p] # enqueue_pos /\ pos'[p] = enqueue_pos

PopUpToDate(c) == (PopLoad(c) \/ PopLose(c)) /\ pos'[c] = dequeue_pos

Fairness ==
  /\ \A p \in Producers :
       /\ WF_vars(PushStep(p))
       /\ SF_vars(PushUpToDate(p))
  /\ \A c \in Consumers :
       /\ WF_vars(Pop(c))
       /\ WF_vars(PopStep(c))
       /\ SF_vars(PopUpToDate(c))
       /\ SF_vars(PopBranch(c, sequence[Slot(pos[c])]))
       /\ SF_vars(PopClaim(c))

FairSpec == Spec /\ Fairness

-----------------------------------------------------------------------------
(* Properties *)

\* Types, and a thread only works with a position that its shared counter has
\* really had (pos is copied from enqueue_pos in push, dequeue_pos in pop).
TypeOK ==
  /\ sequence \in [Slots -> Nat]
  /\ value \in [Slots -> Items \cup {None}]
  /\ enqueue_pos \in Nat
  /\ dequeue_pos \in Nat
  /\ pc \in [Threads -> {"idle", "load", "slot", "cas",
                         "write", "publish", "take", "release"}]
  /\ pos \in [Threads -> Nat]
  /\ item \in [Threads -> Items \cup {None}]
  /\ \A p \in Producers : pos[p] <= enqueue_pos /\ pc[p] \notin {"take", "release"}
  /\ \A c \in Consumers : pos[c] <= dequeue_pos /\ pc[c] \notin {"write", "publish"}

\* t has claimed a position and not yet stored the slot's next sequence number.
InSlot(t) == pc[t] \in {"write", "publish", "take", "release"}

\* "access to `value` is gated by the `sequence` atomic protocol below, which
\* guarantees exclusive access at the point of read/write" (the Safety comment
\* of the unsafe impl Sync): no two threads are ever inside the same slot.
ExclusiveAccess ==
  \A t, u \in Threads :
    t # u /\ InSlot(t) /\ InSlot(u) => Slot(pos[t]) # Slot(pos[u])

\* The buffer is bounded: positions claimed by push and not yet by pop never
\* outnumber the slots, so no push lands on an item that is still queued, and
\* pop never claims a position that push has not.
QueueBounded == enqueue_pos - dequeue_pos \in 0..Capacity

(***************************************************************************)
(* Refinement.  A push takes effect when its compare-exchange claims the    *)
(* position, a pop when its own does.  Between a producer's claim and its   *)
(* write the item is still in the producer's hands.                         *)
(***************************************************************************)
Writing(n) == {p \in Producers : pc[p] = "write" /\ pos[p] = n}

QueuedItem(n) ==
  IF Writing(n) # {} THEN item[CHOOSE p \in Writing(n) : TRUE]
                     ELSE value[Slot(n)]

Queued == [i \in 1..(enqueue_pos - dequeue_pos) |-> QueuedItem(dequeue_pos + i - 1)]

Received ==
  [c \in Consumers |-> IF pc[c] = "take" THEN value[Slot(pos[c])] ELSE item[c]]

Fifo == INSTANCE BoundedFifo WITH fifo <- Queued, received <- Received

\* Under every interleaving of pushes and pops the ring buffer is a bounded
\* FIFO: nothing accepted is lost, duplicated, reordered or handed to two
\* consumers (what concurrent_stress_no_lost_or_duplicated_items samples).
RefinesFifo == Fifo!FifoSpec

\* "a full/empty queue causes a caller to back off and retry": neither push nor
\* pop spins for ever inside a call.
CallsReturn == \A t \in Threads : pc[t] # "idle" ~> pc[t] = "idle"

\* Every position a push has claimed is reached by a pop while consumers keep
\* calling (spawn_workers' loop): nothing accepted stays in the ring for ever.
ItemsDelivered ==
  \A n \in 1..(MaxEnqueues + 1) : enqueue_pos >= n ~> dequeue_pos >= n

-----------------------------------------------------------------------------
(***************************************************************************)
(* The inductive invariant behind ExclusiveAccess, QueueBounded and         *)
(* RefinesFifo.  Look at the last Capacity positions claimed by push, the   *)
(* window (enqueue_pos - Capacity)..(enqueue_pos - 1): each slot is the     *)
(* slot of exactly one of them, and its sequence number says how far that   *)
(* position has got.  (A negative position stands for a slot that has never *)
(* been used.)                                                              *)
(***************************************************************************)
Window == (enqueue_pos - Capacity)..(enqueue_pos - 1)

\* Positions not yet claimed by pop: being written, or published with an item.
\* Positions claimed by pop: being emptied, or given back with no item.
SlotState ==
  \A m \in Window :
    IF dequeue_pos <= m
    THEN \/ sequence[Slot(m)] = m
         \/ sequence[Slot(m)] = m + 1 /\ value[Slot(m)] \in Items
    ELSE \/ sequence[Slot(m)] = m + 1
         \/ sequence[Slot(m)] = m + Capacity /\ value[Slot(m)] = None

\* A producer inside a slot holds a position of its own that no pop can claim
\* yet: the sequence number still says "not published".
ProducerState ==
  \A p \in Producers :
    /\ pc[p] # "idle" => item[p] \in Items
    /\ pc[p] = "cas" => sequence[Slot(pos[p])] >= pos[p]
    /\ pc[p] \in {"write", "publish"} =>
         /\ dequeue_pos <= pos[p] /\ pos[p] < enqueue_pos
         /\ sequence[Slot(pos[p])] = pos[p]
         /\ \A q \in Producers :
              pc[q] \in {"write", "publish"} /\ pos[q] = pos[p] => q = p
    /\ pc[p] = "publish" => value[Slot(pos[p])] = item[p]

\* A consumer inside a slot holds a position of its own that push cannot reach
\* again yet: the sequence number still says "published".
ConsumerState ==
  \A c \in Consumers :
    /\ pc[c] = "cas" => sequence[Slot(pos[c])] >= pos[c] + 1
    /\ pc[c] \in {"take", "release"} =>
         /\ enqueue_pos - Capacity <= pos[c] /\ pos[c] < dequeue_pos
         /\ sequence[Slot(pos[c])] = pos[c] + 1
         /\ \A d \in Consumers :
              pc[d] \in {"take", "release"} /\ pos[d] = pos[c] => d = c
    /\ pc[c] = "take" => value[Slot(pos[c])] \in Items
    /\ pc[c] = "release" => value[Slot(pos[c])] = None

\* The converse for producers, which the refinement needs: a claimed position
\* whose number has not moved on has its producer inside the slot.
HolderState ==
  \A m \in Window :
    dequeue_pos <= m /\ sequence[Slot(m)] = m
      => \E p \in Producers : pc[p] \in {"write", "publish"} /\ pos[p] = m

\* The protocol invariant of the ring buffer: what the sequence numbers of
\* Slot::sequence say about every slot agrees with who is inside it.
ProtocolInv ==
  TypeOK /\ QueueBounded /\ SlotState /\ ProducerState /\ ConsumerState
=============================================================================
