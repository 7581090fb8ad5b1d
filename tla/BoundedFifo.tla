----------------------------- MODULE BoundedFifo -----------------------------
(***************************************************************************)
(* What the ring buffer of engine/src/queue.rs promises, with no slots, no  *)
(* positions and no threads half-way through a call: at most Capacity       *)
(* items, handed out one at a time, each to one consumer, in the order in   *)
(* which their pushes took effect.                                          *)
(*                                                                          *)
(* A push or a pop that gives up ("full", "empty") is not a step here: it   *)
(* leaves the queue and every consumer's hand as they were.  It may give up *)
(* although the queue is not full, or not empty: the sequence number it     *)
(* compared may be an old one, or belong to an unfinished call.             *)
(***************************************************************************)
EXTENDS Naturals, Sequences

CONSTANTS
  Consumers,   \* threads that may receive an item
  Items,       \* what is queued
  None,        \* "no item" (Option::None)
  Capacity     \* most items held at once

VARIABLES
  fifo,        \* the items accepted and not yet handed out, oldest first
  received     \* received[c]: the item c's current pop obtained, or None

fifoVars == <<fifo, received>>

FifoInit ==
  /\ fifo = <<>>
  /\ received = [c \in Consumers |-> None]

\* A push takes effect: the item goes behind everything accepted before it.
Accept(v) ==
  /\ Len(fifo) < Capacity
  /\ fifo' = Append(fifo, v)
  /\ UNCHANGED received

\* A pop takes effect: c, and c alone, gets the oldest item.
Deliver(c) ==
  /\ fifo # <<>>
  /\ fifo' = Tail(fifo)
  /\ received' = [received EXCEPT ![c] = Head(fifo)]

\* c begins its next pop with empty hands.
Forget(c) ==
  /\ received' = [received EXCEPT ![c] = None]
  /\ UNCHANGED fifo

FifoNext ==
  \/ \E v \in Items : Accept(v)
  \/ \E c \in Consumers : Deliver(c) \/ Forget(c)

FifoSpec == FifoInit /\ [][FifoNext]_fifoVars
=============================================================================
