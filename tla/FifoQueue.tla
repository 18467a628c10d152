----------------------------- MODULE FifoQueue -----------------------------
(***************************************************************************)
(* FifoQueue<T> (src/src/satellite/FIFO_queue.rs): the bounded queue of    *)
(* scheduler commands, of data for the downlink and of packets for         *)
(* transmission.  A push never blocks and never fails.                     *)
(***************************************************************************)
EXTENDS Integers, Sequences

(* FifoQueue::push: at capacity the oldest element makes room.             *)
FifoPush_OffByOne(q, e, capacity) ==        \* mutant
  Append(IF Len(q) > capacity THEN Tail(q) ELSE q, e)
FifoPush_RejectNewest(q, e, capacity) ==    \* mutant
  IF Len(q) >= capacity THEN q ELSE Append(q, e)
FifoPush(q, e, capacity) ==
  Append(IF Len(q) >= capacity THEN Tail(q) ELSE q, e)

(* What that push throws away, as a set.                                   *)
FifoDropped(q, capacity) == IF Len(q) >= capacity THEN {Head(q)} ELSE {}

=============================================================================
