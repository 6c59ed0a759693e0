----------------------------- MODULE LimitQueue -----------------------------
(***************************************************************************)
(* The queue of a master (common/limit_queue.h) with a limit that is       *)
(* reached.  The elements are numbered in the order they are pushed.       *)
(***************************************************************************)
EXTENDS Naturals, Sequences

CONSTANTS
  MaxSize,   \* maxSize_
  Pushes     \* elements that are pushed in all

(* The assertion of the constructor: the hypothesis of the theorems. *)
LimitAssumption == MaxSize \in Nat \ {0} /\ Pushes \in Nat

VARIABLES
  queue,     \* queue_
  pushed,    \* history: elements pushed so far
  popped     \* history: the last element that Pop removed, or 0

vars == <<queue, pushed, popped>>

TypeOK ==
  /\ queue \in Seq(1..Pushes)
  /\ pushed \in 0..Pushes
  /\ popped \in 0..Pushes

Init ==
  /\ queue = <<>>
  /\ pushed = 0
  /\ popped = 0

(* The oldest element is dropped when there are more than maxSize_. *)
MakeRoom(q) == IF Len(q) > MaxSize THEN Tail(q) ELSE q

Push ==
  /\ pushed < Pushes
  /\ pushed' = pushed + 1
  /\ queue' = Append(MakeRoom(queue), pushed')
  /\ UNCHANGED popped

(* The masters look at Empty before Front and Pop. *)
Pop ==
  /\ queue # <<>>
  /\ popped' = Head(queue)
  /\ queue' = Tail(queue)
  /\ UNCHANGED pushed

Next == Push \/ Pop

Spec == Init /\ [][Next]_vars
-----------------------------------------------------------------------------
(***************************************************************************)
(* Properties.                                                             *)
(***************************************************************************)

(* The queue holds the newest elements, without a gap and in order,        *)
(* whatever was dropped and popped.                                        *)
KeepsNewest ==
  \A i \in 1..Len(queue) : queue[i] = pushed - Len(queue) + i

(* The memory is bounded: by one more than the limit, since Push compares  *)
(* before it pushes.                                                       *)
Bounded == Len(queue) <= MaxSize + 1

(* With a limit that is not reached every element is popped in its turn.   *)
(* The masters' queues have the limit of size_t, and the models of the     *)
(* masters take them for sequences.                                        *)
NothingLost == Pushes <= MaxSize + 1 => pushed = popped + Len(queue)
=============================================================================
