---------------------------- MODULE BoundedQueue ----------------------------
(***************************************************************************)
(* What fifo.h promises the two threads that share a FIFO: a queue of at   *)
(* most Capacity items.  A put takes effect or is refused at once; a get   *)
(* hands out the oldest item and leaves it in the queue, and a step of its *)
(* own drops it.  Results are fifo.h's return codes.                       *)
(***************************************************************************)
EXTENDS Integers, Sequences

CONSTANTS Capacity, Items

VARIABLES
  queue,        \* oldest item first
  put_result,   \* what the last put to return has returned
  get_result,   \* and the last get
  item          \* what the last successful get handed out

vars == <<queue, put_result, get_result, item>>

FIFO_FAILURE == -1
FIFO_DATA    == 0
FIFO_EMPTY   == 1
FIFO_OVERRUN == 2

\* Nobody has called yet: a put never returns FIFO_EMPTY.
Init ==
  /\ queue = <<>>
  /\ put_result = FIFO_EMPTY /\ get_result = FIFO_EMPTY

Put(i) ==
  /\ Len(queue) < Capacity
  /\ queue' = Append(queue, i)
  /\ put_result' = FIFO_DATA
  /\ UNCHANGED <<get_result, item>>

\* Only a full queue refuses an item.
Refuse ==
  /\ Len(queue) = Capacity
  /\ put_result' = FIFO_OVERRUN
  /\ UNCHANGED <<queue, get_result, item>>

\* A put of no item.
PutNothing ==
  /\ put_result' = FIFO_FAILURE
  /\ UNCHANGED <<queue, get_result, item>>

Get ==
  /\ queue # <<>>
  /\ item' = Head(queue)
  /\ get_result' = FIFO_DATA
  /\ UNCHANGED <<queue, put_result>>

\* Only an empty queue gives nothing.
GetNothing ==
  /\ queue = <<>>
  /\ get_result' = FIFO_EMPTY
  /\ UNCHANGED <<queue, put_result, item>>

Drop ==
  /\ queue # <<>>
  /\ queue' = Tail(queue)
  /\ UNCHANGED <<put_result, get_result, item>>

\* A get without a place for the item.
GetNowhere ==
  /\ get_result' = FIFO_FAILURE
  /\ UNCHANGED <<queue, put_result, item>>

Next ==
  \/ \E i \in Items : Put(i)
  \/ Refuse \/ PutNothing
  \/ Get \/ GetNothing \/ Drop \/ GetNowhere

Spec == Init /\ [][Next]_vars
=============================================================================
