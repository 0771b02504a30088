-------------------------------- MODULE Fifo --------------------------------
(***************************************************************************)
(* fifo.c: the ring one producer thread and one consumer thread share      *)
(* without a lock.  A step reads or writes at most one thing the other     *)
(* thread writes; push_at and read_at say where in a call each thread is.  *)
(* The pointer to the ring is never NULL: fifo_push() reads through it     *)
(* before it checks it.                                                    *)
(***************************************************************************)
EXTENDS Integers, Sequences

CONSTANTS
  FIFO_MAX_ITEMS,  \* entries of the ring: 256 in the code
  Items,           \* what an entry can hold
  Zeroed           \* an entry after memset()

ASSUME FifoAssumption ==
  /\ FIFO_MAX_ITEMS \in Nat /\ FIFO_MAX_ITEMS >= 2
  /\ Zeroed \in Items

FIFO_FAILURE == -1
FIFO_DATA    == 0
FIFO_EMPTY   == 1
FIFO_OVERRUN == 2
FIFO_LOST    == 3

VARIABLES
  read_index, write_index, rejected_count, buff,           \* struct hsi_fifo_s
  push_at, to_push, new_write_index, write_src, push_ret,  \* the producer
  read_at, has_item, new_read_index, read_src,             \* the consumer
  item, read_ret,
  unreported       \* a push was rejected since the last FIFO_LOST

ringVars     == <<read_index, write_index, rejected_count, buff>>
producerVars == <<push_at, to_push, new_write_index, write_src, push_ret>>
consumerVars == <<read_at, has_item, new_read_index, read_src, item, read_ret>>

vars == <<ringVars, producerVars, consumerVars, unreported>>

Indices == 0 .. FIFO_MAX_ITEMS - 1

TypeOK ==
  /\ read_index \in Indices /\ write_index \in Indices /\ rejected_count \in Nat
  /\ buff \in [Indices -> Items]
  /\ push_at \in {"idle", "copy", "load", "store"} /\ to_push \in Items
  /\ new_write_index \in Indices /\ write_src \in Indices
  /\ push_ret \in {FIFO_FAILURE, FIFO_DATA, FIFO_EMPTY, FIFO_OVERRUN}
  /\ read_at \in {"idle", "read", "copy", "load", "store"} /\ has_item \in BOOLEAN
  /\ new_read_index \in Indices /\ read_src \in Indices
  /\ item \in Items
  /\ read_ret \in {FIFO_FAILURE, FIFO_DATA, FIFO_EMPTY, FIFO_LOST}
  /\ unreported \in BOOLEAN

\* fifo_init(), before the consumer starts, and no call made: FIFO_EMPTY is no push's
\* result.
Init ==
  /\ read_index = 0 /\ write_index = 0 /\ rejected_count = 0
  /\ buff = [i \in Indices |-> Zeroed]
  /\ push_at = "idle" /\ to_push = Zeroed
  /\ new_write_index = 0 /\ write_src = 0 /\ push_ret = FIFO_EMPTY
  /\ read_at = "idle" /\ has_item = TRUE
  /\ new_read_index = 0 /\ read_src = 0
  /\ item = Zeroed /\ read_ret = FIFO_EMPTY
  /\ unreported = FALSE

NextIndex(i) == (i + 1) % FIFO_MAX_ITEMS

\* The branch that lowers an index left out.
set_atomic_OnlyUp(now, src_value, value) ==
  IF src_value < value THEN now + (value - src_value) ELSE now

\* What set_atomic() makes of *src, which it read as src_value and reads again, now,
\* for "+=", "-=" or "&=".
set_atomic(now, src_value, value) ==
  IF value = 0 THEN 0 ELSE now + (value - src_value)

-----------------------------------------------------------------------------
\* The producer.

\* The test for a full ring left out.
Fifo_push_Unchecked(i) ==
  /\ push_at = "idle"
  /\ to_push' = i /\ new_write_index' = NextIndex(write_index)
  /\ push_at' = "copy"
  /\ UNCHANGED <<ringVars, consumerVars, write_src, push_ret, unreported>>

\* fifo_push() up to the memcpy(), or to its end when the ring is full.  The rejected
\* item is counted nowhere.
Fifo_push(i) ==
  /\ push_at = "idle"
  /\ to_push' = i /\ new_write_index' = NextIndex(write_index)
  /\ IF new_write_index' = read_index
       THEN push_ret' = FIFO_OVERRUN /\ unreported' = TRUE /\ UNCHANGED push_at
       ELSE push_at' = "copy" /\ UNCHANGED <<push_ret, unreported>>
  /\ UNCHANGED <<ringVars, consumerVars, write_src>>

\* fifo_push() of a NULL item.
Fifo_push_null ==
  /\ push_at = "idle"
  /\ push_ret' = FIFO_FAILURE
  /\ UNCHANGED <<ringVars, consumerVars, push_at, to_push, new_write_index, write_src,
                 unreported>>

\* The end of the memcpy(): the producer is in the entry while push_at = "copy".
PushCopy ==
  /\ push_at = "copy"
  /\ buff' = [buff EXCEPT ![write_index] = to_push]
  /\ push_at' = "load"
  /\ UNCHANGED <<read_index, write_index, rejected_count, consumerVars, to_push,
                 new_write_index, write_src, push_ret, unreported>>

PushLoad ==
  /\ push_at = "load"
  /\ write_src' = write_index
  /\ push_at' = "store"
  /\ UNCHANGED <<ringVars, consumerVars, to_push, new_write_index, push_ret, unreported>>

PushStore ==
  /\ push_at = "store"
  /\ write_index' = set_atomic(write_index, write_src, new_write_index)
  /\ push_ret' = FIFO_DATA
  /\ push_at' = "idle"
  /\ UNCHANGED <<read_index, rejected_count, buff, consumerVars, to_push,
                 new_write_index, write_src, unreported>>

-----------------------------------------------------------------------------
\* The consumer.  has_item: the call has an item to set, not NULL.

\* The test for an empty ring left out.
Read_Unchecked(to_item) ==
  /\ IF to_item THEN rejected_count' = 0 /\ unreported' = FALSE /\ read_at' = "copy"
                ELSE UNCHANGED <<rejected_count, unreported>> /\ read_at' = "idle"
  /\ read_ret' = IF to_item THEN read_ret ELSE FIFO_FAILURE
  /\ UNCHANGED <<read_index, write_index, buff, producerVars,
                 new_read_index, read_src, item>>

\* The body of fifo_read(), up to the memcpy() or to its end.
Read(to_item) ==
  /\ IF to_item /\ rejected_count > 0
       THEN rejected_count' = 0 /\ unreported' = FALSE
       ELSE UNCHANGED <<rejected_count, unreported>>
  /\ IF to_item /\ rejected_count = 0 /\ read_index # write_index
       THEN read_at' = "copy" /\ UNCHANGED read_ret
       ELSE /\ read_at' = "idle"
            /\ read_ret' = IF ~to_item THEN FIFO_FAILURE
                           ELSE IF rejected_count > 0 THEN FIFO_LOST ELSE FIFO_EMPTY
  /\ UNCHANGED <<read_index, write_index, buff, producerVars,
                 new_read_index, read_src, item>>

Fifo_read ==
  /\ read_at = "idle"
  /\ has_item' \in BOOLEAN /\ Read(has_item')

\* The end of the memcpy() from the entry.
ReadCopy ==
  /\ read_at = "copy"
  /\ item' = buff[read_index]
  /\ read_ret' = FIFO_DATA
  /\ read_at' = "idle"
  /\ UNCHANGED <<ringVars, producerVars, has_item, new_read_index, read_src, unreported>>

\* Advances whether or not there is a next item.
Fifo_next_Unchecked ==
  /\ read_at = "idle"
  /\ has_item' \in BOOLEAN
  /\ read_at' = "load" /\ new_read_index' = NextIndex(read_index)
  /\ UNCHANGED <<ringVars, producerVars, read_src, item, read_ret, unreported>>

\* fifo_next() up to set_atomic(): it does not ask whether it has an item to set.
Fifo_next ==
  /\ read_at = "idle"
  /\ has_item' \in BOOLEAN
  /\ IF read_index = write_index
       THEN read_ret' = FIFO_EMPTY /\ UNCHANGED <<read_at, new_read_index>>
       ELSE /\ read_at' = "load" /\ new_read_index' = NextIndex(read_index)
            /\ UNCHANGED read_ret
  /\ UNCHANGED <<ringVars, producerVars, read_src, item, unreported>>

NextLoad ==
  /\ read_at = "load"
  /\ read_src' = read_index
  /\ read_at' = "store"
  /\ UNCHANGED <<ringVars, producerVars, has_item, new_read_index, item, read_ret, unreported>>

NextStore ==
  /\ read_at = "store"
  /\ read_index' = set_atomic(read_index, read_src, new_read_index)
  /\ read_at' = "read"
  /\ UNCHANGED <<write_index, rejected_count, buff, producerVars, has_item,
                 new_read_index, read_src, item, read_ret, unreported>>

\* The fifo_read() that ends a fifo_next().
NextRead ==
  /\ read_at = "read"
  /\ Read(has_item) /\ UNCHANGED has_item

Producer ==
  \/ \E i \in Items : Fifo_push(i)
  \/ Fifo_push_null \/ PushCopy \/ PushLoad \/ PushStore

Consumer ==
  \/ Fifo_read \/ ReadCopy
  \/ Fifo_next \/ NextLoad \/ NextStore \/ NextRead

Next == Producer \/ Consumer

Spec == Init /\ [][Next]_vars

-----------------------------------------------------------------------------
\* The items between the indices, oldest first.
Size == IF read_index <= write_index THEN write_index - read_index
                                     ELSE write_index - read_index + FIFO_MAX_ITEMS

Slot(k) == IF read_index + k <= FIFO_MAX_ITEMS THEN read_index + k - 1
                                               ELSE read_index + k - 1 - FIFO_MAX_ITEMS

contents == [k \in 1 .. Size |-> buff[Slot(k)]]

\* The consumer holds the item it was last given until it moves on.
Holding == read_ret = FIFO_DATA /\ read_at \in {"idle", "load", "store"}

\* What the threads may rely on between any two steps of theirs: what each has
\* learnt of the indices stays true while the other works.
FifoInv ==
  /\ TypeOK
  /\ rejected_count = 0
  /\ push_at # "idle" =>
       new_write_index = NextIndex(write_index) /\ new_write_index # read_index
  /\ push_at \in {"load", "store"} => buff[write_index] = to_push
  /\ push_at = "store" => write_src = write_index
  /\ read_at \in {"copy", "load", "store"} => read_index # write_index
  /\ read_at \in {"load", "store"} => new_read_index = NextIndex(read_index)
  /\ read_at = "store" => read_src = read_index
  /\ Holding => read_index # write_index /\ item = buff[read_index]

\* The two threads are never in the same entry, which memcpy() reads and writes byte
\* by byte: an item is never read half written.
NoRacingCopies ==
  push_at = "copy" /\ read_at = "copy" => write_index # read_index

\* The item fifo_read() or fifo_next() has handed out stays the oldest of the ring,
\* and in its entry, until the consumer's next fifo_next() drops it, whatever the
\* producer does: nothing but what was handed out is dropped by a consumer that
\* calls fifo_next() only to move on.
HeldItemStays ==
  Holding => contents # <<>> /\ item = Head(contents)

\* The indices, tested and moved without a lock, make a queue of one entry less than
\* the ring: a push counts when it stores its index, a refusal when it compares them,
\* a read at its copy, a fifo_next() when it stores its index.
Queue == INSTANCE BoundedQueue WITH
  Capacity <- FIFO_MAX_ITEMS - 1, queue <- contents,
  put_result <- push_ret, get_result <- read_ret

ImplementsQueue == Queue!Spec

\* fifo_read() returns "FIFO_LOST if there was rejected data on push".
LostReported ==
  [][Fifo_read /\ has_item' /\ unreported => read_ret' = FIFO_LOST]_vars
=============================================================================
