---------------------------- MODULE FifoMonitor -----------------------------
(***************************************************************************)
(* Fifo with a count of how often its oldest item was handed out, which    *)
(* the code does not keep: fifo_next() drops that item unread or not.      *)
(***************************************************************************)
EXTENDS Fifo

VARIABLES
  handed,    \* how often the oldest item was handed out: 0, 1, or 2 for more
  orderly    \* the consumer has only called fifo_read() after a call that gave it
             \* nothing, and fifo_next() after one that gave it an item

monitor == <<handed, orderly>>

mvars == <<vars, monitor>>

MonitorInit == Init /\ handed = 0 /\ orderly = TRUE

CallRead ==
  /\ Fifo_read
  /\ orderly' = (orderly /\ read_ret # FIFO_DATA) /\ UNCHANGED handed

CallNext ==
  /\ Fifo_next
  /\ orderly' = (orderly /\ read_ret = FIFO_DATA) /\ UNCHANGED handed

HandOut ==
  /\ ReadCopy
  /\ handed' = (IF handed = 2 THEN 2 ELSE handed + 1)
  /\ UNCHANGED orderly

DropOldest == NextStore /\ handed' = 0 /\ UNCHANGED orderly

MonitorNext ==
  \/ (Producer \/ NextLoad \/ NextRead) /\ UNCHANGED monitor
  \/ CallRead \/ CallNext \/ HandOut \/ DropOldest

MonitorSpec == MonitorInit /\ [][MonitorNext]_mvars

-----------------------------------------------------------------------------
\* An orderly consumer loses no item and is given none twice: what fifo_next() drops
\* is what the consumer holds, and it was handed out exactly once, through empty rings,
\* calls that failed for want of an item to set, and any pushes meanwhile.
HandedOutOnce ==
  [][NextStore /\ orderly => handed = 1 /\ contents # <<>> /\ item = Head(contents)]_mvars
=============================================================================
