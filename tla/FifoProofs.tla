----------------------------- MODULE FifoProofs -----------------------------
(***************************************************************************)
(* Proofs about Fifo, for every size of the ring and every set of items.   *)
(***************************************************************************)
EXTENDS FifoMonitor, SequenceTheorems, TLAPS

\* The remainder by which an index wraps, without the remainder.
LEMMA NextIndexWraps ==
  ASSUME NEW i \in Indices
  PROVE  /\ NextIndex(i) = IF i + 1 = FIFO_MAX_ITEMS THEN 0 ELSE i + 1
         /\ NextIndex(i) \in Indices
BY FifoAssumption DEF NextIndex, Indices

\* set_atomic() does set the index, as long as nobody else writes it in between.
LEMMA SetAtomicSets ==
  ASSUME NEW i \in Indices, NEW value \in Indices
  PROVE  set_atomic(i, i, value) = value
BY FifoAssumption DEF set_atomic, Indices

LEMMA InitInv == Init => FifoInv
<1> SUFFICES ASSUME Init PROVE FifoInv
    OBVIOUS
<1> USE DEF Init, FIFO_FAILURE, FIFO_DATA, FIFO_EMPTY, FIFO_OVERRUN, FIFO_LOST
<1>1. 0 \in Indices
      BY FifoAssumption DEF Indices
<1>2. buff \in [Indices -> Items]
      BY FifoAssumption
<1>3. TypeOK
      BY <1>1, <1>2, FifoAssumption DEF TypeOK
<1>4. QED
      BY <1>3 DEF FifoInv, Holding

\* Every step of either thread keeps what the other relies on.
LEMMA StepInv == FifoInv /\ [Next]_vars => FifoInv'
<1> SUFFICES ASSUME FifoInv, [Next]_vars PROVE FifoInv'
    OBVIOUS
<1> USE DEF FifoInv, TypeOK, Holding, ringVars, producerVars, consumerVars
<1>1. /\ NextIndex(write_index) \in Indices
      /\ NextIndex(read_index) \in Indices
      /\ NextIndex(read_index) # read_index
      /\ read_index # write_index => NextIndex(read_index) # NextIndex(write_index)
      BY NextIndexWraps, FifoAssumption DEF Indices
<1>2. ASSUME NEW i \in Items, Fifo_push(i) PROVE FifoInv'
      BY <1>1, <1>2 DEF Fifo_push, FIFO_OVERRUN, FIFO_DATA, FIFO_FAILURE, FIFO_EMPTY
<1>3. CASE Fifo_push_null
      BY <1>3 DEF Fifo_push_null
<1>4. CASE PushCopy
      BY <1>1, <1>4 DEF PushCopy
<1>5. CASE PushLoad
      BY <1>5 DEF PushLoad
<1>6. CASE PushStore
  <2>1. write_index' = new_write_index
        BY <1>6, SetAtomicSets DEF PushStore
  <2>2. QED
        BY <1>6, <2>1 DEF PushStore
<1>7. ASSUME NEW to_item \in BOOLEAN, Read(to_item), read_at \in {"idle", "read"},
             has_item' \in BOOLEAN
      PROVE  FifoInv'
      BY <1>7 DEF Read, FIFO_LOST, FIFO_DATA, FIFO_FAILURE, FIFO_EMPTY
<1>8. CASE Fifo_read
      BY <1>7, <1>8 DEF Fifo_read
<1>9. CASE NextRead
      BY <1>7, <1>9 DEF NextRead
<1>10. CASE ReadCopy
      BY <1>10 DEF ReadCopy
<1>11. CASE Fifo_next
      BY <1>1, <1>11 DEF Fifo_next, FIFO_EMPTY, FIFO_DATA
<1>12. CASE NextLoad
      BY <1>12 DEF NextLoad
<1>13. CASE NextStore
  <2>1. read_index' = NextIndex(read_index)
        BY <1>1, <1>13, SetAtomicSets DEF NextStore
  <2>2. QED
        BY <1>1, <1>13, <2>1 DEF NextStore
<1>14. CASE UNCHANGED vars
      BY <1>14 DEF vars
<1>15. QED
      BY <1>2, <1>3, <1>4, <1>5, <1>6, <1>8, <1>9, <1>10, <1>11, <1>12, <1>13, <1>14
      DEF Next, Producer, Consumer

\* FIFO (fifo.c): what each thread has learnt of the indices stays true while the
\* other works.
THEOREM FifoInvariant == Spec => []FifoInv
BY InitInv, StepInv, PTL DEF Spec

\* fifo_push() and fifo_read() never copy to and from the same entry at once.
THEOREM NoRace == Spec => []NoRacingCopies
<1>1. FifoInv => NoRacingCopies
      BY DEF FifoInv, NoRacingCopies
<1>2. QED
      BY FifoInvariant, <1>1, PTL

-----------------------------------------------------------------------------
\* The items between the indices as a sequence: none of them is in the entry at
\* write_index, and the tests of the code tell when there are none or no room.
LEMMA ContentsFacts ==
  ASSUME FifoInv
  PROVE  /\ Size \in 0 .. FIFO_MAX_ITEMS - 1
         /\ Size = 0 <=> read_index = write_index
         /\ Size = FIFO_MAX_ITEMS - 1 <=> NextIndex(write_index) = read_index
         /\ \A k \in 1 .. Size : Slot(k) \in Indices \ {write_index}
         /\ Size # 0 => Slot(1) = read_index
         /\ contents \in Seq(Items) /\ Len(contents) = Size
<1>1. /\ read_index \in Indices /\ write_index \in Indices
      /\ buff \in [Indices -> Items]
      BY DEF FifoInv, TypeOK
<1>2. Size \in 0 .. FIFO_MAX_ITEMS - 1
      BY <1>1, FifoAssumption DEF Size, Indices
<1>3. Size = 0 <=> read_index = write_index
      BY <1>1, FifoAssumption DEF Size, Indices
<1>4. Size = FIFO_MAX_ITEMS - 1 <=> NextIndex(write_index) = read_index
      BY <1>1, NextIndexWraps, FifoAssumption DEF Size, Indices
<1>5. \A k \in 1 .. Size : Slot(k) \in Indices \ {write_index}
      BY <1>1, FifoAssumption DEF Size, Slot, Indices
<1>6. Size # 0 => Slot(1) = read_index
      BY <1>1, <1>2, FifoAssumption DEF Slot, Indices
<1>7. contents \in [1 .. Size -> Items]
      BY <1>1, <1>5 DEF contents
<1>8. contents \in Seq(Items) /\ Len(contents) = Size
      BY <1>2, <1>7
<1>9. QED
      BY <1>2, <1>3, <1>4, <1>5, <1>6, <1>8

\* What is handed out is the oldest item, in the entry at read_index.
LEMMA HeadOfContents ==
  ASSUME FifoInv, read_index # write_index
  PROVE  contents # <<>> /\ Head(contents) = buff[read_index]
<1>1. Size \in Nat /\ Size # 0 /\ Slot(1) = read_index /\ Len(contents) = Size
      BY ContentsFacts, FifoAssumption
<1>2. contents[1] = buff[read_index]
      BY <1>1 DEF contents
<1>3. contents # <<>>
      BY <1>1
<1>4. QED
      BY <1>1, <1>2, <1>3, ContentsFacts

\* FIFO (fifo.c): an item handed out stays the oldest and in its entry until the
\* consumer moves on.
THEOREM HeldItem == Spec => []HeldItemStays
<1>1. FifoInv => HeldItemStays
      BY HeadOfContents DEF FifoInv, HeldItemStays
<1>2. QED
      BY FifoInvariant, <1>1, PTL

\* The steps that leave the indices and the entries alone leave the items alone.
LEMMA ContentsUnchanged ==
  ASSUME UNCHANGED <<read_index, write_index, buff>>
  PROVE  contents' = contents
BY DEF contents, Size, Slot

\* The entry being written is not yet among the items.
LEMMA CopyUnseen ==
  ASSUME FifoInv, PushCopy
  PROVE  contents' = contents
<1>1. /\ read_index' = read_index /\ write_index' = write_index
      /\ buff' = [buff EXCEPT ![write_index] = to_push]
      /\ buff \in [Indices -> Items]
      BY DEF PushCopy, FifoInv, TypeOK
<1>2. Size' = Size /\ \A k : Slot(k)' = Slot(k)
      BY <1>1 DEF Size, Slot
<1>3. \A k \in 1 .. Size : buff'[Slot(k)] = buff[Slot(k)]
      BY <1>1, ContentsFacts
<1>4. QED
      BY <1>2, <1>3 DEF contents

\* Storing write_index appends the item.
LEMMA StoreAppends ==
  ASSUME FifoInv, PushStore
  PROVE  Len(contents) < FIFO_MAX_ITEMS - 1 /\ contents' = Append(contents, to_push)
<1>1. /\ read_index' = read_index /\ buff' = buff
      /\ write_index' = NextIndex(write_index)
      /\ NextIndex(write_index) # read_index
      /\ buff[write_index] = to_push
      /\ read_index \in Indices /\ write_index \in Indices
      BY SetAtomicSets DEF PushStore, FifoInv, TypeOK
<1>2. Size \in Nat /\ Size < FIFO_MAX_ITEMS - 1 /\ Len(contents) = Size
      /\ contents \in Seq(Items)
      BY <1>1, ContentsFacts, FifoAssumption
<1>3. Size' = Size + 1
      BY <1>1, NextIndexWraps, FifoAssumption DEF Size, Indices
<1>4. Slot(Size + 1) = write_index
      BY <1>1, FifoAssumption DEF Size, Slot, Indices
<1>5. contents' = [k \in 1 .. Size + 1 |-> buff[Slot(k)]]
      BY <1>1, <1>3 DEF contents, Slot
<1>6. \A k \in 1 .. Size + 1 :
        buff[Slot(k)] = IF k = Size + 1 THEN to_push ELSE contents[k]
      BY <1>1, <1>2, <1>4 DEF contents
<1>7. to_push \in Items
      BY DEF FifoInv, TypeOK
<1>8. /\ contents' \in Seq(Items) /\ Len(contents') = Size + 1
      /\ \A k \in 1 .. Size : contents'[k] = contents[k]
      /\ contents'[Size + 1] = to_push
  <2>1. \A k \in 1 .. Size : contents[k] \in Items
        BY <1>2, ElementOfSeq
  <2>2. contents' \in [1 .. Size + 1 -> Items]
        BY <1>2, <1>5, <1>6, <1>7, <2>1
  <2>3. QED
        BY <1>2, <1>5, <1>6, <2>2
<1>9. contents' = Append(contents, to_push)
      BY <1>2, <1>7, <1>8, AppendProperties, SeqEqual
<1>10. QED
      BY <1>2, <1>9

\* Storing read_index drops the oldest item.
LEMMA StoreDrops ==
  ASSUME FifoInv, NextStore
  PROVE  contents # <<>> /\ contents' = Tail(contents)
<1>1. /\ write_index' = write_index /\ buff' = buff
      /\ read_index' = NextIndex(read_index)
      /\ read_index # write_index
      /\ read_index \in Indices /\ write_index \in Indices
      BY NextIndexWraps, SetAtomicSets DEF NextStore, FifoInv, TypeOK
<1>2. /\ Size \in Nat /\ Size # 0 /\ Size < FIFO_MAX_ITEMS
      /\ Len(contents) = Size /\ contents \in Seq(Items)
      BY <1>1, ContentsFacts, FifoAssumption
<1>3. Size' = Size - 1
      BY <1>1, NextIndexWraps, FifoAssumption DEF Size, Indices
<1>4. \A k \in 1 .. Size - 1 : Slot(k)' = Slot(k + 1)
  <2>1. read_index' = IF read_index + 1 = FIFO_MAX_ITEMS THEN 0 ELSE read_index + 1
        BY <1>1, NextIndexWraps
  <2>2. SUFFICES ASSUME NEW k \in Nat \ {0}, k < FIFO_MAX_ITEMS PROVE Slot(k)' = Slot(k + 1)
        BY <1>2, FifoAssumption
  <2>3. QED
        BY <1>1, <2>1, <2>2, FifoAssumption DEF Slot, Indices
<1>5. contents' = [k \in 1 .. Size - 1 |-> buff[Slot(k)']]
      BY <1>1, <1>3 DEF contents
<1>6. \A k \in 1 .. Size - 1 : buff[Slot(k)'] = contents[k + 1]
      BY <1>2, <1>4 DEF contents
<1>7. contents' \in Seq(Items) /\ Len(contents') = Size - 1
  <2>1. \A k \in 1 .. Size - 1 : contents[k + 1] \in Items
        BY <1>2, ElementOfSeq
  <2>2. contents' \in [1 .. Size - 1 -> Items]
        BY <1>5, <1>6, <2>1
  <2>3. QED
        BY <1>2, <2>2
<1>8. contents # <<>>
      BY <1>2
<1>9. contents' = Tail(contents)
  <2>1. \A k \in 1 .. Size - 1 : contents'[k] = Tail(contents)[k]
        BY <1>2, <1>5, <1>6, <1>8, HeadTailProperties
  <2>2. QED
        BY <1>2, <1>7, <1>8, <2>1, HeadTailProperties, SeqEqual
<1>10. QED
      BY <1>8, <1>9

\* A step of the ring is a step of the queue, or none.
LEMMA StepSimulation == FifoInv /\ [Next]_vars => [Queue!Next]_Queue!vars
<1> SUFFICES ASSUME FifoInv, [Next]_vars PROVE [Queue!Next]_Queue!vars
    OBVIOUS
<1> USE DEF Queue!vars, ringVars, producerVars, consumerVars
<1>1. Len(contents) = Size /\ contents \in Seq(Items)
      BY ContentsFacts
<1>2. ASSUME NEW i \in Items, Fifo_push(i) PROVE [Queue!Next]_Queue!vars
  <2>1. contents' = contents
        BY <1>2, ContentsUnchanged DEF Fifo_push
  <2>2. CASE new_write_index' = read_index
    <3>1. Len(contents) = FIFO_MAX_ITEMS - 1
          BY <1>1, <1>2, <2>2, ContentsFacts DEF Fifo_push
    <3>2. Queue!Refuse
          BY <1>2, <2>1, <2>2, <3>1
          DEF Fifo_push, Queue!Refuse, FIFO_OVERRUN, Queue!FIFO_OVERRUN
    <3>3. QED
          BY <3>2 DEF Queue!Next
  <2>3. CASE new_write_index' # read_index
        BY <1>2, <2>1, <2>3 DEF Fifo_push
  <2>4. QED
        BY <2>2, <2>3
<1>3. CASE Fifo_push_null
  <2>1. contents' = contents
        BY <1>3, ContentsUnchanged DEF Fifo_push_null
  <2>2. Queue!PutNothing
        BY <1>3, <2>1
        DEF Fifo_push_null, Queue!PutNothing, FIFO_FAILURE, Queue!FIFO_FAILURE
  <2>3. QED
        BY <2>2 DEF Queue!Next
<1>4. CASE PushCopy
      BY <1>4, CopyUnseen DEF PushCopy
<1>5. CASE PushLoad
      BY <1>5, ContentsUnchanged DEF PushLoad
<1>6. CASE PushStore
  <2>1. Queue!Put(to_push) /\ to_push \in Items
        BY <1>6, StoreAppends
        DEF PushStore, Queue!Put, FIFO_DATA, Queue!FIFO_DATA, FifoInv, TypeOK
  <2>2. QED
        BY <2>1 DEF Queue!Next
<1>7. ASSUME NEW to_item \in BOOLEAN, Read(to_item) PROVE [Queue!Next]_Queue!vars
  <2>1. contents' = contents /\ rejected_count = 0
        BY <1>7, ContentsUnchanged DEF Read, FifoInv
  <2>2. CASE ~to_item
    <3>1. Queue!GetNowhere
          BY <1>7, <2>1, <2>2
          DEF Read, Queue!GetNowhere, FIFO_FAILURE, Queue!FIFO_FAILURE
    <3>2. QED
          BY <3>1 DEF Queue!Next
  <2>3. CASE to_item /\ read_index # write_index
        BY <1>7, <2>1, <2>3 DEF Read
  <2>4. CASE to_item /\ read_index = write_index
    <3>1. contents = <<>>
          BY <1>1, <2>4, ContentsFacts
    <3>2. Queue!GetNothing
          BY <1>7, <2>1, <2>4, <3>1
          DEF Read, Queue!GetNothing, FIFO_EMPTY, Queue!FIFO_EMPTY
    <3>3. QED
          BY <3>2 DEF Queue!Next
  <2>5. QED
        BY <2>2, <2>3, <2>4
<1>8. CASE Fifo_read
      BY <1>7, <1>8 DEF Fifo_read
<1>9. CASE NextRead
      BY <1>7, <1>9 DEF NextRead, FifoInv, TypeOK
<1>10. CASE ReadCopy
  <2>1. read_index # write_index
        BY <1>10 DEF ReadCopy, FifoInv
  <2>2. Queue!Get
        BY <1>10, <2>1, HeadOfContents, ContentsUnchanged
        DEF ReadCopy, Queue!Get, FIFO_DATA, Queue!FIFO_DATA
  <2>3. QED
        BY <2>2 DEF Queue!Next
<1>11. CASE Fifo_next
  <2>1. contents' = contents
        BY <1>11, ContentsUnchanged DEF Fifo_next
  <2>2. CASE read_index = write_index
    <3>1. contents = <<>>
          BY <1>1, <2>2, ContentsFacts
    <3>2. Queue!GetNothing
          BY <1>11, <2>1, <2>2, <3>1
          DEF Fifo_next, Queue!GetNothing, FIFO_EMPTY, Queue!FIFO_EMPTY
    <3>3. QED
          BY <3>2 DEF Queue!Next
  <2>3. CASE read_index # write_index
        BY <1>11, <2>1, <2>3 DEF Fifo_next
  <2>4. QED
        BY <2>2, <2>3
<1>12. CASE NextLoad
      BY <1>12, ContentsUnchanged DEF NextLoad
<1>13. CASE NextStore
  <2>1. Queue!Drop
        BY <1>13, StoreDrops DEF NextStore, Queue!Drop
  <2>2. QED
        BY <2>1 DEF Queue!Next
<1>14. CASE UNCHANGED vars
      BY <1>14, ContentsUnchanged DEF vars
<1>15. QED
      BY <1>2, <1>3, <1>4, <1>5, <1>6, <1>8, <1>9, <1>10, <1>11, <1>12, <1>13, <1>14
      DEF Next, Producer, Consumer

\* FIFO (fifo.c): two threads that follow it step by step see a bounded queue, with
\* room for one item less than the ring has entries.
THEOREM RingImplementsQueue == Spec => ImplementsQueue
<1>1. Init => Queue!Init
  <2>1. SUFFICES ASSUME Init PROVE contents = <<>>
        BY DEF Init, Queue!Init, FIFO_EMPTY, Queue!FIFO_EMPTY
  <2>2. Size = 0
        BY <2>1 DEF Init, Size
  <2>3. QED
        BY <2>2 DEF contents
<1>2. QED
      BY <1>1, FifoInvariant, StepSimulation, PTL DEF Spec, ImplementsQueue, Queue!Spec

-----------------------------------------------------------------------------
\* The monitored FIFO is the FIFO.
LEMMA MonitorIsFifo == MonitorSpec => Spec
<1>1. MonitorInit => Init
      BY DEF MonitorInit
<1>2. [MonitorNext]_mvars => [Next]_vars
      BY DEF MonitorNext, CallRead, CallNext, HandOut, DropOldest, Next, Consumer, mvars
<1>3. QED
      BY <1>1, <1>2, PTL DEF MonitorSpec, Spec

\* An orderly consumer holds the oldest item when, and only when, it was handed out.
HandedInv ==
  /\ orderly \in BOOLEAN
  /\ orderly => /\ handed = IF Holding THEN 1 ELSE 0
                /\ read_at \in {"load", "store"} => Holding

\* Every step of either thread keeps that.
LEMMA StepHanded == FifoInv /\ HandedInv /\ [MonitorNext]_mvars => HandedInv'
<1> SUFFICES ASSUME FifoInv, HandedInv, [MonitorNext]_mvars PROVE HandedInv'
    OBVIOUS
<1> USE DEF HandedInv, Holding, monitor
<1>1. read_ret \in {FIFO_FAILURE, FIFO_DATA, FIFO_EMPTY, FIFO_LOST}
      BY DEF FifoInv, TypeOK
<1>2. /\ FIFO_FAILURE # FIFO_DATA /\ FIFO_EMPTY # FIFO_DATA /\ FIFO_LOST # FIFO_DATA
      BY DEF FIFO_FAILURE, FIFO_DATA, FIFO_EMPTY, FIFO_LOST
<1>3. CASE Producer /\ UNCHANGED monitor
  <2>1. UNCHANGED <<read_at, read_ret>>
        BY <1>3 DEF Producer, Fifo_push, Fifo_push_null, PushCopy, PushLoad, PushStore,
                    consumerVars
  <2>2. QED
        BY <1>3, <2>1
<1>4. CASE NextLoad /\ UNCHANGED monitor
      BY <1>4 DEF NextLoad
<1>5. ASSUME NEW to_item, Read(to_item)
      PROVE  \/ read_at' = "copy" /\ read_ret' = read_ret
             \/ read_at' = "idle" /\ read_ret' # FIFO_DATA
      BY <1>2, <1>5 DEF Read
<1>6. CASE NextRead /\ UNCHANGED monitor
  <2>1. read_at = "read" /\ Read(has_item)
        BY <1>6 DEF NextRead
  <2>2. QED
        BY <1>5, <1>6, <2>1
<1>7. CASE CallRead
  <2>1. read_at = "idle" /\ Read(has_item') /\ handed' = handed
        /\ orderly' = (orderly /\ read_ret # FIFO_DATA)
        BY <1>7 DEF CallRead, Fifo_read
  <2>2. QED
        BY <1>5, <2>1
<1>8. CASE CallNext
  <2>1. /\ read_at = "idle" /\ handed' = handed
        /\ orderly' = (orderly /\ read_ret = FIFO_DATA)
        /\ \/ read_index = write_index
           \/ read_at' = "load" /\ read_ret' = read_ret
        BY <1>8 DEF CallNext, Fifo_next
  <2>2. orderly' => read_index # write_index
        BY <2>1 DEF FifoInv
  <2>3. orderly' \in BOOLEAN
        BY <2>1
  <2>4. QED
        BY <2>1, <2>2, <2>3
<1>9. CASE HandOut
  <2>1. /\ read_at = "copy" /\ read_at' = "idle" /\ read_ret' = FIFO_DATA
        /\ handed' = (IF handed = 2 THEN 2 ELSE handed + 1) /\ orderly' = orderly
        BY <1>9 DEF HandOut, ReadCopy
  <2>2. QED
        BY <2>1
<1>10. CASE DropOldest
       BY <1>10 DEF DropOldest, NextStore
<1>11. CASE UNCHANGED mvars
       BY <1>11 DEF mvars, vars, consumerVars
<1>12. QED
       BY <1>3, <1>4, <1>6, <1>7, <1>8, <1>9, <1>10, <1>11 DEF MonitorNext

\* FIFO (fifo.c): a consumer that reads before it moves on, and moves on before it reads
\* again, is given every item exactly once, for every size of the ring.
THEOREM ItemsHandedOutOnce == MonitorSpec => HandedOutOnce
<1>1. MonitorInit => HandedInv
      BY DEF MonitorInit, Init, HandedInv, Holding, FIFO_EMPTY, FIFO_DATA
<1>2. MonitorSpec => [](FifoInv /\ HandedInv)
      BY <1>1, MonitorIsFifo, FifoInvariant, StepHanded, PTL DEF MonitorSpec
<1>3. ASSUME FifoInv, HandedInv, NextStore, orderly
      PROVE  handed = 1 /\ contents # <<>> /\ item = Head(contents)
  <2>1. Holding /\ handed = 1
        BY <1>3 DEF NextStore, HandedInv
  <2>2. read_index # write_index /\ item = buff[read_index]
        BY <1>3, <2>1 DEF FifoInv
  <2>3. QED
        BY <1>3, <2>1, <2>2, HeadOfContents
<1>4. FifoInv /\ HandedInv
        => [NextStore /\ orderly
              => handed = 1 /\ contents # <<>> /\ item = Head(contents)]_mvars
      BY <1>3
<1>5. QED
      BY <1>2, <1>4, PTL DEF HandedOutOnce
=============================================================================
