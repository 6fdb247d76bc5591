-------------------------- MODULE FastOrderProofs --------------------------
(***************************************************************************)
(* The order of the frames, from the camera to the disk, for any limits of *)
(* the queues.                                                             *)
(***************************************************************************)
EXTENDS FastProofs

Elements(queue) == {queue[i] : i \in 1..Len(queue)}

\* What the camera caused travels in the order in which it happened: frames
\* in the order of their acquisition, and the end of an acquisition behind
\* all of its frames.  Messages that a client caused may be anywhere.
MayPrecede(x, y) ==
    x.upto >= 0 /\ y.upto >= 0 =>
        /\ x.upto <= y.upto
        /\ IsImage(y) /\ x.upto = y.upto => x.event = "AVERAGE_IMAGE"

Precede(X, Y) == \A x \in X, y \in Y : MayPrecede(x, y)
Sorted(queue) ==
    \A i, j \in 1..Len(queue) : i < j => MayPrecede(queue[i], queue[j])

\* Everything that the storage thread and the queues on the way to it hold.
OnTheWay == {storageHand} \cup Elements(storageQueue) \cup Elements(outbox)
              \cup Elements(serverQueue)

InOrder ==
    /\ Sorted(storageQueue) /\ Sorted(outbox) /\ Sorted(serverQueue)
    /\ Precede({storageHand}, Elements(storageQueue))
    /\ Precede({storageHand} \cup Elements(storageQueue), Elements(outbox))
    /\ Precede({storageHand} \cup Elements(storageQueue) \cup Elements(outbox),
               Elements(serverQueue))

OldEnough ==
    /\ \A x \in OnTheWay : x.upto <= Len(acquired)
    /\ \A i \in 1..Len(written) : written[i] <= Len(acquired)

BehindWritten ==
    \A x \in OnTheWay : IsImage(x) =>
        \A i \in 1..Len(written) : written[i] < x.upto

OrderOK == InOrder /\ OldEnough /\ BehindWritten /\ WrittenInOrder

-----------------------------------------------------------------------------
(* Queues.                                                                 *)

LEMMA ShiftOrder ==
    ASSUME NEW S, NEW q \in Seq(S), Sorted(q)
    PROVE  /\ Sorted(QueueShift(q))
           /\ Elements(QueueShift(q)) \subseteq Elements(q)
           /\ q # <<>> => /\ Head(q) \in Elements(q)
                          /\ Precede({Head(q)}, Elements(QueueShift(q)))
<1>1. CASE q = <<>>
  BY <1>1 DEF QueueShift
<1>2. CASE q # <<>>
  <2>1. /\ Len(QueueShift(q)) = Len(q) - 1 /\ Len(q) \in Nat \ {0}
        /\ \A i \in 1..(Len(q) - 1) : QueueShift(q)[i] = q[i + 1]
        /\ Head(q) = q[1]
    BY <1>2, ShiftElements
  <2>2. Sorted(QueueShift(q))
    BY <2>1 DEF Sorted
  <2>3. Elements(QueueShift(q)) \subseteq Elements(q)
    BY <2>1 DEF Elements
  <2>4. Head(q) \in Elements(q)
    BY <2>1 DEF Elements
  <2>5. Precede({Head(q)}, Elements(QueueShift(q)))
    <3> SUFFICES ASSUME NEW i \in 1..Len(QueueShift(q))
                 PROVE  MayPrecede(q[1], QueueShift(q)[i])
      BY <2>1 DEF Precede, Elements
    <3>1. 1 \in 1..Len(q) /\ i + 1 \in 1..Len(q) /\ 1 < i + 1
      BY <2>1
    <3>2. QueueShift(q)[i] = q[i + 1]
      BY <2>1
    <3> QED BY <3>1, <3>2 DEF Sorted
  <2> QED BY <2>2, <2>3, <2>4, <2>5
<1> QED BY <1>1, <1>2

LEMMA AddOrder ==
    ASSUME NEW S, NEW q \in Seq(S), NEW m \in S, NEW limit, Sorted(q),
           Precede(Elements(q), {m})
    PROVE  /\ Sorted(QueueAdd(q, m, limit))
           /\ Elements(QueueAdd(q, m, limit)) \subseteq Elements(q) \cup {m}
<1> DEFINE rest == IF QueueIsFull(q, limit) THEN QueueShift(q) ELSE q
<1>1. /\ rest \in Seq(S) /\ Sorted(rest)
      /\ Elements(rest) \subseteq Elements(q)
  BY ShiftType, ShiftOrder
<1>2. QueueAdd(q, m, limit) = Append(rest, m)
  BY DEF QueueAdd
<1> HIDE DEF rest
<1>3. /\ Len(Append(rest, m)) = Len(rest) + 1 /\ Len(rest) \in Nat
      /\ \A i \in 1..Len(rest) : Append(rest, m)[i] = rest[i]
      /\ Append(rest, m)[Len(rest) + 1] = m
  BY <1>1, AppendProperties, LenProperties
<1>4. Elements(Append(rest, m)) \subseteq Elements(rest) \cup {m}
  BY <1>3 DEF Elements
<1>5. Sorted(Append(rest, m))
  <2> SUFFICES ASSUME NEW i \in 1..(Len(rest) + 1), NEW j \in 1..(Len(rest) + 1),
                      i < j
               PROVE  MayPrecede(Append(rest, m)[i], Append(rest, m)[j])
    BY <1>3 DEF Sorted
  <2>1. i \in 1..Len(rest) /\ Append(rest, m)[i] = rest[i]
    BY <1>3
  <2>2. CASE j \in 1..Len(rest)
    BY <1>1, <1>3, <2>1, <2>2 DEF Sorted
  <2>3. CASE j = Len(rest) + 1
    <3>1. rest[i] \in Elements(q)
      BY <1>1, <2>1 DEF Elements
    <3> QED BY <1>3, <2>1, <2>3, <3>1 DEF Precede
  <2> QED BY <1>3, <2>2, <2>3
<1> QED BY <1>1, <1>2, <1>4, <1>5

LEMMA EmptyOrder == Sorted(<<>>) /\ Elements(<<>>) = {}
BY DEF Sorted, Elements

LEMMA OnTheWayTypes ==
    ASSUME TypeOK
    PROVE  /\ \A x \in OnTheWay : x.upto \in Int /\ (IsImage(x) => x.upto \in Nat)
           /\ \A x \in Elements(serverQueue) : x.event # "AVERAGE_IMAGE"
           /\ Len(acquired) \in Nat /\ Len(written) \in Nat
           /\ \A i \in 1..Len(written) : written[i] \in Nat
<1>1. /\ Elements(storageQueue) \subseteq StorageMessages
      /\ Elements(serverQueue) \subseteq ServerMessages
      /\ Elements(outbox) \subseteq MainMessages
  BY DEF TypeOK, QueuesOK, MainOK, Elements
<1>2. storageHand \in StorageMessages \cup Messages({"NONE"})
  BY DEF TypeOK, StorageOK
<1>3. \A x \in StorageMessages \cup ServerMessages \cup MainMessages
                \cup Messages({"NONE"}) :
         x.upto \in Int /\ (IsImage(x) => x.upto \in Nat)
  BY DEF StorageMessages, ServerMessages, MainMessages, Messages
<1>4. \A x \in ServerMessages : x.event # "AVERAGE_IMAGE"
  BY DEF ServerMessages, Messages
<1>5. /\ Len(acquired) \in Nat /\ Len(written) \in Nat
      /\ \A i \in 1..Len(written) : written[i] \in Nat
  BY LenProperties DEF TypeOK, HistoryOK
<1> QED BY <1>1, <1>2, <1>3, <1>4, <1>5 DEF OnTheWay

-----------------------------------------------------------------------------
(* The steps.  Most of them add at most some messages to what is on its    *)
(* way, and write nothing.                                                 *)

Harmless(x) ==
    /\ x.upto <= Len(acquired)
    /\ IsImage(x) => \A i \in 1..Len(written) : written[i] < x.upto

LEMMA NothingWritten ==
    ASSUME TypeOK, OrderOK, UNCHANGED <<acquired, written>>,
           \A x \in OnTheWay' : x \in OnTheWay \/ Harmless(x)
    PROVE  OldEnough' /\ BehindWritten' /\ WrittenInOrder'
BY DEF OrderOK, OldEnough, BehindWritten, WrittenInOrder, Harmless

\* The grabber thread adds what it caused: behind everything else.
LEMMA ToServerOrder ==
    ASSUME TypeOK, OrderOK, NEW m \in ServerMessages, ToServer(m),
           UNCHANGED <<storageHand, storageQueue, outbox, written>>,
           Len(acquired') >= Len(acquired), Len(acquired') \in Nat,
           m.upto = Len(acquired'),
           IsImage(m) => m.upto > Len(acquired)
    PROVE  OrderOK'
<1>1. \A x \in OnTheWay : MayPrecede(x, m)
  BY OnTheWayTypes DEF OrderOK, OldEnough, MayPrecede
<1>2. Precede(Elements(serverQueue), {m})
  BY <1>1 DEF Precede, OnTheWay
<1>3. /\ Sorted(serverQueue')
      /\ Elements(serverQueue') \subseteq Elements(serverQueue) \cup {m}
  BY <1>2, AddOrder DEF TypeOK, QueuesOK, ToServer, OrderOK, InOrder
<1>4. InOrder'
  <2>1. Precede({storageHand} \cup Elements(storageQueue) \cup Elements(outbox),
                Elements(serverQueue'))
    BY <1>1, <1>3 DEF OrderOK, InOrder, Precede, OnTheWay
  <2> QED BY <1>3, <2>1 DEF OrderOK, InOrder
<1>5. \A x \in OnTheWay' : x \in OnTheWay \/ x = m
  BY <1>3 DEF OnTheWay
<1>6. OldEnough'
  BY <1>5, OnTheWayTypes DEF OrderOK, OldEnough
<1>7. BehindWritten'
  BY <1>5, OnTheWayTypes DEF OrderOK, OldEnough, BehindWritten
<1> QED BY <1>4, <1>6, <1>7 DEF OrderOK, WrittenInOrder

\* A message of the grabber thread becomes at most an average and a message.
LEMMA MainGetOrder ==
    ASSUME TypeOK, OrderOK, outbox = <<>>, serverQueue # <<>>,
           serverQueue' = QueueShift(serverQueue),
           UNCHANGED <<storageHand, storageQueue, written, acquired>>,
           Sorted(outbox'),
           \A z \in Elements(outbox') :
               /\ z.upto = Head(serverQueue).upto
               /\ IsImage(z) => IsImage(Head(serverQueue))
    PROVE  OrderOK'
<1> DEFINE m == Head(serverQueue)
<1>1. /\ Sorted(serverQueue')
      /\ Elements(serverQueue') \subseteq Elements(serverQueue)
      /\ m \in Elements(serverQueue)
      /\ Precede({m}, Elements(serverQueue'))
  BY ShiftOrder DEF TypeOK, QueuesOK, OrderOK, InOrder
<1>2. m \in OnTheWay /\ m.event # "AVERAGE_IMAGE"
  BY <1>1, OnTheWayTypes DEF OnTheWay
<1> HIDE DEF m
<1>3. Precede({storageHand} \cup Elements(storageQueue), Elements(outbox'))
  <2>1. \A x \in {storageHand} \cup Elements(storageQueue) : MayPrecede(x, m)
    BY <1>1 DEF OrderOK, InOrder, Precede
  <2> QED BY <2>1 DEF Precede, MayPrecede, m
<1>4. Precede(Elements(outbox'), Elements(serverQueue'))
  BY <1>1, <1>2 DEF Precede, MayPrecede, m
<1>5. Precede({storageHand} \cup Elements(storageQueue), Elements(serverQueue'))
  BY <1>1 DEF OrderOK, InOrder, Precede
<1>6. InOrder'
  <2>1. Precede({storageHand} \cup Elements(storageQueue) \cup Elements(outbox'),
                Elements(serverQueue'))
    BY <1>4, <1>5 DEF Precede
  <2> QED BY <1>1, <1>3, <2>1 DEF OrderOK, InOrder
<1>7. Harmless(m)
  BY <1>2 DEF OrderOK, OldEnough, BehindWritten, Harmless
<1>8. \A z \in Elements(outbox') : Harmless(z)
  BY <1>7 DEF Harmless, m
<1>9. \A x \in OnTheWay' : x \in OnTheWay \/ Harmless(x)
  BY <1>1, <1>8 DEF OnTheWay
<1> QED BY <1>6, <1>9, NothingWritten DEF OrderOK

\* What is added to storage_queue comes from the outbox, or from a client.
LEMMA ToStorageOrder ==
    ASSUME TypeOK, OrderOK, NEW m \in StorageMessages, ToStorage(m),
           UNCHANGED <<storageHand, serverQueue, acquired, written>>,
           Sorted(outbox'), Elements(outbox') \subseteq Elements(outbox),
           \A x \in {storageHand} \cup Elements(storageQueue) : MayPrecede(x, m),
           Precede({m}, Elements(outbox') \cup Elements(serverQueue)),
           Harmless(m)
    PROVE  OrderOK'
<1>1. /\ Sorted(storageQueue')
      /\ Elements(storageQueue') \subseteq Elements(storageQueue) \cup {m}
  <2>1. Precede(Elements(storageQueue), {m})
    BY DEF Precede
  <2> QED BY <2>1, AddOrder DEF TypeOK, QueuesOK, ToStorage, OrderOK, InOrder
<1>2. InOrder'
  <2>1. Precede({storageHand}, Elements(storageQueue'))
    BY <1>1 DEF OrderOK, InOrder, Precede
  <2>2. Precede({storageHand} \cup Elements(storageQueue'), Elements(outbox'))
    BY <1>1 DEF OrderOK, InOrder, Precede
  <2>3. Precede({storageHand} \cup Elements(storageQueue') \cup Elements(outbox'),
                Elements(serverQueue))
    BY <1>1 DEF OrderOK, InOrder, Precede
  <2> QED BY <1>1, <2>1, <2>2, <2>3 DEF OrderOK, InOrder
<1>3. \A x \in OnTheWay' : x \in OnTheWay \/ Harmless(x)
  BY <1>1 DEF OnTheWay
<1> QED BY <1>2, <1>3, NothingWritten DEF OrderOK

LEMMA StorageGetOrder ==
    ASSUME TypeOK, OrderOK, StorageGet
    PROVE  OrderOK'
<1>1. /\ storageQueue # <<>> /\ storageQueue' = QueueShift(storageQueue)
      /\ storageHand' = Head(storageQueue)
      /\ UNCHANGED <<serverQueue, outbox, acquired, written>>
  BY DEF StorageGet, mainVars, history
<1>2. /\ Sorted(storageQueue')
      /\ Elements(storageQueue') \subseteq Elements(storageQueue)
      /\ storageHand' \in Elements(storageQueue)
      /\ Precede({storageHand'}, Elements(storageQueue'))
  BY <1>1, ShiftOrder DEF TypeOK, QueuesOK, OrderOK, InOrder
<1>3. InOrder'
  <2>1. {storageHand'} \cup Elements(storageQueue') \subseteq Elements(storageQueue)
    BY <1>2
  <2>2. Precede({storageHand'} \cup Elements(storageQueue'), Elements(outbox))
    BY <2>1 DEF OrderOK, InOrder, Precede
  <2>3. Precede({storageHand'} \cup Elements(storageQueue') \cup Elements(outbox),
                Elements(serverQueue))
    BY <2>1 DEF OrderOK, InOrder, Precede
  <2> QED BY <1>1, <1>2, <2>2, <2>3 DEF OrderOK, InOrder
<1>4. \A x \in OnTheWay' : x \in OnTheWay
  BY <1>1, <1>2 DEF OnTheWay
<1> QED BY <1>1, <1>3, <1>4, NothingWritten DEF OrderOK

\* The hand of the storage thread is emptied.
LEMMA HandledOrder ==
    ASSUME OrderOK, storageHand' = Order("NONE"),
           UNCHANGED <<storageQueue, serverQueue, outbox>>
    PROVE  InOrder' /\ (\A x \in OnTheWay' : x \in OnTheWay \/ x = Order("NONE"))
<1>1. \A y : MayPrecede(Order("NONE"), y)
  BY DEF MayPrecede, Order, Message
<1>2. Precede({storageHand'}, Elements(storageQueue) \cup Elements(outbox)
                                \cup Elements(serverQueue))
  BY <1>1 DEF Precede
<1>3. InOrder'
  BY <1>2 DEF OrderOK, InOrder, Precede
<1>4. \A x \in OnTheWay' : x \in OnTheWay \/ x = Order("NONE")
  BY DEF OnTheWay
<1> QED BY <1>3, <1>4

LEMMA StorageHandleOrder ==
    ASSUME TypeOK, OrderOK,
           \/ StorageStart \/ StorageStop \/ StorageDiscard
           \/ StorageAverage \/ StorageExit
    PROVE  OrderOK'
<1>1. /\ storageHand' = Order("NONE")
      /\ UNCHANGED <<storageQueue, serverQueue, outbox, acquired, written>>
  BY DEF StorageStart, StorageStop, StorageDiscard, StorageAverage,
         StorageExit, StorageHandle, queues, mainVars
<1>2. InOrder' /\ (\A x \in OnTheWay' : x \in OnTheWay \/ x = Order("NONE"))
  BY <1>1, HandledOrder
<1>3. Harmless(Order("NONE"))
  BY OnTheWayTypes DEF Harmless, Order, Message, IsImage
<1> QED BY <1>1, <1>2, <1>3, NothingWritten DEF OrderOK

LEMMA StorageImageOrder ==
    ASSUME TypeOK, OrderOK, StorageImage
    PROVE  OrderOK'
<1> DEFINE k == storageHand.upto
<1>1. /\ storageHand' = Order("NONE") /\ IsImage(storageHand)
      /\ UNCHANGED <<storageQueue, serverQueue, outbox, acquired>>
      /\ written' = Append(written, k)
  BY DEF StorageImage, StorageHandle, queues, mainVars, IsImage
<1>2. storageHand \in OnTheWay
  BY DEF OnTheWay
<1>3. k \in Nat /\ k <= Len(acquired) /\ \A i \in 1..Len(written) : written[i] < k
  BY <1>1, <1>2, OnTheWayTypes DEF OrderOK, OldEnough, BehindWritten
<1>4. /\ Len(written') = Len(written) + 1 /\ Len(written) \in Nat
      /\ \A i \in 1..Len(written) : written'[i] = written[i]
      /\ written'[Len(written) + 1] = k
      /\ DOMAIN written' = 1..(Len(written) + 1)
      /\ DOMAIN written = 1..Len(written)
  BY <1>1, <1>3, AppendProperties, LenProperties DEF TypeOK, HistoryOK
<1>5. InOrder' /\ (\A x \in OnTheWay' : x \in OnTheWay \/ x = Order("NONE"))
  BY <1>1, HandledOrder
<1>6. \A x \in OnTheWay' : IsImage(x) => x \in OnTheWay /\ k < x.upto
  <2> SUFFICES ASSUME NEW x \in OnTheWay', IsImage(x)
               PROVE  x \in OnTheWay /\ k < x.upto
    OBVIOUS
  <2>1. x # Order("NONE")
    BY DEF IsImage, Order, Message
  <2>2. /\ x \in OnTheWay
        /\ x \in Elements(storageQueue) \cup Elements(outbox) \cup Elements(serverQueue)
    BY <1>1, <1>5, <2>1 DEF OnTheWay
  <2>3. MayPrecede(storageHand, x)
    BY <2>2 DEF OrderOK, InOrder, Precede
  <2>4. x.upto \in Nat
    BY <2>2, OnTheWayTypes
  <2> QED BY <1>1, <1>3, <2>2, <2>3, <2>4 DEF MayPrecede, IsImage
<1> HIDE DEF k
<1>7. OldEnough'
  <2>1. \A x \in OnTheWay' : x.upto <= Len(acquired)
    <3>1. Order("NONE").upto = -1
      BY DEF Order, Message
    <3> QED BY <1>5, <3>1, OnTheWayTypes DEF OrderOK, OldEnough
  <2>2. \A i \in 1..(Len(written) + 1) : written'[i] <= Len(acquired)
    BY <1>3, <1>4 DEF OrderOK, OldEnough
  <2> QED BY <1>1, <1>4, <2>1, <2>2 DEF OldEnough
<1>8. BehindWritten'
  BY <1>4, <1>6 DEF OrderOK, BehindWritten
<1>9. WrittenInOrder'
  BY <1>3, <1>4 DEF OrderOK, WrittenInOrder
<1> QED BY <1>5, <1>7, <1>8, <1>9 DEF OrderOK

LEMMA OrderUnchanged ==
    ASSUME TypeOK, OrderOK,
           UNCHANGED <<storageHand, storageQueue, outbox, serverQueue,
                       acquired, written>>
    PROVE  OrderOK'
<1>1. OnTheWay' = OnTheWay
  BY DEF OnTheWay
<1>2. InOrder'
  BY DEF OrderOK, InOrder
<1> QED BY <1>1, <1>2, NothingWritten DEF OrderOK

-----------------------------------------------------------------------------
(* The actions of the threads.                                             *)

LEMMA OneSorted ==
    ASSUME NEW a
    PROVE  Sorted(<<a>>) /\ Elements(<<a>>) = {a}
BY DEF Sorted, Elements

LEMMA PairSorted ==
    ASSUME NEW a, NEW b, MayPrecede(a, b)
    PROVE  Sorted(<<a, b>>) /\ Elements(<<a, b>>) = {a, b}
BY DEF Sorted, Elements

\* process_image and process_queue_message put the average before the rest.
LEMMA MainImageOrder ==
    ASSUME TypeOK, OrderOK, MainImage
    PROVE  OrderOK'
<1> DEFINE m == Head(serverQueue)
           average == Average(imageTotal', totalLength', m.upto)
<1>1. /\ serverQueue # <<>> /\ serverQueue' = QueueShift(serverQueue)
      /\ UNCHANGED <<storageHand, storageQueue, written, acquired>>
      /\ mainPc = "poll" /\ m.event = "IMAGE"
  BY DEF MainImage, MainGet, storageVars, history
<1>2. outbox = <<>>
  BY <1>1 DEF TypeOK, MainOK
<1>3. outbox' = <<m>> \/ outbox' = <<average, m>>
  BY DEF MainImage
<1>4. /\ average.upto = m.upto /\ average.event = "AVERAGE_IMAGE"
  BY DEF Average, Message
<1> HIDE DEF average, m
<1>5. m.upto \in Int /\ MayPrecede(average, m)
  <2>1. m \in OnTheWay
    BY <1>1, ShiftOrder DEF TypeOK, QueuesOK, OrderOK, InOrder, OnTheWay, m
  <2>2. m.upto \in Int
    BY <2>1, OnTheWayTypes
  <2> QED BY <1>4, <2>2 DEF MayPrecede
<1>6. Sorted(outbox') /\ Elements(outbox') \subseteq {average, m}
  <2>1. Sorted(<<m>>) /\ Elements(<<m>>) \subseteq {average, m}
    BY OneSorted
  <2>2. /\ Sorted(<<average, m>>)
        /\ Elements(<<average, m>>) \subseteq {average, m}
    BY <1>5, PairSorted
  <2> QED BY <1>3, <2>1, <2>2, Zenon
<1>7. \A z \in Elements(outbox') :
         z.upto = m.upto /\ (IsImage(z) => IsImage(m))
  BY <1>1, <1>4, <1>6 DEF IsImage
<1> QED BY <1>1, <1>2, <1>6, <1>7, MainGetOrder DEF m

LEMMA MainStoppedOrder ==
    ASSUME TypeOK, OrderOK, MainAcquisitionStopped
    PROVE  OrderOK'
<1> DEFINE m == Head(serverQueue)
           stop == Notice("STOP", m.upto)
           average == Average(imageTotal, totalLength, m.upto)
<1>1. /\ serverQueue # <<>> /\ serverQueue' = QueueShift(serverQueue)
      /\ UNCHANGED <<storageHand, storageQueue, written, acquired>>
      /\ mainPc = "poll"
  BY DEF MainAcquisitionStopped, MainGet, storageVars, history
<1>2. outbox = <<>>
  BY <1>1 DEF TypeOK, MainOK
<1>3. outbox' = <<stop>> \/ outbox' = <<average, stop>>
  BY DEF MainAcquisitionStopped
<1>4. /\ average.upto = m.upto /\ average.event = "AVERAGE_IMAGE"
      /\ stop.upto = m.upto /\ stop.event = "STOP"
  BY DEF Average, Notice, Message
<1> HIDE DEF average, stop, m
<1>5. MayPrecede(average, stop)
  <2>1. m \in OnTheWay
    BY <1>1, ShiftOrder DEF TypeOK, QueuesOK, OrderOK, InOrder, OnTheWay, m
  <2>2. m.upto \in Int
    BY <2>1, OnTheWayTypes
  <2> QED BY <1>4, <2>2 DEF MayPrecede
<1>6. Sorted(outbox') /\ Elements(outbox') \subseteq {average, stop}
  <2>1. Sorted(<<stop>>) /\ Elements(<<stop>>) \subseteq {average, stop}
    BY OneSorted
  <2>2. /\ Sorted(<<average, stop>>)
        /\ Elements(<<average, stop>>) \subseteq {average, stop}
    BY <1>5, PairSorted
  <2> QED BY <1>3, <2>1, <2>2, Zenon
<1>7. \A z \in Elements(outbox') :
         z.upto = m.upto /\ (IsImage(z) => IsImage(m))
  BY <1>4, <1>6 DEF IsImage
<1> QED BY <1>1, <1>2, <1>6, <1>7, MainGetOrder DEF m

LEMMA MainSendOrder ==
    ASSUME TypeOK, OrderOK, MainSend
    PROVE  OrderOK'
<1> DEFINE m == Head(outbox)
<1>1. /\ outbox \in Seq(MainMessages) /\ outbox # <<>>
      /\ ToStorage(m) /\ outbox' = QueueShift(outbox)
      /\ UNCHANGED <<storageHand, serverQueue, acquired, written>>
  BY DEF TypeOK, MainOK, MainSend, storageVars, QueueShift
<1>2. /\ Sorted(outbox') /\ Elements(outbox') \subseteq Elements(outbox)
      /\ m \in Elements(outbox) /\ Precede({m}, Elements(outbox'))
  BY <1>1, ShiftOrder DEF OrderOK, InOrder
<1>3. m \in StorageMessages
  BY <1>1, HeadTailProperties DEF MainMessages, StorageMessages, Messages
<1> HIDE DEF m
<1>4. \A x \in {storageHand} \cup Elements(storageQueue) : MayPrecede(x, m)
  BY <1>2 DEF OrderOK, InOrder, Precede
<1>5. Precede({m}, Elements(outbox') \cup Elements(serverQueue))
  BY <1>2 DEF OrderOK, InOrder, Precede
<1>6. Harmless(m)
  BY <1>2 DEF OrderOK, OldEnough, BehindWritten, Harmless, OnTheWay
<1> QED BY <1>1, <1>2, <1>3, <1>4, <1>5, <1>6, ToStorageOrder

\* A message that no frame stands behind may be put anywhere.
LEMMA OrderFromClient ==
    ASSUME TypeOK, OrderOK, NEW e \in {"START", "STOP", "EXIT"},
           ToStorage(Order(e)),
           UNCHANGED <<storageHand, serverQueue, outbox, acquired, written>>
    PROVE  OrderOK'
<1>1. Order(e) \in StorageMessages
  BY MessageTypes
<1>2. Order(e).upto = -1 /\ ~IsImage(Order(e))
  BY DEF Order, Message, IsImage
<1>3. \A x : MayPrecede(x, Order(e)) /\ MayPrecede(Order(e), x)
  BY <1>2 DEF MayPrecede
<1>4. Harmless(Order(e))
  BY <1>2, OnTheWayTypes DEF Harmless
<1>5. /\ \A x \in {storageHand} \cup Elements(storageQueue) :
             MayPrecede(x, Order(e))
      /\ Precede({Order(e)}, Elements(outbox') \cup Elements(serverQueue))
  BY <1>3 DEF Precede
<1>6. Sorted(outbox') /\ Elements(outbox') \subseteq Elements(outbox)
  BY DEF OrderOK, InOrder
<1> QED BY <1>1, <1>4, <1>5, <1>6, ToStorageOrder

LEMMA MainOrder ==
    ASSUME TypeOK, OrderOK, MainTurn
    PROVE  OrderOK'
<1>1. CASE MainNoMessage \/ MainLoop \/ MainExitGrabber \/ MainJoinGrabber
           \/ MainJoinStorage
  BY <1>1, OrderUnchanged
     DEF MainNoMessage, MainLoop, MainExitGrabber, MainJoinGrabber,
         MainJoinStorage, MainPast, queues, storageVars, history
<1>2. CASE MainExitStorage
  BY <1>2, OrderFromClient DEF MainExitStorage, MainPast, storageVars
<1> QED BY <1>1, <1>2, MainImageOrder, MainStoppedOrder, MainSendOrder
       DEF MainTurn

LEMMA CommandOrder ==
    ASSUME TypeOK, OrderOK, MainCommand
    PROVE  OrderOK'
<1> USE DEF MainCommand, CommandStart, CommandStop, CommandGrabber,
            CommandStorageStop, CommandExit, CommandStorageStart,
            CommandObject, CommandCountdown, Serving
<1>1. UNCHANGED <<storageHand, serverQueue, outbox, acquired, written>>
  BY DEF storageVars, queues
<1>2. \/ ToStorage(Order("START")) \/ ToStorage(Order("STOP"))
      \/ UNCHANGED storageQueue
  BY DEF queues
<1> HIDE DEF MainCommand
<1> QED BY <1>1, <1>2, OrderFromClient, OrderUnchanged

LEMMA GrabberOrder ==
    ASSUME TypeOK, OrderOK, Grabber
    PROVE  OrderOK'
<1>1. UNCHANGED <<storageHand, storageQueue, outbox, written>>
  BY DEF Grabber, GrabberGet, GrabberNoImage, GrabberImage, GrabberCount,
         GrabberStore, GrabberNothing, GrabberStart, GrabberStop,
         GrabberCommand, GrabberExit, GrabberSwitch, GrabberStep,
         storageVars, mainVars
<1>2. Len(acquired) \in Nat
  BY OnTheWayTypes
<1>3. CASE GrabberImage
  <2>1. /\ ToServer(Image(Len(acquired) + 1))
        /\ acquired' = Append(acquired, [size |-> frameSize, series |-> series])
    BY <1>3 DEF GrabberImage
  <2>2. Len(acquired') = Len(acquired) + 1
    <3>1. /\ acquired \in Seq([size : Sizes, series : Nat])
          /\ [size |-> frameSize, series |-> series] \in [size : Sizes, series : Nat]
      BY DEF TypeOK, HistoryOK, GrabberOK
    <3> QED BY <2>1, <3>1, AppendProperties
  <2>3. Image(Len(acquired) + 1) \in ServerMessages
    BY <1>2, MessageTypes
  <2>4. Image(Len(acquired) + 1).upto = Len(acquired) + 1
    BY DEF Image, Message
  <2> QED BY <1>1, <1>2, <2>1, <2>2, <2>3, <2>4, ToServerOrder
<1>4. CASE /\ ToServer(Notice("ACQUISITION_STOPPED", Len(acquired)))
           /\ acquired' = acquired
  <2>1. Notice("ACQUISITION_STOPPED", Len(acquired)) \in ServerMessages
    BY <1>2, MessageTypes
  <2>2. /\ Notice("ACQUISITION_STOPPED", Len(acquired)).upto = Len(acquired)
        /\ ~IsImage(Notice("ACQUISITION_STOPPED", Len(acquired)))
    BY DEF Notice, Message, IsImage
  <2> QED BY <1>1, <1>2, <1>4, <2>1, <2>2, ToServerOrder
<1>5. CASE UNCHANGED <<serverQueue, acquired>>
  BY <1>1, <1>5, OrderUnchanged
<1>6. \/ GrabberImage
      \/ /\ ToServer(Notice("ACQUISITION_STOPPED", Len(acquired)))
         /\ acquired' = acquired
      \/ UNCHANGED <<serverQueue, acquired>>
  BY DEF Grabber, GrabberGet, GrabberNoImage, GrabberCount, GrabberStore,
         GrabberNothing, GrabberStart, GrabberStop, GrabberCommand,
         GrabberExit, GrabberSwitch
<1> QED BY <1>3, <1>4, <1>5, <1>6

LEMMA OrderNext == TypeOK /\ OrderOK /\ [Next]_vars => OrderOK'
<1> SUFFICES ASSUME TypeOK, OrderOK, [Next]_vars PROVE OrderOK'
  OBVIOUS
<1>1. CASE Storage
  BY <1>1, StorageGetOrder, StorageHandleOrder, StorageImageOrder DEF Storage
<1>2. CASE Terminated \/ UNCHANGED vars
  BY <1>2, OrderUnchanged
     DEF Terminated, vars, queues, mainVars, storageVars, history
<1> QED BY <1>1, <1>2, MainOrder, CommandOrder, GrabberOrder DEF Next

LEMMA OrderInit == Init => OrderOK
<1> SUFFICES ASSUME Init PROVE OrderOK
  OBVIOUS
<1>1. /\ serverQueue = <<>> /\ storageQueue = <<>> /\ outbox = <<>>
      /\ written = <<>> /\ acquired = <<>> /\ storageHand = Order("NONE")
  BY DEF Init
<1>2. InOrder
  BY <1>1, EmptyOrder DEF InOrder, Precede
<1>3. OnTheWay = {Order("NONE")}
  BY <1>1, EmptyOrder DEF OnTheWay
<1>4. Order("NONE").upto = -1 /\ ~IsImage(Order("NONE"))
  BY DEF Order, Message, IsImage
<1>5. OldEnough /\ BehindWritten
  BY <1>1, <1>3, <1>4 DEF OldEnough, BehindWritten
<1>6. WrittenInOrder
  BY <1>1 DEF WrittenInOrder
<1> QED BY <1>2, <1>5, <1>6 DEF OrderOK

\* What the camera caused keeps its order through both queues, the outbox of
\* the main thread and the hand of the storage thread, whatever the overflows
\* take out of it (queue.c:91-113, fast.c:857-873).
THEOREM FramesStayInOrder == Spec => []OrderOK
BY OrderInit, OrderNext, TypeCorrect, PTL DEF Spec

-----------------------------------------------------------------------------
(* What OrderOK implies.                                                   *)

\* A concatenation has the elements of both parts, and their order.
LEMMA ConcatElements ==
    ASSUME NEW S, NEW a \in Seq(S), NEW b \in Seq(S)
    PROVE  /\ a \o b \in Seq(S)
           /\ Elements(a \o b) = Elements(a) \cup Elements(b)
           /\ Sorted(a) /\ Sorted(b) /\ Precede(Elements(a), Elements(b))
                => Sorted(a \o b)
<1> DEFINE c == a \o b
<1>1. /\ c \in Seq(S) /\ Len(c) = Len(a) + Len(b)
      /\ Len(a) \in Nat /\ Len(b) \in Nat
      /\ \A i \in 1..Len(c) : c[i] = IF i <= Len(a) THEN a[i] ELSE b[i - Len(a)]
    BY ConcatProperties, LenProperties
<1> HIDE DEF c
<1>2. \A i \in 1..Len(c) :
         \/ i \in 1..Len(a) /\ c[i] = a[i]
         \/ i > Len(a) /\ i - Len(a) \in 1..Len(b) /\ c[i] = b[i - Len(a)]
    BY <1>1
<1>3. Elements(c) = Elements(a) \cup Elements(b)
  <2>1. Elements(c) \subseteq Elements(a) \cup Elements(b)
      BY <1>2 DEF Elements
  <2>2. \A i \in 1..Len(a) : i \in 1..Len(c) /\ c[i] = a[i]
      BY <1>1
  <2>3. \A i \in 1..Len(b) : i + Len(a) \in 1..Len(c) /\ c[i + Len(a)] = b[i]
      BY <1>1
  <2>4. Elements(a) \subseteq Elements(c)
      BY <2>2 DEF Elements
  <2>5. Elements(b) \subseteq Elements(c)
      BY <2>3 DEF Elements
  <2>6. QED
      BY <2>1, <2>4, <2>5
<1>4. ASSUME Sorted(a), Sorted(b), Precede(Elements(a), Elements(b))
      PROVE  Sorted(c)
  <2> SUFFICES ASSUME NEW i \in 1..Len(c), NEW j \in 1..Len(c), i < j
               PROVE  MayPrecede(c[i], c[j])
      BY DEF Sorted
  <2>1. CASE j \in 1..Len(a) /\ c[j] = a[j]
    <3>1. i \in 1..Len(a) /\ c[i] = a[i]
        BY <1>1, <1>2, <2>1
    <3>2. QED
        BY <1>4, <2>1, <3>1 DEF Sorted
  <2>2. CASE i \in 1..Len(a) /\ c[i] = a[i] /\ j - Len(a) \in 1..Len(b)
             /\ c[j] = b[j - Len(a)]
      BY <1>4, <2>2 DEF Precede, Elements
  <2>3. CASE i > Len(a) /\ i - Len(a) \in 1..Len(b) /\ c[i] = b[i - Len(a)]
             /\ j - Len(a) \in 1..Len(b) /\ c[j] = b[j - Len(a)]
    <3>1. i - Len(a) < j - Len(a)
        BY <1>1
    <3>2. QED
        BY <1>4, <2>3, <3>1 DEF Sorted
  <2>4. QED
      BY <1>1, <1>2, <2>1, <2>2, <2>3
<1>5. QED
    BY <1>1, <1>3, <1>4 DEF c

\* The pipeline is all that is on its way, in the order of its places.
LEMMA PipelineOrder ==
    ASSUME TypeOK
    PROVE  /\ Elements(Pipeline) = OnTheWay /\ DOMAIN Pipeline = 1..Len(Pipeline)
           /\ Len(Pipeline) \in Nat
           /\ OrderOK => Sorted(Pipeline)
<1> DEFINE M == StorageMessages \cup Messages({"NONE"}) \cup MainMessages
                  \cup ServerMessages
           a == <<storageHand>>
           b == a \o storageQueue
           c == b \o outbox
<1>1. /\ a \in Seq(M) /\ storageQueue \in Seq(M) /\ outbox \in Seq(M)
      /\ serverQueue \in Seq(M)
    BY ElementOfSeq DEF TypeOK, QueuesOK, MainOK, StorageOK
<1>2. Elements(a) = {storageHand} /\ Sorted(a)
    BY OneSorted
<1>3. Pipeline = c \o serverQueue /\ c = b \o outbox /\ b = a \o storageQueue
    BY DEF Pipeline
<1> HIDE DEF M, a, b, c
<1>4. /\ b \in Seq(M) /\ Elements(b) = {storageHand} \cup Elements(storageQueue)
      /\ OrderOK => Sorted(b)
  <2>1. /\ b \in Seq(M) /\ Elements(b) = Elements(a) \cup Elements(storageQueue)
        /\ Sorted(a) /\ Sorted(storageQueue)
             /\ Precede(Elements(a), Elements(storageQueue)) => Sorted(b)
      BY <1>1, <1>3, ConcatElements
  <2>2. QED
      BY <1>2, <2>1 DEF OrderOK, InOrder
<1>5. /\ c \in Seq(M)
      /\ Elements(c) = {storageHand} \cup Elements(storageQueue) \cup Elements(outbox)
      /\ OrderOK => Sorted(c)
  <2>1. /\ c \in Seq(M) /\ Elements(c) = Elements(b) \cup Elements(outbox)
        /\ Sorted(b) /\ Sorted(outbox) /\ Precede(Elements(b), Elements(outbox))
             => Sorted(c)
    <3>1. b \in Seq(M) /\ outbox \in Seq(M)
        BY <1>1, <1>4
    <3>2. QED
        BY <1>3, <3>1, ConcatElements
  <2>2. QED
      BY <1>4, <2>1 DEF OrderOK, InOrder
<1>6. /\ Pipeline \in Seq(M) /\ Elements(Pipeline) = OnTheWay
      /\ OrderOK => Sorted(Pipeline)
  <2>1. /\ Pipeline \in Seq(M)
        /\ Elements(Pipeline) = Elements(c) \cup Elements(serverQueue)
        /\ Sorted(c) /\ Sorted(serverQueue)
             /\ Precede(Elements(c), Elements(serverQueue)) => Sorted(Pipeline)
    <3>1. c \in Seq(M) /\ serverQueue \in Seq(M)
        BY <1>1, <1>5
    <3>2. /\ c \o serverQueue \in Seq(M)
          /\ Elements(c \o serverQueue) = Elements(c) \cup Elements(serverQueue)
          /\ Sorted(c) /\ Sorted(serverQueue)
               /\ Precede(Elements(c), Elements(serverQueue))
                 => Sorted(c \o serverQueue)
        BY <3>1, ConcatElements
    <3>3. QED
        BY <1>3, <3>2
  <2>2. QED
      BY <1>5, <2>1 DEF OrderOK, InOrder, OnTheWay
<1>7. QED
    BY <1>6, LenProperties

\* Frames reach the disk in the order of their acquisition
\* (fast_storage.c:124-131).
THEOREM FramesAreWrittenInOrder == Spec => []WrittenInOrder
<1>1. OrderOK => WrittenInOrder
  BY DEF OrderOK
<1> QED BY <1>1, FramesStayInOrder, PTL

\* No frame of an acquisition is behind the STOP that ends it (fast.c:864-867,
\* fast_grabber.c:384, 417).
THEOREM StopIsLast == Spec => []StopComesLast
<1>1. ASSUME TypeOK, OrderOK PROVE StopComesLast
  <2> SUFFICES ASSUME storageHand.event = "STOP", NEW i \in ImagesInFlight
               PROVE  Pipeline[i].upto > storageHand.upto
    BY DEF StopComesLast, InFlight
  <2> DEFINE y == Pipeline[i]
  <2>1. y \in OnTheWay /\ IsImage(y)
    BY <1>1, PipelineOrder DEF ImagesInFlight, Elements
  <2> HIDE DEF y
  <2>2. y # storageHand
    BY <2>1 DEF IsImage
  <2>3. MayPrecede(storageHand, y)
    BY <1>1, <2>1, <2>2 DEF OrderOK, InOrder, Precede, OnTheWay
  <2>4. y.upto \in Nat /\ storageHand.upto \in Int
    BY <1>1, <2>1, OnTheWayTypes DEF OnTheWay
  <2>5. y.upto > storageHand.upto
    BY <2>1, <2>3, <2>4 DEF MayPrecede
  <2> QED BY <2>5 DEF y
<1> QED BY <1>1, FramesStayInOrder, TypeCorrect, PTL
=============================================================================
