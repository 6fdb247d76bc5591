--------------------------- MODULE FastOwnProofs ---------------------------
(***************************************************************************)
(* The owners of the frames and the averages made of them, for any limits  *)
(* of the queues: what FastOrderProofs says of the order leaves no room    *)
(* for a frame that is in two places, and a count shows that none is lost. *)
(* Both together make the daemon one that keeps the promise of FrameFlow.  *)
(***************************************************************************)
EXTENDS FastOrderProofs, FiniteSetTheorems, FunctionTheorems

-----------------------------------------------------------------------------
(* Frames on their way have one owner.                                     *)

\* The frames whose image is one of some messages.
FramesOf(M) == {x.upto : x \in {y \in M : IsImage(y)}}
Flying == FramesOf(OnTheWay)

\* Every frame is on its way, on the disk or deleted; that it is not on its
\* way twice is a part of OrderOK.
Owners ==
    /\ Flying \cup OnDisk \cup freed = 1..Len(acquired)
    /\ freed \cap (Flying \cup OnDisk) = {}

\* No frame of some messages is one of other messages behind them.
LEMMA PrecedeApart ==
    ASSUME NEW X, NEW Y, Precede(X, Y),
           \A x \in X \cup Y : IsImage(x) => x.upto \in Nat
    PROVE  FramesOf(X) \cap FramesOf(Y) = {}
<1> SUFFICES ASSUME NEW x \in X, NEW y \in Y, IsImage(x), IsImage(y), x.upto = y.upto
             PROVE  FALSE
    BY DEF FramesOf
<1>1. MayPrecede(x, y)
    BY DEF Precede
<1>2. QED
    BY <1>1 DEF MayPrecede, IsImage

LEMMA FramesOfUnion ==
    ASSUME NEW X, NEW Y
    PROVE  FramesOf(X \cup Y) = FramesOf(X) \cup FramesOf(Y)
BY DEF FramesOf

LEMMA FramesOfOne ==
    ASSUME NEW m
    PROVE  FramesOf({m}) = IF IsImage(m) THEN {m.upto} ELSE {}
BY DEF FramesOf

\* What a shift leaves, and what it takes.
LEMMA ShiftOwners ==
    ASSUME NEW S, NEW q \in Seq(S), q # <<>>
    PROVE  Elements(q) = {Head(q)} \cup Elements(QueueShift(q))
<1>1. /\ Len(QueueShift(q)) = Len(q) - 1 /\ Len(q) \in Nat \ {0}
      /\ \A i \in 1..(Len(q) - 1) : QueueShift(q)[i] = q[i + 1]
      /\ Head(q) = q[1]
    BY ShiftElements
<1>2. ASSUME NEW i \in 1..Len(q)
      PROVE  q[i] \in {Head(q)} \cup Elements(QueueShift(q))
  <2>1. CASE i = 1
      BY <1>1, <2>1
  <2>2. CASE i # 1
    <3>1. i - 1 \in 1..(Len(q) - 1) /\ (i - 1) + 1 = i
        BY <1>1, <2>2
    <3>2. QueueShift(q)[i - 1] = q[i]
        BY <1>1, <3>1
    <3>3. QED
        BY <1>1, <3>1, <3>2 DEF Elements
  <2>3. QED
      BY <2>1, <2>2
<1>3. ASSUME NEW i \in 1..(Len(q) - 1)
      PROVE  QueueShift(q)[i] \in Elements(q)
  <2>1. i + 1 \in 1..Len(q)
      BY <1>1
  <2>2. QED
      BY <1>1, <2>1 DEF Elements
<1>4. Head(q) \in Elements(q)
    BY <1>1 DEF Elements
<1>5. QED
    BY <1>1, <1>2, <1>3, <1>4 DEF Elements

\* An addition deletes the frames that it takes out of the queue, and those
\* were in it, in front of all the others.
LEMMA AddOwners ==
    ASSUME NEW S, NEW q \in Seq(S), NEW m \in S, NEW limit \in Nat \ {0}, Sorted(q),
           Precede(Elements(q), {m})
    PROVE  \E X \in SUBSET Elements(q) :
               /\ EvictedFrames(q, limit) = FramesOf(X)
               /\ Elements(q) \cup {m} = X \cup Elements(QueueAdd(q, m, limit))
               /\ Precede(X, Elements(QueueAdd(q, m, limit)))
<1> DEFINE full == QueueIsFull(q, limit)
           rest == IF full THEN QueueShift(q) ELSE q
<1>1. rest \in Seq(S)
    BY ShiftType
<1>2. Elements(QueueAdd(q, m, limit)) = Elements(rest) \cup {m}
  <2>1. QueueAdd(q, m, limit) = Append(rest, m)
      BY DEF QueueAdd
  <2> HIDE DEF rest
  <2>2. /\ Len(Append(rest, m)) = Len(rest) + 1 /\ Len(rest) \in Nat
        /\ \A i \in 1..Len(rest) : Append(rest, m)[i] = rest[i]
        /\ Append(rest, m)[Len(rest) + 1] = m
      BY <1>1, AppendProperties, LenProperties
  <2>3. QED
      BY <2>1, <2>2 DEF Elements
<1>3. CASE full
  <2>1. q # <<>> /\ rest = QueueShift(q)
      BY <1>3, LenProperties DEF QueueIsFull
  <2>2. /\ Head(q) \in Elements(q) /\ Precede({Head(q)}, Elements(rest))
        /\ Elements(q) = {Head(q)} \cup Elements(rest)
      BY <2>1, ShiftOrder, ShiftOwners
  <2>3. QueueEvicted(q, limit) = <<Head(q)>>
      BY <1>3 DEF QueueEvicted
  <2>4. EvictedFrames(q, limit) = FramesOf({Head(q)})
    <3>1. DOMAIN <<Head(q)>> = {1} /\ <<Head(q)>>[1] = Head(q)
        OBVIOUS
    <3>2. QED
        BY <2>3, <3>1 DEF EvictedFrames, FramesOf
  <2>5. Precede({Head(q)}, Elements(rest) \cup {m})
      BY <2>2 DEF Precede
  <2> HIDE DEF rest
  <2>6. QED
      BY <1>2, <2>2, <2>4, <2>5
<1>4. CASE ~full
  <2>1. rest = q /\ QueueEvicted(q, limit) = <<>>
      BY <1>4 DEF QueueEvicted
  <2>2. EvictedFrames(q, limit) = FramesOf({})
      BY <2>1 DEF EvictedFrames, FramesOf
  <2> HIDE DEF rest
  <2>3. QED
      BY <1>2, <2>1, <2>2 DEF Precede
<1>5. QED
    BY <1>3, <1>4

\* One step: some frames are deleted, and those acquired are on their way.
LEMMA OwnersStep ==
    ASSUME Owners, NEW gone, freed' = freed \cup gone, written' = written,
           Len(acquired) \in Nat, Len(acquired') \in Nat, Len(acquired') >= Len(acquired),
           Flying' \cup gone = Flying \cup ((Len(acquired) + 1)..Len(acquired')),
           gone \cap (Flying' \cup OnDisk) = {}
    PROVE  Owners'
<1> DEFINE n == Len(acquired)
           m == Len(acquired')
<1>1. OnDisk' = OnDisk
    BY DEF OnDisk
<1>2. 1..m = (1..n) \cup ((n + 1)..m)
    OBVIOUS
<1>3. /\ Flying \cup OnDisk \cup freed = 1..n /\ freed \cap (Flying \cup OnDisk) = {}
    BY DEF Owners
<1>4. (1..n) \cap ((n + 1)..m) = {}
    OBVIOUS
<1> HIDE DEF n, m
<1>5. /\ (Flying \cup OnDisk \cup freed)' = 1..m
      /\ (freed \cap (Flying \cup OnDisk))' = {}
  <2>1. Flying' \cup gone = Flying \cup ((n + 1)..m)
      BY DEF n, m
  <2>2. QED
      BY <1>1, <1>2, <1>3, <1>4, <2>1
<1>6. QED
    BY <1>5 DEF Owners, m

\* A frame that is on its way is not on the disk.
LEMMA NotWritten ==
    ASSUME TypeOK, OrderOK, NEW X \in SUBSET OnTheWay
    PROVE  FramesOf(X) \cap OnDisk = {}
<1> SUFFICES ASSUME NEW x \in X, IsImage(x), NEW i \in DOMAIN written, x.upto = written[i]
             PROVE  FALSE
    BY DEF FramesOf, OnDisk
<1>1. DOMAIN written = 1..Len(written)
    BY LenProperties DEF TypeOK, HistoryOK
<1>2. written[i] < x.upto /\ x.upto \in Nat
    BY <1>1, OnTheWayTypes DEF OrderOK, BehindWritten
<1>3. QED
    BY <1>2

LEMMA ToServerOwners ==
    ASSUME TypeOK, OrderOK, Owners, NEW m \in ServerMessages, ToServer(m),
           UNCHANGED <<storageHand, storageQueue, outbox, written>>,
           m.upto = Len(acquired'), Len(acquired') \in Nat,
           IsImage(m) => Len(acquired') = Len(acquired) + 1,
           ~IsImage(m) => Len(acquired') = Len(acquired)
    PROVE  Owners'
<1> DEFINE behind == {storageHand} \cup Elements(storageQueue) \cup Elements(outbox)
<1>1. \A x \in OnTheWay : x.upto <= Len(acquired) /\ x.upto \in Int
    BY OnTheWayTypes DEF OrderOK, OldEnough
<1>2. Len(acquired) \in Nat
    BY OnTheWayTypes
<1>3. /\ OnTheWay = behind \cup Elements(serverQueue)
      /\ OnTheWay' = behind \cup Elements(serverQueue')
    BY DEF OnTheWay
<1>4. Precede(Elements(serverQueue), {m})
    BY <1>1, <1>2, <1>3 DEF Precede, MayPrecede
<1>5. PICK X \in SUBSET Elements(serverQueue) :
        /\ freed' = freed \cup FramesOf(X)
        /\ Elements(serverQueue) \cup {m} = X \cup Elements(serverQueue')
        /\ Precede(X, Elements(serverQueue'))
    BY <1>4, AddOwners, FastAssumption DEF TypeOK, QueuesOK, OrderOK, InOrder, ToServer
<1>6. Precede(behind, X)
    BY DEF OrderOK, InOrder, Precede
<1>7. \A x \in OnTheWay \cup {m} : IsImage(x) => x.upto \in Nat
    BY OnTheWayTypes
<1> HIDE DEF behind
<1>8. FramesOf(X) \cap FramesOf(behind) = {}
    BY <1>3, <1>6, <1>7, PrecedeApart
<1>9. FramesOf(X) \cap FramesOf(Elements(serverQueue')) = {}
    BY <1>3, <1>5, <1>7, PrecedeApart
<1>10. Flying' = FramesOf(behind) \cup FramesOf(Elements(serverQueue'))
    BY <1>3, FramesOfUnion DEF Flying
<1>11. Flying' \cup FramesOf(X) = Flying \cup FramesOf({m})
  <2>1. OnTheWay' \cup X = OnTheWay \cup {m}
      BY <1>3, <1>5
  <2>2. FramesOf(OnTheWay' \cup X) = Flying' \cup FramesOf(X)
      BY FramesOfUnion DEF Flying
  <2>3. FramesOf(OnTheWay \cup {m}) = Flying \cup FramesOf({m})
      BY FramesOfUnion DEF Flying
  <2>4. QED
      BY <2>1, <2>2, <2>3
<1>12. FramesOf({m}) = (Len(acquired) + 1)..Len(acquired')
  <2>1. CASE IsImage(m)
    <3>1. (Len(acquired) + 1)..Len(acquired') = {Len(acquired) + 1}
        BY <1>2, <2>1
    <3>2. QED
        BY <2>1, <3>1, FramesOfOne
  <2>2. CASE ~IsImage(m)
    <3>1. (Len(acquired) + 1)..Len(acquired') = {}
        BY <1>2, <2>2
    <3>2. QED
        BY <2>2, <3>1, FramesOfOne
  <2>3. QED
      BY <2>1, <2>2
<1>13. FramesOf(X) \cap (Flying' \cup OnDisk) = {}
    BY <1>3, <1>8, <1>9, <1>10, NotWritten
<1>14. Len(acquired') >= Len(acquired)
    BY <1>2
<1>15. QED
    BY <1>2, <1>5, <1>11, <1>12, <1>13, <1>14, OwnersStep

LEMMA ToStorageOwners ==
    ASSUME TypeOK, OrderOK, Owners, NEW m \in StorageMessages, ToStorage(m),
           UNCHANGED <<storageHand, serverQueue, acquired, written>>,
           Elements(outbox) \cup {m} = Elements(outbox') \cup {m},
           IsImage(m) => m \in Elements(outbox),
           \A x \in Elements(storageQueue) : MayPrecede(x, m)
    PROVE  Owners'
<1> DEFINE after == Elements(outbox') \cup Elements(serverQueue)
<1>1. Precede(Elements(storageQueue), {m})
    BY DEF Precede
<1>2. PICK X \in SUBSET Elements(storageQueue) :
        /\ freed' = freed \cup FramesOf(X)
        /\ Elements(storageQueue) \cup {m} = X \cup Elements(storageQueue')
        /\ Precede(X, Elements(storageQueue'))
    BY <1>1, AddOwners, FastAssumption DEF TypeOK, QueuesOK, OrderOK, InOrder, ToStorage
<1>3. OnTheWay' = {storageHand} \cup Elements(storageQueue') \cup after
    BY DEF OnTheWay
<1>4. OnTheWay' \cup X = OnTheWay \cup {m}
    BY <1>2 DEF OnTheWay
<1>5. Precede({storageHand}, X) /\ Precede(X, after)
    BY <1>1 DEF OrderOK, InOrder, Precede
<1>6. \A x \in OnTheWay \cup {m} : IsImage(x) => x.upto \in Nat
    BY OnTheWayTypes DEF OnTheWay
<1>7. X \subseteq OnTheWay
    BY DEF OnTheWay
<1> HIDE DEF after
<1>8. /\ FramesOf(X) \cap FramesOf({storageHand}) = {}
      /\ FramesOf(X) \cap FramesOf(Elements(storageQueue')) = {}
      /\ FramesOf(X) \cap FramesOf(after) = {}
    BY <1>2, <1>3, <1>4, <1>5, <1>6, PrecedeApart
<1>9. Flying' = FramesOf({storageHand}) \cup FramesOf(Elements(storageQueue'))
                  \cup FramesOf(after)
  <2>1. FramesOf(OnTheWay') = FramesOf({storageHand} \cup Elements(storageQueue'))
                                \cup FramesOf(after)
      BY <1>3, FramesOfUnion
  <2>2. FramesOf({storageHand} \cup Elements(storageQueue'))
          = FramesOf({storageHand}) \cup FramesOf(Elements(storageQueue'))
      BY FramesOfUnion
  <2>3. QED
      BY <2>1, <2>2 DEF Flying
<1>10. Flying' \cup FramesOf(X) = Flying
  <2>1. FramesOf(OnTheWay' \cup X) = Flying' \cup FramesOf(X)
      BY FramesOfUnion DEF Flying
  <2>2. FramesOf(OnTheWay \cup {m}) = Flying \cup FramesOf({m})
      BY FramesOfUnion DEF Flying
  <2>3. FramesOf({m}) \subseteq Flying
      BY DEF FramesOf, Flying, OnTheWay
  <2>4. QED
      BY <1>4, <2>1, <2>2, <2>3
<1>11. FramesOf(X) \cap (Flying' \cup OnDisk) = {}
    BY <1>7, <1>8, <1>9, NotWritten
<1>12. Len(acquired) \in Nat /\ Len(acquired') = Len(acquired)
    BY OnTheWayTypes
<1>13. (Len(acquired) + 1)..Len(acquired') = {}
    BY <1>12
<1>14. Flying' \cup FramesOf(X) = Flying \cup ((Len(acquired) + 1)..Len(acquired'))
    BY <1>10, <1>13
<1>15. Len(acquired') \in Nat /\ Len(acquired') >= Len(acquired)
    BY <1>12
<1>16. QED
    BY <1>2, <1>11, <1>12, <1>14, <1>15, OwnersStep

\* The messages change their places, or are replaced by others.
LEMMA OwnersMoved ==
    ASSUME TypeOK, Owners, UNCHANGED <<acquired, written, freed>>, Flying' = Flying
    PROVE  Owners'
<1>1. OnDisk' = OnDisk
    BY DEF OnDisk
<1>2. Len(acquired') = Len(acquired)
    OBVIOUS
<1>3. QED
    BY <1>1, <1>2 DEF Owners

LEMMA FlyingParts ==
    /\ Flying = FramesOf({storageHand}) \cup FramesOf(Elements(storageQueue))
                  \cup FramesOf(Elements(outbox)) \cup FramesOf(Elements(serverQueue))
    /\ Flying' = FramesOf({storageHand'}) \cup FramesOf(Elements(storageQueue'))
                  \cup FramesOf(Elements(outbox')) \cup FramesOf(Elements(serverQueue'))
BY DEF FramesOf, Flying, OnTheWay

LEMMA OwnersUnchanged ==
    ASSUME TypeOK, Owners,
           UNCHANGED <<storageHand, storageQueue, outbox, serverQueue,
                       acquired, written, freed>>
    PROVE  Owners'
<1>1. Flying' = Flying
    BY FlyingParts
<1>2. QED
    BY <1>1, OwnersMoved

\* A message of the grabber thread is handed on; an average has no owner.
LEMMA MainGetOwners ==
    ASSUME TypeOK, Owners, mainPc = "poll", serverQueue # <<>>,
           serverQueue' = QueueShift(serverQueue),
           UNCHANGED <<storageHand, storageQueue, written, acquired, freed>>,
           FramesOf(Elements(outbox')) = FramesOf({Head(serverQueue)})
    PROVE  Owners'
<1>1. outbox = <<>>
    BY DEF TypeOK, MainOK
<1>2. FramesOf(Elements(outbox)) = {}
    BY <1>1, EmptyOrder DEF FramesOf
<1>3. FramesOf(Elements(serverQueue))
        = FramesOf({Head(serverQueue)}) \cup FramesOf(Elements(serverQueue'))
  <2>1. Elements(serverQueue) = {Head(serverQueue)} \cup Elements(serverQueue')
      BY ShiftOwners DEF TypeOK, QueuesOK
  <2>2. QED
      BY <2>1, FramesOfUnion
<1>4. Flying' = Flying
    BY <1>2, <1>3, FlyingParts
<1>5. QED
    BY <1>4, OwnersMoved

LEMMA ShortElements ==
    ASSUME NEW a, NEW b
    PROVE  Elements(<<a>>) = {a} /\ Elements(<<a, b>>) = {a, b}
BY DEF Elements

LEMMA MainImageOwners ==
    ASSUME TypeOK, Owners, MainImage
    PROVE  Owners'
<1> DEFINE m == Head(serverQueue)
           average == Average(imageTotal', totalLength', m.upto)
<1>1. /\ mainPc = "poll" /\ serverQueue # <<>>
      /\ serverQueue' = QueueShift(serverQueue)
      /\ UNCHANGED <<storageHand, storageQueue, written, acquired, freed>>
    BY DEF MainImage, MainGet, storageVars, history
<1>2. outbox' = <<m>> \/ outbox' = <<average, m>>
    BY DEF MainImage
<1>3. ~IsImage(average)
    BY DEF Average, Message, IsImage
<1> HIDE DEF average, m
<1>4. Elements(outbox') = {m} \/ Elements(outbox') = {average, m}
    BY <1>2, ShortElements
<1>5. FramesOf(Elements(outbox')) = FramesOf({m})
    BY <1>3, <1>4 DEF FramesOf
<1>6. QED
    BY <1>1, <1>5, MainGetOwners DEF m

LEMMA MainStoppedOwners ==
    ASSUME TypeOK, Owners, MainAcquisitionStopped
    PROVE  Owners'
<1> DEFINE m == Head(serverQueue)
           stop == Notice("STOP", m.upto)
           average == Average(imageTotal, totalLength, m.upto)
<1>1. /\ mainPc = "poll" /\ serverQueue # <<>>
      /\ serverQueue' = QueueShift(serverQueue)
      /\ UNCHANGED <<storageHand, storageQueue, written, acquired, freed>>
      /\ m.event = "ACQUISITION_STOPPED"
    BY DEF MainAcquisitionStopped, MainGet, storageVars, history
<1>2. outbox' = <<stop>> \/ outbox' = <<average, stop>>
    BY DEF MainAcquisitionStopped
<1>3. ~IsImage(average) /\ ~IsImage(stop) /\ ~IsImage(m)
    BY <1>1 DEF Average, Notice, Message, IsImage
<1> HIDE DEF average, stop, m
<1>4. Elements(outbox') = {stop} \/ Elements(outbox') = {average, stop}
    BY <1>2, ShortElements, Zenon
<1>5. FramesOf(Elements(outbox')) = FramesOf({m})
    BY <1>3, <1>4 DEF FramesOf
<1>6. QED
    BY <1>1, <1>5, MainGetOwners DEF m

LEMMA MainSendOwners ==
    ASSUME TypeOK, OrderOK, Owners, MainSend
    PROVE  Owners'
<1> DEFINE m == Head(outbox)
<1>1. /\ outbox \in Seq(MainMessages) /\ outbox # <<>>
      /\ ToStorage(m) /\ outbox' = QueueShift(outbox)
      /\ UNCHANGED <<storageHand, serverQueue, acquired, written>>
    BY DEF TypeOK, MainOK, MainSend, storageVars, QueueShift
<1>2. Elements(outbox) = {m} \cup Elements(outbox')
    BY <1>1, ShiftOwners
<1>3. m \in StorageMessages
    BY <1>1, HeadTailProperties DEF MainMessages, StorageMessages, Messages
<1> HIDE DEF m
<1>4. \A x \in Elements(storageQueue) : MayPrecede(x, m)
    BY <1>2 DEF OrderOK, InOrder, Precede
<1>5. Elements(outbox) \cup {m} = Elements(outbox') \cup {m} /\ m \in Elements(outbox)
    BY <1>2
<1>6. QED
    BY <1>1, <1>3, <1>4, <1>5, ToStorageOwners

LEMMA OwnersFromClient ==
    ASSUME TypeOK, OrderOK, Owners, NEW e \in {"START", "STOP", "EXIT"},
           ToStorage(Order(e)),
           UNCHANGED <<storageHand, serverQueue, outbox, acquired, written>>
    PROVE  Owners'
<1>1. Order(e) \in StorageMessages
    BY MessageTypes
<1>2. Order(e).upto = -1 /\ ~IsImage(Order(e))
    BY DEF Order, Message, IsImage
<1>3. \A x : MayPrecede(x, Order(e))
    BY <1>2 DEF MayPrecede
<1>4. QED
    BY <1>1, <1>2, <1>3, ToStorageOwners

LEMMA MainOwners ==
    ASSUME TypeOK, OrderOK, Owners, MainTurn
    PROVE  Owners'
<1>1. CASE MainNoMessage \/ MainLoop \/ MainExitGrabber \/ MainJoinGrabber
           \/ MainJoinStorage
    BY <1>1, OwnersUnchanged
       DEF MainNoMessage, MainLoop, MainExitGrabber, MainJoinGrabber,
           MainJoinStorage, MainPast, queues, storageVars, history
<1>2. CASE MainExitStorage
    BY <1>2, OwnersFromClient DEF MainExitStorage, MainPast, storageVars
<1>3. QED
    BY <1>1, <1>2, MainImageOwners, MainStoppedOwners, MainSendOwners DEF MainTurn

LEMMA CommandOwners ==
    ASSUME TypeOK, OrderOK, Owners, MainCommand
    PROVE  Owners'
<1> USE DEF MainCommand, CommandStart, CommandStop, CommandGrabber,
            CommandStorageStop, CommandExit, CommandStorageStart,
            CommandObject, CommandCountdown, Serving
<1>1. UNCHANGED <<storageHand, serverQueue, outbox, acquired, written>>
    BY DEF storageVars, queues
<1>2. \/ ToStorage(Order("START")) \/ ToStorage(Order("STOP"))
      \/ UNCHANGED <<storageQueue, freed>>
    BY DEF queues
<1> HIDE DEF MainCommand
<1>3. QED
    BY <1>1, <1>2, OwnersFromClient, OwnersUnchanged

LEMMA GrabberOwners ==
    ASSUME TypeOK, OrderOK, Owners, Grabber
    PROVE  Owners'
<1>1. UNCHANGED <<storageHand, storageQueue, outbox, written>>
    BY DEF Grabber, GrabberGet, GrabberNoImage, GrabberImage, GrabberCount,
           GrabberStore, GrabberNothing, GrabberStart, GrabberStop,
           GrabberCommand, GrabberExit, GrabberSwitch, GrabberStep,
           storageVars, mainVars
<1>2. Len(acquired) \in Nat
    BY OnTheWayTypes
<1>3. CASE GrabberImage
  <2>1. /\ ToServer(Image(Len(acquired) + 1))
        /\ acquired' = Append(acquired, [size |-> frameSize, series |-> series])
      BY <1>3 DEF GrabberImage
  <2>2. Len(acquired') = Len(acquired) + 1
    <3>1. /\ acquired \in Seq([size : Sizes, series : Nat])
          /\ [size |-> frameSize, series |-> series] \in [size : Sizes, series : Nat]
        BY DEF TypeOK, HistoryOK, GrabberOK
    <3>2. QED
        BY <2>1, <3>1, AppendProperties
  <2>3. Image(Len(acquired) + 1) \in ServerMessages
      BY <1>2, MessageTypes
  <2>4. /\ Image(Len(acquired) + 1).upto = Len(acquired) + 1
        /\ IsImage(Image(Len(acquired) + 1))
      BY DEF Image, Message, IsImage
  <2>5. QED
      BY <1>1, <1>2, <2>1, <2>2, <2>3, <2>4, ToServerOwners
<1>4. CASE /\ ToServer(Notice("ACQUISITION_STOPPED", Len(acquired)))
           /\ acquired' = acquired
  <2>1. Notice("ACQUISITION_STOPPED", Len(acquired)) \in ServerMessages
      BY <1>2, MessageTypes
  <2>2. /\ Notice("ACQUISITION_STOPPED", Len(acquired)).upto = Len(acquired)
        /\ ~IsImage(Notice("ACQUISITION_STOPPED", Len(acquired)))
      BY DEF Notice, Message, IsImage
  <2>3. QED
      BY <1>1, <1>2, <1>4, <2>1, <2>2, ToServerOwners
<1>5. CASE UNCHANGED <<serverQueue, acquired, freed>>
    BY <1>1, <1>5, OwnersUnchanged
<1>6. \/ GrabberImage
      \/ /\ ToServer(Notice("ACQUISITION_STOPPED", Len(acquired)))
         /\ acquired' = acquired
      \/ UNCHANGED <<serverQueue, acquired, freed>>
    BY DEF Grabber, GrabberGet, GrabberNoImage, GrabberCount, GrabberStore,
           GrabberNothing, GrabberStart, GrabberStop, GrabberCommand,
           GrabberExit, GrabberSwitch
<1>7. QED
    BY <1>3, <1>4, <1>5, <1>6

LEMMA StorageGetOwners ==
    ASSUME TypeOK, Owners, StorageGet
    PROVE  Owners'
<1>1. /\ storageQueue # <<>> /\ storageQueue' = QueueShift(storageQueue)
      /\ storageHand' = Head(storageQueue) /\ storagePc = "get"
      /\ UNCHANGED <<serverQueue, outbox, acquired, written, freed>>
    BY DEF StorageGet, mainVars, history
<1>2. FramesOf({storageHand}) = {}
    BY <1>1, FramesOfOne DEF TypeOK, StorageOK, IsImage
<1>3. FramesOf(Elements(storageQueue))
        = FramesOf({storageHand'}) \cup FramesOf(Elements(storageQueue'))
  <2>1. Elements(storageQueue) = {storageHand'} \cup Elements(storageQueue')
      BY <1>1, ShiftOwners DEF TypeOK, QueuesOK
  <2>2. QED
      BY <2>1, FramesOfUnion
<1>4. Flying' = Flying
    BY <1>1, <1>2, <1>3, FlyingParts
<1>5. QED
    BY <1>1, <1>4, OwnersMoved

\* The hand of the storage thread is emptied.
LEMMA StorageHandleOwners ==
    ASSUME TypeOK, OrderOK, Owners,
           \/ StorageStart \/ StorageStop \/ StorageDiscard \/ StorageImage
           \/ StorageAverage \/ StorageExit
    PROVE  Owners'
<1> DEFINE rest == Elements(storageQueue) \cup Elements(outbox)
                     \cup Elements(serverQueue)
<1>1. /\ storageHand' = Order("NONE")
      /\ UNCHANGED <<storageQueue, serverQueue, outbox, acquired>>
    BY DEF StorageStart, StorageStop, StorageDiscard, StorageImage, StorageAverage,
           StorageExit, StorageHandle, queues, mainVars
<1>2. /\ Flying = FramesOf({storageHand}) \cup FramesOf(rest)
      /\ Flying' = FramesOf(rest)
  <2>1. FramesOf({storageHand'}) = {}
      BY <1>1, FramesOfOne DEF IsImage, Order, Message
  <2>2. FramesOf(rest) = FramesOf(Elements(storageQueue))
            \cup FramesOf(Elements(outbox)) \cup FramesOf(Elements(serverQueue))
      BY DEF FramesOf
  <2>3. QED
      BY <1>1, <2>1, <2>2, FlyingParts
<1>3. Precede({storageHand}, rest) /\ rest \subseteq OnTheWay /\ storageHand \in OnTheWay
    BY DEF OrderOK, InOrder, Precede, OnTheWay
<1> HIDE DEF rest
<1>4. FramesOf({storageHand}) \cap FramesOf(rest) = {}
    BY <1>3, PrecedeApart, OnTheWayTypes
<1>5. FramesOf({storageHand}) \cap OnDisk = {}
    BY <1>3, NotWritten
<1>6. Len(acquired) \in Nat /\ Len(acquired') = Len(acquired)
    BY <1>1, OnTheWayTypes
<1>7. CASE StorageStart \/ StorageStop \/ StorageAverage \/ StorageExit
  <2>1. ~IsImage(storageHand) /\ UNCHANGED <<written, freed>>
      BY <1>7 DEF StorageStart, StorageStop, StorageAverage, StorageExit,
                  StorageHandle, IsImage
  <2>2. Flying' = Flying
      BY <1>2, <2>1, FramesOfOne
  <2>3. QED
      BY <1>1, <2>1, <2>2, OwnersMoved
<1>8. CASE StorageDiscard
  <2>1. /\ FramesOf({storageHand}) = {storageHand.upto} /\ written' = written
        /\ freed' = freed \cup {storageHand.upto}
      BY <1>8, FramesOfOne DEF StorageDiscard, StorageHandle, IsImage
  <2>2. (Len(acquired) + 1)..Len(acquired') = {}
      BY <1>6
  <2>3. Len(acquired') \in Nat /\ Len(acquired') >= Len(acquired)
      BY <1>6
  <2>4. /\ Flying' \cup {storageHand.upto}
              = Flying \cup ((Len(acquired) + 1)..Len(acquired'))
        /\ {storageHand.upto} \cap (Flying' \cup OnDisk) = {}
      BY <1>2, <1>4, <1>5, <2>1, <2>2
  <2>5. QED
      BY <1>6, <2>1, <2>3, <2>4, OwnersStep
<1>9. CASE StorageImage
  <2>1. /\ FramesOf({storageHand}) = {storageHand.upto} /\ freed' = freed
        /\ written' = Append(written, storageHand.upto)
        /\ IsImage(storageHand)
      BY <1>9, FramesOfOne DEF StorageImage, StorageHandle, IsImage
  <2>2. OnDisk' = OnDisk \cup {storageHand.upto}
    <3>1. storageHand.upto \in Nat
        BY <1>3, <2>1, OnTheWayTypes
    <3>2. /\ DOMAIN written = 1..Len(written)
          /\ DOMAIN written' = 1..(Len(written) + 1) /\ Len(written) \in Nat
          /\ \A i \in 1..Len(written) : written'[i] = written[i]
          /\ written'[Len(written) + 1] = storageHand.upto
        BY <2>1, <3>1, AppendProperties, LenProperties DEF TypeOK, HistoryOK
    <3>3. QED
        BY <3>2 DEF OnDisk
  <2>3. Flying' \cup OnDisk' = Flying \cup OnDisk
      BY <1>2, <2>1, <2>2
  <2>4. QED
      BY <1>6, <2>1, <2>3 DEF Owners
<1>10. QED
    BY <1>7, <1>8, <1>9

LEMMA OwnersNext == TypeOK /\ OrderOK /\ Owners /\ [Next]_vars => Owners'
<1> SUFFICES ASSUME TypeOK, OrderOK, Owners, [Next]_vars PROVE Owners'
    OBVIOUS
<1>1. CASE Storage
    BY <1>1, StorageGetOwners, StorageHandleOwners DEF Storage
<1>2. CASE Terminated \/ UNCHANGED vars
    BY <1>2, OwnersUnchanged
       DEF Terminated, vars, queues, mainVars, storageVars, history
<1>3. QED
    BY <1>1, <1>2, MainOwners, CommandOwners, GrabberOwners DEF Next

LEMMA OwnersInit == Init => Owners
<1> SUFFICES ASSUME Init PROVE Owners
    OBVIOUS
<1>1. /\ serverQueue = <<>> /\ storageQueue = <<>> /\ outbox = <<>>
      /\ written = <<>> /\ acquired = <<>> /\ storageHand = Order("NONE")
      /\ freed = {}
    BY DEF Init
<1>2. OnTheWay = {Order("NONE")}
    BY <1>1, EmptyOrder DEF OnTheWay
<1>3. Flying = {}
    BY <1>2, FramesOfOne DEF Flying, Order, Message, IsImage
<1>4. OnDisk = {} /\ 1..Len(acquired) = {}
    BY <1>1 DEF OnDisk
<1>5. QED
    BY <1>1, <1>3, <1>4 DEF Owners

\* Every frame that the camera delivered is on its way, on the disk or
\* deleted, and never two of these (fast.c:860-863, fast_grabber.c:377,
\* fast_storage.c:124-134).
THEOREM OwnersAreKept == Spec => []Owners
BY OwnersInit, OwnersNext, FramesStayInOrder, TypeCorrect, PTL DEF Spec

-----------------------------------------------------------------------------
(* What Owners and OrderOK imply.                                          *)

\* No two images on their way are of the same frame.
LEMMA OneImagePerFrame ==
    ASSUME TypeOK, OrderOK
    PROVE  /\ InFlight = Flying /\ IsFiniteSet(InFlight)
           /\ Cardinality(ImagesInFlight) = Cardinality(InFlight)
<1>1. /\ Elements(Pipeline) = OnTheWay /\ DOMAIN Pipeline = 1..Len(Pipeline)
      /\ Len(Pipeline) \in Nat /\ Sorted(Pipeline)
    BY PipelineOrder
<1>2. InFlight = Flying
    BY <1>1 DEF InFlight, ImagesInFlight, Flying, FramesOf, Elements
<1>3. IsFiniteSet(ImagesInFlight)
  <2>1. IsFiniteSet(1..Len(Pipeline))
      BY <1>1, FS_Interval
  <2>2. ImagesInFlight \in SUBSET (1..Len(Pipeline))
      BY <1>1 DEF ImagesInFlight
  <2>3. QED
      BY <2>1, <2>2, FS_Subset
<1> DEFINE f == [i \in ImagesInFlight |-> Pipeline[i].upto]
<1>4. f \in [ImagesInFlight -> InFlight] /\ \A k \in InFlight : \E i \in ImagesInFlight : f[i] = k
    BY DEF InFlight
<1>5. ASSUME NEW i \in ImagesInFlight, NEW j \in ImagesInFlight, i < j
      PROVE  Pipeline[i].upto # Pipeline[j].upto
  <2>1. i \in 1..Len(Pipeline) /\ j \in 1..Len(Pipeline)
        /\ IsImage(Pipeline[i]) /\ IsImage(Pipeline[j])
      BY <1>1 DEF ImagesInFlight
  <2>2. Pipeline[i].upto \in Nat /\ Pipeline[j].upto \in Nat
      BY <1>1, <2>1, OnTheWayTypes DEF Elements
  <2>3. MayPrecede(Pipeline[i], Pipeline[j])
      BY <1>1, <1>5, <2>1 DEF Sorted
  <2>4. QED
      BY <2>1, <2>2, <2>3 DEF MayPrecede, IsImage
<1>6. \A i, j \in ImagesInFlight : f[i] = f[j] => i = j
  <2>1. \A i \in ImagesInFlight : i \in Int
      BY <1>1 DEF ImagesInFlight
  <2>2. QED
      BY <1>5, <2>1
<1> HIDE DEF f
<1>7. f \in Bijection(ImagesInFlight, InFlight)
    BY <1>4, <1>6, Fun_IsBij
<1>8. ExistsBijection(ImagesInFlight, InFlight)
    BY <1>7 DEF ExistsBijection
<1>9. QED
    BY <1>2, <1>3, <1>8, FS_Bijection

\* No frame is written twice.
LEMMA OneFilePerFrame ==
    ASSUME TypeOK, WrittenInOrder
    PROVE  IsFiniteSet(OnDisk) /\ Cardinality(OnDisk) = Len(written)
<1>1. /\ DOMAIN written = 1..Len(written) /\ Len(written) \in Nat
      /\ \A i \in DOMAIN written : written[i] \in Nat
    BY LenProperties DEF TypeOK, HistoryOK
<1>2. \A i, j \in 1..Len(written) : written[i] = written[j] => i = j
    BY <1>1 DEF WrittenInOrder
<1>3. /\ written \in [1..Len(written) -> OnDisk]
      /\ \A k \in OnDisk : \E i \in 1..Len(written) : written[i] = k
  <2>1. written = [i \in 1..Len(written) |-> written[i]]
      BY <1>1 DEF TypeOK, HistoryOK
  <2>2. \A i \in 1..Len(written) : written[i] \in OnDisk
      BY <1>1 DEF OnDisk
  <2>3. \A k \in OnDisk : \E i \in 1..Len(written) : written[i] = k
      BY <1>1 DEF OnDisk
  <2>4. QED
      BY <2>1, <2>2, <2>3
<1>4. written \in Bijection(1..Len(written), OnDisk)
    BY <1>2, <1>3, Fun_IsBij
<1>5. ExistsBijection(1..Len(written), OnDisk)
    BY <1>4 DEF ExistsBijection
<1>6. IsFiniteSet(1..Len(written)) /\ Cardinality(1..Len(written)) = Len(written)
    BY <1>1, FS_Interval
<1>7. QED
    BY <1>5, <1>6, FS_Bijection

LEMMA OwnersCount ==
    ASSUME TypeOK, OrderOK, Owners
    PROVE  OneOwner
<1>1. /\ InFlight = Flying /\ IsFiniteSet(InFlight)
      /\ Cardinality(ImagesInFlight) = Cardinality(InFlight)
    BY OneImagePerFrame
<1>2. IsFiniteSet(OnDisk) /\ Cardinality(OnDisk) = Len(written)
    BY OneFilePerFrame DEF OrderOK
<1>3. InFlight \cap OnDisk = {}
    BY <1>1, NotWritten DEF Flying
<1>4. InFlight \cup OnDisk \cup freed = 1..Len(acquired)
    BY <1>1 DEF Owners
<1>5. (InFlight \cup OnDisk) \cap freed = {}
    BY <1>1 DEF Owners
<1>6. Len(acquired) \in Nat
    BY OnTheWayTypes
<1>7. /\ IsFiniteSet(1..Len(acquired))
      /\ Cardinality(1..Len(acquired)) = Len(acquired)
    BY <1>6, FS_Interval
<1>8. IsFiniteSet(freed)
  <2>1. freed \in SUBSET (1..Len(acquired))
      BY <1>4
  <2>2. QED
      BY <1>7, <2>1, FS_Subset
<1>9. /\ IsFiniteSet(InFlight \cup OnDisk)
      /\ Cardinality(InFlight \cup OnDisk) = Cardinality(InFlight) + Cardinality(OnDisk)
  <2>1. /\ IsFiniteSet(InFlight \cup OnDisk)
        /\ Cardinality(InFlight \cup OnDisk) =
             Cardinality(InFlight) + Cardinality(OnDisk) - Cardinality(InFlight \cap OnDisk)
      BY <1>1, <1>2, FS_Union
  <2>2. Cardinality(InFlight \cap OnDisk) = 0
      BY <1>3, FS_EmptySet
  <2>3. Cardinality(InFlight) \in Nat /\ Cardinality(OnDisk) \in Nat
      BY <1>1, <1>2, FS_CardinalityType
  <2>4. QED
      BY <2>1, <2>2, <2>3
<1>10. Cardinality(1..Len(acquired)) = Cardinality(InFlight \cup OnDisk) + Cardinality(freed)
  <2>1. Cardinality((InFlight \cup OnDisk) \cup freed) =
             Cardinality(InFlight \cup OnDisk) + Cardinality(freed)
               - Cardinality((InFlight \cup OnDisk) \cap freed)
      BY <1>8, <1>9, FS_Union
  <2>2. Cardinality((InFlight \cup OnDisk) \cap freed) = 0
      BY <1>5, FS_EmptySet
  <2>3. Cardinality(InFlight \cup OnDisk) \in Nat /\ Cardinality(freed) \in Nat
      BY <1>8, <1>9, FS_CardinalityType
  <2>4. Cardinality(1..Len(acquired)) = Cardinality((InFlight \cup OnDisk) \cup freed)
      BY <1>4
  <2>5. QED
      BY <2>1, <2>2, <2>3, <2>4
<1>11. QED
    BY <1>1, <1>2, <1>4, <1>7, <1>9, <1>10 DEF OneOwner

\* The image of every frame has exactly one owner (fast.c:860-863,
\* fast_grabber.c:377, fast_storage.c:124-134).
THEOREM OneOwnerIsKept == Spec => []OneOwner
BY OwnersCount, OwnersAreKept, FramesStayInOrder, TypeCorrect, PTL

-----------------------------------------------------------------------------
(* The cumulative image.                                                   *)

\* An average of one or more frames, of those that were acquired.
Exact(frames, length) ==
    /\ frames # <<>> /\ AddsUp(frames, length)
    /\ \A i \in DOMAIN frames : frames[i] \in 1..Len(acquired)

\* What was added up is older than the frames that the main thread has yet to
\* take out of its queue.
AveragesOK ==
    /\ imageTotal # <<>> => Exact(imageTotal, totalLength)
    /\ \A x \in OnTheWay : x.event = "AVERAGE_IMAGE" => Exact(x.frames, x.length)
    /\ \A i \in DOMAIN imageTotal : \A x \in Elements(serverQueue) :
          IsImage(x) => imageTotal[i] < x.upto

\* The camera goes on.
Extended ==
    /\ Len(acquired) \in Nat /\ Len(acquired') \in Nat /\ Len(acquired') >= Len(acquired)
    /\ \A k \in 1..Len(acquired) : acquired'[k] = acquired[k]

LEMMA ExactStays ==
    ASSUME Extended, NEW frames, NEW length, Exact(frames, length)
    PROVE  Exact(frames, length)'
BY DEF Extended, Exact, AddsUp

LEMMA NotExtended ==
    ASSUME TypeOK, acquired' = acquired
    PROVE  Extended
<1>1. Len(acquired) \in Nat
    BY OnTheWayTypes
<1>2. QED
    BY <1>1 DEF Extended

\* Averages move, new frames come, and the cumulative image is forgotten.
LEMMA AveragesMoved ==
    ASSUME TypeOK, AveragesOK, Extended,
           UNCHANGED <<imageTotal, totalLength>> \/ imageTotal' = <<>>,
           \A x \in OnTheWay' : x.event = "AVERAGE_IMAGE" =>
               x \in OnTheWay \/ Exact(x.frames, x.length),
           \A x \in Elements(serverQueue') : IsImage(x) =>
               x \in Elements(serverQueue) \/ (x.upto \in Nat /\ x.upto > Len(acquired))
    PROVE  AveragesOK'
<1>1. (imageTotal # <<>> => Exact(imageTotal, totalLength))'
  <2>1. CASE UNCHANGED <<imageTotal, totalLength>> /\ imageTotal # <<>>
    <3>1. Exact(imageTotal, totalLength)
        BY <2>1 DEF AveragesOK
    <3>2. QED
        BY <2>1, <3>1 DEF Extended, Exact, AddsUp
  <2>2. QED
      BY <2>1
<1>2. (\A x \in OnTheWay : x.event = "AVERAGE_IMAGE" => Exact(x.frames, x.length))'
  <2>1. ASSUME NEW x \in OnTheWay', x.event = "AVERAGE_IMAGE"
        PROVE  Exact(x.frames, x.length)'
    <3>1. Exact(x.frames, x.length)
        BY <2>1 DEF AveragesOK
    <3>2. QED
        BY <3>1, ExactStays
  <2>2. QED
      BY <2>1
<1>3. ASSUME NEW i \in DOMAIN imageTotal', NEW x \in Elements(serverQueue'), IsImage(x)
      PROVE  imageTotal'[i] < x.upto
  <2>1. imageTotal' = imageTotal /\ imageTotal # <<>>
      BY <1>3
  <2>2. imageTotal[i] \in 1..Len(acquired) /\ Len(acquired) \in Nat
      BY <1>3, <2>1 DEF AveragesOK, Exact, Extended
  <2>3. CASE x \in Elements(serverQueue)
      BY <1>3, <2>1, <2>3 DEF AveragesOK
  <2>4. CASE x.upto \in Nat /\ x.upto > Len(acquired)
      BY <2>1, <2>2, <2>4
  <2>5. QED
      BY <1>3, <2>3, <2>4
<1>4. (\A i \in DOMAIN imageTotal : \A x \in Elements(serverQueue) :
          IsImage(x) => imageTotal[i] < x.upto)'
    BY <1>3
<1>5. QED
    BY <1>1, <1>2, <1>4 DEF AveragesOK

LEMMA ExactOne ==
    ASSUME NEW k \in 1..Len(acquired)
    PROVE  Exact(<<k>>, 1)
BY DEF Exact, AddsUp

\* One more frame, younger than the others and of their size.
LEMMA ExactAppend ==
    ASSUME NEW frames \in Seq(Nat), NEW length, Exact(frames, length),
           NEW k \in 1..Len(acquired), Len(acquired) \in Nat,
           \A i \in DOMAIN frames : frames[i] < k,
           acquired[Head(frames)].size = acquired[k].size
    PROVE  Exact(Append(frames, k), length + 1)
<1> DEFINE all == Append(frames, k)
<1>1. k \in Nat
    OBVIOUS
<1>2. /\ Len(frames) \in Nat /\ DOMAIN frames = 1..Len(frames)
      /\ DOMAIN all = 1..(Len(frames) + 1) /\ Len(all) = Len(frames) + 1
      /\ \A i \in 1..Len(frames) : all[i] = frames[i]
      /\ all[Len(frames) + 1] = k
    BY <1>1, AppendProperties, LenProperties
<1> HIDE DEF all
<1>3. frames # <<>> /\ length = Len(frames)
    BY DEF Exact, AddsUp
<1>4. 1 \in DOMAIN frames /\ Head(frames) = frames[1]
    BY <1>2, <1>3, HeadTailProperties
<1>5. \A i \in DOMAIN frames : acquired[frames[i]].size = acquired[k].size
    BY <1>4 DEF Exact, AddsUp
<1>6. \A i \in DOMAIN all : all[i] \in 1..Len(acquired) /\ acquired[all[i]].size = acquired[k].size
  <2>1. \A i \in 1..Len(frames) : all[i] \in 1..Len(acquired)
                                    /\ acquired[all[i]].size = acquired[k].size
      BY <1>2, <1>5 DEF Exact
  <2>2. QED
      BY <1>2, <2>1
<1>7. ASSUME NEW i \in DOMAIN all, NEW j \in DOMAIN all, i < j
      PROVE  all[i] < all[j]
  <2>1. i \in 1..Len(frames)
      BY <1>2, <1>7
  <2>2. CASE j \in 1..Len(frames)
      BY <1>2, <1>7, <2>1, <2>2 DEF Exact, AddsUp
  <2>3. CASE j = Len(frames) + 1
      BY <1>2, <2>1, <2>3
  <2>4. QED
      BY <1>2, <2>2, <2>3
<1>8. all # <<>>
    BY <1>2
<1>9. QED
    BY <1>2, <1>3, <1>6, <1>7, <1>8 DEF Exact, AddsUp, all

\* process_image: the frame is younger than those that were added up, and of
\* their size unless the cumulative image starts again.
LEMMA MainImageAverages ==
    ASSUME TypeOK, OrderOK, Owners, AveragesOK, MainImage
    PROVE  AveragesOK'
<1> DEFINE m == Head(serverQueue)
           fresh == \/ imageTotal = <<>>
                    \/ acquired[Head(imageTotal)].size # acquired[m.upto].size
<1>1. /\ serverQueue # <<>> /\ serverQueue' = QueueShift(serverQueue) /\ IsImage(m)
      /\ UNCHANGED <<storageHand, storageQueue, acquired>>
    BY DEF MainImage, MainGet, storageVars, history, IsImage
<1>2. /\ imageTotal' = Append(IF fresh THEN <<>> ELSE imageTotal, m.upto)
      /\ totalLength' = (IF fresh THEN 0 ELSE totalLength) + 1
      /\ \/ outbox' = <<m>>
         \/ outbox' = <<Average(imageTotal', totalLength', m.upto), m>>
    BY DEF MainImage
<1>3. /\ m \in Elements(serverQueue) /\ Elements(serverQueue') \subseteq Elements(serverQueue)
      /\ \A x \in Elements(serverQueue') : MayPrecede(m, x)
    BY <1>1, ShiftOrder DEF TypeOK, QueuesOK, OrderOK, InOrder, Precede
<1> HIDE DEF m, fresh
<1>4. m \in OnTheWay /\ m.upto \in Nat /\ m.upto \in 1..Len(acquired)
  <2>1. m \in OnTheWay
      BY <1>3 DEF OnTheWay
  <2>2. m.upto \in Flying
      BY <1>1, <2>1 DEF Flying, FramesOf
  <2>3. QED
      BY <1>1, <2>1, <2>2, OnTheWayTypes DEF Owners
<1>5. /\ Len(acquired) \in Nat /\ imageTotal \in Seq(Nat) /\ totalLength \in Nat
    BY OnTheWayTypes DEF TypeOK, MainOK
<1>6. Exact(imageTotal', totalLength')
  <2>1. CASE fresh
    <3>1. imageTotal' = <<m.upto>> /\ totalLength' = 1
        BY <1>2, <2>1
    <3>2. QED
        BY <1>4, <3>1, ExactOne
  <2>2. CASE ~fresh
    <3>1. /\ imageTotal # <<>> /\ acquired[Head(imageTotal)].size = acquired[m.upto].size
          /\ imageTotal' = Append(imageTotal, m.upto) /\ totalLength' = totalLength + 1
        BY <1>2, <2>2 DEF fresh
    <3>2. Exact(imageTotal, totalLength) /\ \A i \in DOMAIN imageTotal : imageTotal[i] < m.upto
        BY <1>1, <1>3, <3>1 DEF AveragesOK
    <3>3. QED
        BY <1>4, <1>5, <3>1, <3>2, ExactAppend
  <2>3. QED
      BY <2>1, <2>2
<1>7. \A frames, length : Exact(frames, length) => Exact(frames, length)'
    BY <1>1 DEF Exact, AddsUp
<1>8. (imageTotal # <<>> => Exact(imageTotal, totalLength))'
    BY <1>1, <1>6 DEF Exact, AddsUp
<1>9. (\A x \in OnTheWay : x.event = "AVERAGE_IMAGE" => Exact(x.frames, x.length))'
  <2>1. ASSUME NEW x \in OnTheWay', x.event = "AVERAGE_IMAGE"
        PROVE  Exact(x.frames, x.length)'
    <3>1. CASE x \in OnTheWay
        BY <1>7, <2>1, <3>1 DEF AveragesOK
    <3>2. CASE x \in Elements(outbox')
      <4> DEFINE a == Average(imageTotal', totalLength', m.upto)
      <4>1. x \in {a, m}
        <5>1. Elements(<<m>>) = {m}
            BY OneSorted
        <5>2. Elements(<<a, m>>) = {a, m}
            BY DEF Elements
        <5> HIDE DEF a
        <5>3. outbox' = <<m>> \/ outbox' = <<a, m>>
            BY <1>2 DEF a
        <5>4. QED
            BY <3>2, <5>1, <5>2, <5>3
      <4>2. a.frames = imageTotal' /\ a.length = totalLength'
          BY DEF Average, Message
      <4>3. x = a
          BY <1>1, <2>1, <4>1 DEF IsImage
      <4> HIDE DEF a
      <4>4. Exact(x.frames, x.length)
          BY <1>6, <4>2, <4>3
      <4>5. QED
          BY <1>7, <4>4
    <3>3. QED
        BY <1>1, <1>3, <3>1, <3>2 DEF OnTheWay
  <2>2. QED
      BY <2>1
<1>10. ASSUME NEW i \in DOMAIN imageTotal', NEW x \in Elements(serverQueue'), IsImage(x)
       PROVE  imageTotal'[i] < x.upto
  <2>1. imageTotal'[i] <= m.upto /\ imageTotal'[i] \in Nat
    <3>1. CASE fresh
        BY <1>2, <1>4, <1>10, <3>1
    <3>2. CASE ~fresh
      <4>1. imageTotal' = Append(imageTotal, m.upto) /\ imageTotal # <<>>
          BY <1>2, <3>2 DEF fresh
      <4>2. /\ DOMAIN imageTotal' = 1..(Len(imageTotal) + 1) /\ DOMAIN imageTotal = 1..Len(imageTotal)
            /\ \A j \in 1..Len(imageTotal) : imageTotal'[j] = imageTotal[j] /\ imageTotal[j] \in Nat
            /\ imageTotal'[Len(imageTotal) + 1] = m.upto /\ Len(imageTotal) \in Nat
          BY <1>4, <1>5, <4>1, AppendProperties, LenProperties, ElementOfSeq
      <4>3. CASE i \in 1..Len(imageTotal)
        <5>1. imageTotal[i] < m.upto
            BY <1>1, <1>3, <4>2, <4>3 DEF AveragesOK
        <5>2. QED
            BY <1>4, <4>2, <4>3, <5>1
      <4>4. QED
          BY <1>4, <1>10, <4>2, <4>3
    <3>3. QED
        BY <3>1, <3>2
  <2>2. x \in OnTheWay /\ x.upto \in Nat /\ MayPrecede(m, x)
    <3>1. x \in OnTheWay
        BY <1>3 DEF OnTheWay
    <3>2. QED
        BY <1>3, <1>10, <3>1, OnTheWayTypes
  <2>3. m.upto <= x.upto /\ m.upto # x.upto
      BY <1>1, <1>4, <1>10, <2>2 DEF MayPrecede, IsImage
  <2>4. QED
      BY <1>4, <2>1, <2>2, <2>3
<1>11. (\A i \in DOMAIN imageTotal : \A x \in Elements(serverQueue) :
          IsImage(x) => imageTotal[i] < x.upto)'
    BY <1>10
<1>12. QED
    BY <1>8, <1>9, <1>11 DEF AveragesOK

\* The average at the end of an acquisition.
LEMMA MainStoppedAverages ==
    ASSUME TypeOK, OrderOK, AveragesOK, MainAcquisitionStopped
    PROVE  AveragesOK'
<1> DEFINE m == Head(serverQueue)
           stop == Notice("STOP", m.upto)
           a == Average(imageTotal, totalLength, m.upto)
<1>1. /\ serverQueue # <<>> /\ serverQueue' = QueueShift(serverQueue)
      /\ UNCHANGED <<storageHand, storageQueue, acquired, imageTotal, totalLength>>
      /\ outbox' = IF imageTotal = <<>> THEN <<stop>> ELSE <<a, stop>>
    BY DEF MainAcquisitionStopped, MainGet, storageVars, history
<1>2. Elements(serverQueue') \subseteq Elements(serverQueue)
    BY <1>1, ShiftOrder DEF TypeOK, QueuesOK, OrderOK, InOrder
<1>3. /\ a.frames = imageTotal /\ a.length = totalLength /\ stop.event = "STOP"
    BY DEF Average, Notice, Message
<1> HIDE DEF a, stop
<1>4. ASSUME NEW x \in Elements(outbox'), x.event = "AVERAGE_IMAGE"
      PROVE  Exact(x.frames, x.length)
  <2>1. CASE imageTotal = <<>>
    <3>1. Elements(outbox') = {stop}
        BY <1>1, <2>1, OneSorted
    <3>2. QED
        BY <1>3, <1>4, <3>1
  <2>2. CASE imageTotal # <<>>
    <3>1. Elements(outbox') = {a, stop}
      <4>1. Elements(<<a, stop>>) = {a, stop}
          BY DEF Elements
      <4>2. QED
          BY <1>1, <2>2, <4>1
    <3>2. x = a
        BY <1>3, <1>4, <3>1
    <3>3. QED
        BY <1>3, <2>2, <3>2 DEF AveragesOK
  <2>3. QED
      BY <2>1, <2>2
<1>5. \A x \in OnTheWay' : x.event = "AVERAGE_IMAGE" =>
               x \in OnTheWay \/ Exact(x.frames, x.length)
    BY <1>1, <1>2, <1>4 DEF OnTheWay
<1>6. Extended
    BY <1>1, NotExtended
<1>7. QED
    BY <1>1, <1>2, <1>5, <1>6, AveragesMoved

\* A queue hands out and takes in nothing but what it is given.
LEMMA AddContents ==
    ASSUME NEW S, NEW q \in Seq(S), NEW m \in S, NEW limit, Sorted(q)
    PROVE  Elements(QueueAdd(q, m, limit)) \subseteq Elements(q) \cup {m}
<1> DEFINE rest == IF QueueIsFull(q, limit) THEN QueueShift(q) ELSE q
<1>1. rest \in Seq(S) /\ Elements(rest) \subseteq Elements(q)
    BY ShiftType, ShiftOrder
<1>2. QueueAdd(q, m, limit) = Append(rest, m)
    BY DEF QueueAdd
<1> HIDE DEF rest
<1>3. /\ Len(Append(rest, m)) = Len(rest) + 1 /\ Len(rest) \in Nat
      /\ \A i \in 1..Len(rest) : Append(rest, m)[i] = rest[i]
      /\ Append(rest, m)[Len(rest) + 1] = m
    BY <1>1, AppendProperties, LenProperties
<1>4. Elements(Append(rest, m)) \subseteq Elements(rest) \cup {m}
    BY <1>3 DEF Elements
<1>5. QED
    BY <1>1, <1>2, <1>4

LEMMA ToStorageContents ==
    ASSUME TypeOK, OrderOK, NEW m \in StorageMessages, ToStorage(m)
    PROVE  Elements(storageQueue') \subseteq Elements(storageQueue) \cup {m}
BY AddContents DEF TypeOK, QueuesOK, OrderOK, InOrder, ToStorage

LEMMA MainAverages ==
    ASSUME TypeOK, OrderOK, Owners, AveragesOK, MainTurn
    PROVE  AveragesOK'
<1>1. CASE MainNoMessage \/ MainLoop \/ MainExitGrabber \/ MainJoinGrabber
           \/ MainJoinStorage
  <2>1. UNCHANGED <<serverQueue, storageQueue, storageHand, outbox, imageTotal,
                    totalLength, acquired>>
      BY <1>1 DEF MainNoMessage, MainLoop, MainExitGrabber, MainJoinGrabber,
                  MainJoinStorage, MainPast, queues, storageVars, history
  <2>2. Extended /\ OnTheWay' = OnTheWay
      BY <2>1, NotExtended DEF OnTheWay
  <2>3. QED
      BY <2>1, <2>2, AveragesMoved
<1>2. CASE MainExitStorage
  <2>1. /\ UNCHANGED <<serverQueue, storageHand, outbox, imageTotal, totalLength, acquired>>
        /\ ToStorage(Order("EXIT"))
      BY <1>2 DEF MainExitStorage, MainPast, storageVars
  <2>2. Order("EXIT") \in StorageMessages /\ Order("EXIT").event # "AVERAGE_IMAGE"
      BY MessageTypes DEF Order, Message
  <2>3. \A x \in OnTheWay' : x \in OnTheWay \/ x = Order("EXIT")
      BY <2>1, <2>2, ToStorageContents DEF OnTheWay
  <2>4. Extended
      BY <2>1, NotExtended
  <2>5. QED
      BY <2>1, <2>2, <2>3, <2>4, AveragesMoved
<1>3. CASE MainSend
  <2> DEFINE m == Head(outbox)
  <2>1. /\ outbox \in Seq(MainMessages) /\ outbox # <<>>
        /\ ToStorage(m) /\ outbox' = QueueShift(outbox)
        /\ UNCHANGED <<storageHand, serverQueue, acquired, imageTotal, totalLength>>
      BY <1>3 DEF TypeOK, MainOK, MainSend, storageVars, QueueShift
  <2>2. Elements(outbox') \subseteq Elements(outbox) /\ m \in Elements(outbox)
      BY <2>1, ShiftOrder DEF OrderOK, InOrder
  <2>3. m \in StorageMessages
      BY <2>1, HeadTailProperties DEF MainMessages, StorageMessages, Messages
  <2> HIDE DEF m
  <2>4. \A x \in OnTheWay' : x \in OnTheWay
      BY <2>1, <2>2, <2>3, ToStorageContents DEF OnTheWay
  <2>5. Extended
      BY <2>1, NotExtended
  <2>6. QED
      BY <2>1, <2>4, <2>5, AveragesMoved
<1>4. QED
    BY <1>1, <1>2, <1>3, MainImageAverages, MainStoppedAverages DEF MainTurn

LEMMA CommandAverages ==
    ASSUME TypeOK, OrderOK, AveragesOK, MainCommand
    PROVE  AveragesOK'
<1> USE DEF MainCommand, CommandStart, CommandStop, CommandGrabber,
            CommandStorageStop, CommandExit, CommandStorageStart,
            CommandObject, CommandCountdown, Serving
<1>1. /\ UNCHANGED <<storageHand, serverQueue, outbox, acquired, totalLength>>
      /\ imageTotal' = imageTotal \/ imageTotal' = <<>>
    BY DEF storageVars, queues
<1>2. \/ ToStorage(Order("START")) \/ ToStorage(Order("STOP"))
      \/ UNCHANGED storageQueue
    BY DEF queues
<1> HIDE DEF MainCommand
<1>3. \A e \in {"START", "STOP"} :
         Order(e) \in StorageMessages /\ Order(e).event # "AVERAGE_IMAGE"
    BY MessageTypes DEF Order, Message
<1>4. \A x \in Elements(storageQueue') :
         x \in Elements(storageQueue) \/ x.event # "AVERAGE_IMAGE"
    BY <1>2, <1>3, ToStorageContents
<1>5. \A x \in OnTheWay' : x.event = "AVERAGE_IMAGE" => x \in OnTheWay
    BY <1>1, <1>4 DEF OnTheWay
<1>6. Extended
    BY <1>1, NotExtended
<1>7. QED
    BY <1>1, <1>5, <1>6, AveragesMoved

\* A new frame is younger than every other.
LEMMA GrabberAverages ==
    ASSUME TypeOK, OrderOK, AveragesOK, Grabber
    PROVE  AveragesOK'
<1>1. UNCHANGED <<storageHand, storageQueue, outbox, imageTotal, totalLength>>
    BY DEF Grabber, GrabberGet, GrabberNoImage, GrabberImage, GrabberCount,
           GrabberStore, GrabberNothing, GrabberStart, GrabberStop,
           GrabberCommand, GrabberExit, GrabberSwitch, GrabberStep,
           storageVars, mainVars
<1>2. Len(acquired) \in Nat
    BY OnTheWayTypes
<1>3. ASSUME NEW m \in ServerMessages, ToServer(m), Extended,
             IsImage(m) => m.upto = Len(acquired) + 1
      PROVE  AveragesOK'
  <2>1. Elements(serverQueue') \subseteq Elements(serverQueue) \cup {m}
      BY <1>3, AddContents DEF TypeOK, QueuesOK, OrderOK, InOrder, ToServer
  <2>2. m.event # "AVERAGE_IMAGE"
      BY DEF ServerMessages, Messages
  <2>3. QED
      BY <1>1, <1>2, <1>3, <2>1, <2>2, AveragesMoved DEF OnTheWay
<1>4. CASE GrabberImage
  <2>1. /\ ToServer(Image(Len(acquired) + 1))
        /\ acquired' = Append(acquired, [size |-> frameSize, series |-> series])
      BY <1>4 DEF GrabberImage
  <2>2. Extended
    <3>1. /\ acquired \in Seq([size : Sizes, series : Nat])
          /\ [size |-> frameSize, series |-> series] \in [size : Sizes, series : Nat]
        BY DEF TypeOK, HistoryOK, GrabberOK
    <3>2. QED
        BY <1>2, <2>1, <3>1, AppendProperties DEF Extended
  <2>3. Image(Len(acquired) + 1) \in ServerMessages
        /\ Image(Len(acquired) + 1).upto = Len(acquired) + 1
      BY <1>2, MessageTypes DEF Image, Message
  <2>4. QED
      BY <1>3, <2>1, <2>2, <2>3
<1>5. CASE /\ ToServer(Notice("ACQUISITION_STOPPED", Len(acquired)))
           /\ acquired' = acquired
  <2>1. /\ Notice("ACQUISITION_STOPPED", Len(acquired)) \in ServerMessages
        /\ ~IsImage(Notice("ACQUISITION_STOPPED", Len(acquired)))
    <3>1. Notice("ACQUISITION_STOPPED", Len(acquired)) \in ServerMessages
        BY <1>2, MessageTypes
    <3>2. ~IsImage(Notice("ACQUISITION_STOPPED", Len(acquired)))
        BY DEF Notice, Message, IsImage
    <3>3. QED
        BY <3>1, <3>2
  <2>2. Extended
      BY <1>5, NotExtended
  <2>3. QED
      BY <1>3, <1>5, <2>1, <2>2
<1>6. CASE UNCHANGED <<serverQueue, acquired>>
  <2>1. Extended /\ OnTheWay' = OnTheWay
      BY <1>1, <1>6, NotExtended DEF OnTheWay
  <2>2. QED
      BY <1>1, <1>6, <2>1, AveragesMoved
<1>7. \/ GrabberImage
      \/ /\ ToServer(Notice("ACQUISITION_STOPPED", Len(acquired)))
         /\ acquired' = acquired
      \/ UNCHANGED <<serverQueue, acquired>>
    BY DEF Grabber, GrabberGet, GrabberNoImage, GrabberCount, GrabberStore,
           GrabberNothing, GrabberStart, GrabberStop, GrabberCommand,
           GrabberExit, GrabberSwitch
<1>8. QED
    BY <1>4, <1>5, <1>6, <1>7

LEMMA StorageAverages ==
    ASSUME TypeOK, OrderOK, AveragesOK, Storage
    PROVE  AveragesOK'
<1>1. UNCHANGED <<serverQueue, outbox, imageTotal, totalLength, acquired>>
    BY DEF Storage, StorageGet, StorageStart, StorageStop, StorageDiscard, StorageImage,
           StorageAverage, StorageExit, StorageHandle, queues, mainVars, history
<1>2. Extended
    BY <1>1, NotExtended
<1>3. \A x \in OnTheWay' : x \in OnTheWay \/ x = Order("NONE")
  <2>1. CASE StorageGet
    <3>1. /\ Elements(storageQueue') \subseteq Elements(storageQueue)
          /\ storageHand' \in Elements(storageQueue)
        BY <2>1, ShiftOrder DEF StorageGet, TypeOK, QueuesOK, OrderOK, InOrder
    <3>2. QED
        BY <1>1, <3>1 DEF OnTheWay
  <2>2. CASE ~StorageGet
    <3>1. storageHand' = Order("NONE") /\ storageQueue' = storageQueue
        BY <2>2 DEF Storage, StorageStart, StorageStop, StorageDiscard, StorageImage,
                    StorageAverage, StorageExit, StorageHandle, queues
    <3>2. QED
        BY <1>1, <3>1 DEF OnTheWay
  <2>3. QED
      BY <2>1, <2>2
<1>4. Order("NONE").event # "AVERAGE_IMAGE"
    BY DEF Order, Message
<1>5. QED
    BY <1>1, <1>2, <1>3, <1>4, AveragesMoved

LEMMA AveragesNext ==
    TypeOK /\ OrderOK /\ Owners /\ AveragesOK /\ [Next]_vars => AveragesOK'
<1> SUFFICES ASSUME TypeOK, OrderOK, Owners, AveragesOK, [Next]_vars PROVE AveragesOK'
    OBVIOUS
<1>1. CASE Terminated \/ UNCHANGED vars
  <2>1. UNCHANGED <<serverQueue, storageQueue, storageHand, outbox, imageTotal,
                    totalLength, acquired>>
      BY <1>1 DEF Terminated, vars, queues, mainVars, storageVars, history
  <2>2. Extended /\ OnTheWay' = OnTheWay
      BY <2>1, NotExtended DEF OnTheWay
  <2>3. QED
      BY <2>1, <2>2, AveragesMoved
<1>2. QED
    BY <1>1, MainAverages, CommandAverages, GrabberAverages, StorageAverages DEF Next

LEMMA AveragesInit == Init => AveragesOK
<1> SUFFICES ASSUME Init PROVE AveragesOK
    OBVIOUS
<1>1. /\ serverQueue = <<>> /\ storageQueue = <<>> /\ outbox = <<>>
      /\ imageTotal = <<>> /\ storageHand = Order("NONE")
    BY DEF Init
<1>2. OnTheWay = {Order("NONE")}
    BY <1>1, EmptyOrder DEF OnTheWay
<1>3. QED
    BY <1>1, <1>2, EmptyOrder DEF AveragesOK, Order, Message

\* The cumulative image and every average of it on their way to the storage
\* add up distinct frames of one size that the camera delivered, and are
\* divided by their number (fast.c:127-140, 298-318, 378-384).
THEOREM AveragesStayExact == Spec => []AveragesOK
BY AveragesInit, AveragesNext, OwnersAreKept, FramesStayInOrder, TypeCorrect, PTL DEF Spec

\* The divisor of an average is the number of its frames, never zero, whatever
\* the queues and the order of the commands (fast.c:298-318, 378-384).
THEOREM AveragesDivideByTheirFrames == Spec => []AveragesAreExact
<1>1. ASSUME TypeOK, AveragesOK PROVE AveragesAreExact
  <2>1. \A i \in DOMAIN Pipeline : Pipeline[i] \in OnTheWay
      BY <1>1, PipelineOrder DEF Elements
  <2>2. QED
      BY <1>1, <2>1 DEF AveragesOK, Exact, AveragesAreExact
<1>2. QED
    BY <1>1, AveragesStayExact, TypeCorrect, PTL
-----------------------------------------------------------------------------
(* The frames flow as FrameFlow says.                                      *)

\* The frames that wait there are the ones that are on their way here.
LEMMA FlyingWait ==
    ASSUME TypeOK, OrderOK, Owners
    PROVE  Flow!Waiting = Flying /\ Flying \subseteq Nat
<1>1. OnDisk = Flow!Kept
    BY DEF OnDisk, Flow!Kept
<1>2. Flying \cap OnDisk = {}
    BY NotWritten DEF Flying
<1>3. Flying \subseteq 1..Len(acquired)
    BY DEF Owners
<1>4. QED
    BY <1>1, <1>2, <1>3 DEF Owners, Flow!Waiting

\* An addition deletes one frame of the queue at most, and none while there
\* is room.
LEMMA EvictsOne ==
    ASSUME NEW S, NEW q \in Seq(S), NEW limit \in Nat \ {0}
    PROVE  \/ EvictedFrames(q, limit) = {}
           \/ /\ QueueIsFull(q, limit)
              /\ \E k \in FramesOf(Elements(q)) : EvictedFrames(q, limit) = {k}
<1>1. CASE QueueIsFull(q, limit)
  <2>1. q # <<>> /\ QueueEvicted(q, limit) = <<Head(q)>>
      BY <1>1, LenProperties DEF QueueIsFull, QueueEvicted
  <2>2. Head(q) \in Elements(q)
      BY <2>1, ShiftOwners
  <2>3. EvictedFrames(q, limit) = IF IsImage(Head(q)) THEN {Head(q).upto} ELSE {}
    <3>1. DOMAIN <<Head(q)>> = {1} /\ <<Head(q)>>[1] = Head(q)
        OBVIOUS
    <3>2. QED
        BY <2>1, <3>1 DEF EvictedFrames
  <2>4. QED
      BY <1>1, <2>2, <2>3 DEF FramesOf
<1>2. CASE ~QueueIsFull(q, limit)
  <2>1. QueueEvicted(q, limit) = <<>>
      BY <1>2 DEF QueueEvicted
  <2>2. EvictedFrames(q, limit) = {}
      BY <2>1 DEF EvictedFrames
  <2>3. QED
      BY <2>2
<1>3. QED
    BY <1>1, <1>2

LEMMA AdditionsMakeRoom ==
    ASSUME TypeOK, OrderOK, Owners,
           (\E m : ToServer(m)) \/ (\E m : ToStorage(m)) \/ freed' = freed
    PROVE  Flow!MakeRoom \/ freed' = freed
<1>1. /\ Flow!Waiting = Flying
      /\ FramesOf(Elements(serverQueue)) \subseteq Flying
      /\ FramesOf(Elements(storageQueue)) \subseteq Flying
    BY FlyingWait, FlyingParts
<1>2. CASE \E m : ToServer(m)
  <2>1. freed' = freed \cup EvictedFrames(serverQueue, ServerMax)
      BY <1>2 DEF ToServer
  <2>2. \/ EvictedFrames(serverQueue, ServerMax) = {}
        \/ /\ QueueIsFull(serverQueue, ServerMax)
           /\ \E k \in FramesOf(Elements(serverQueue)) : EvictedFrames(serverQueue, ServerMax) = {k}
      BY EvictsOne, FastAssumption DEF TypeOK, QueuesOK
  <2>3. QED
      BY <1>1, <2>1, <2>2 DEF Flow!MakeRoom
<1>3. CASE \E m : ToStorage(m)
  <2>1. freed' = freed \cup EvictedFrames(storageQueue, StorageMax)
      BY <1>3 DEF ToStorage
  <2>2. \/ EvictedFrames(storageQueue, StorageMax) = {}
        \/ /\ QueueIsFull(storageQueue, StorageMax)
           /\ \E k \in FramesOf(Elements(storageQueue)) :
                  EvictedFrames(storageQueue, StorageMax) = {k}
      BY EvictsOne, FastAssumption DEF TypeOK, QueuesOK
  <2>3. QED
      BY <1>1, <2>1, <2>2 DEF Flow!MakeRoom
<1>4. QED
    BY <1>2, <1>3

\* A step that leaves the number of frames and what is stored alone.
LEMMA FlowRoom ==
    ASSUME TypeOK, OrderOK, Owners, UNCHANGED <<acquired, written, isStorage>>,
           (\E m : ToServer(m)) \/ (\E m : ToStorage(m)) \/ freed' = freed
    PROVE  [Flow!FlowNext]_Flow!flow
<1>1. Flow!MakeRoom \/ freed' = freed
    BY AdditionsMakeRoom
<1>2. Len(acquired') = Len(acquired)
    OBVIOUS
<1>3. QED
    BY <1>1, <1>2 DEF Flow!FlowNext, Flow!Overflow, Flow!flow

LEMMA MainFlow ==
    ASSUME TypeOK, OrderOK, Owners, MainTurn \/ MainCommand
    PROVE  [Flow!FlowNext]_Flow!flow
<1> USE DEF MainNoMessage, MainImage, MainAcquisitionStopped, MainGet, MainSend, MainLoop,
            MainExitGrabber, MainExitStorage, MainJoinGrabber, MainJoinStorage, MainPast,
            CommandStart, CommandStop, CommandGrabber, CommandStorageStart, CommandStorageStop,
            CommandObject, CommandCountdown, CommandExit, Serving
<1>1. UNCHANGED <<acquired, written, isStorage>>
    BY DEF MainTurn, MainCommand, shared, history
<1>2. (\E m : ToStorage(m)) \/ freed' = freed
    BY DEF MainTurn, MainCommand, history
<1>3. QED
    BY <1>1, <1>2, FlowRoom

LEMMA GrabberFlow ==
    ASSUME TypeOK, OrderOK, Owners, Grabber
    PROVE  [Flow!FlowNext]_Flow!flow
<1> USE DEF GrabberGet, GrabberNoImage, GrabberCount, GrabberStore, GrabberNothing,
            GrabberStart, GrabberStop, GrabberCommand, GrabberExit, GrabberSwitch, GrabberStep
<1>1. CASE GrabberImage
  <2>1. /\ \E m : ToServer(m)
        /\ acquired' = Append(acquired, [size |-> frameSize, series |-> series])
        /\ UNCHANGED <<written, isStorage>>
      BY <1>1 DEF GrabberImage
  <2>2. Len(acquired') = Len(acquired) + 1
    <3>1. /\ acquired \in Seq([size : Sizes, series : Nat])
          /\ [size |-> frameSize, series |-> series] \in [size : Sizes, series : Nat]
        BY DEF TypeOK, HistoryOK, GrabberOK
    <3>2. QED
        BY <2>1, <3>1, AppendProperties
  <2>3. Flow!MakeRoom \/ freed' = freed
      BY <2>1, AdditionsMakeRoom
  <2>4. QED
      BY <2>1, <2>2, <2>3 DEF Flow!FlowNext, Flow!Deliver
<1>2. CASE ~GrabberImage
  <2>1. UNCHANGED <<acquired, written, isStorage>>
      BY <1>2 DEF Grabber
  <2>2. (\E m : ToServer(m)) \/ freed' = freed
      BY <1>2 DEF Grabber
  <2>3. QED
      BY <2>1, <2>2, FlowRoom
<1>3. QED
    BY <1>1, <1>2

\* The frame in the hand of the storage thread is the oldest.
LEMMA HandIsNext ==
    ASSUME TypeOK, OrderOK, Owners, IsImage(storageHand)
    PROVE  storageHand.upto \in Flow!Waiting /\ Flow!IsNext(storageHand.upto)
<1> DEFINE rest == Elements(storageQueue) \cup Elements(outbox) \cup Elements(serverQueue)
<1>1. OnTheWay = {storageHand} \cup rest /\ Precede({storageHand}, rest)
    BY DEF OrderOK, InOrder, Precede, OnTheWay
<1>2. Flow!Waiting = Flying
    BY FlyingWait
<1>3. storageHand.upto \in Flying
    BY <1>1 DEF Flying, FramesOf
<1> HIDE DEF rest
<1>4. ASSUME NEW j \in Flying
      PROVE  storageHand.upto <= j
  <2>1. PICK x \in OnTheWay : IsImage(x) /\ x.upto = j
      BY DEF Flying, FramesOf
  <2>2. storageHand.upto \in Nat /\ x.upto \in Nat
      BY <1>1, <2>1, OnTheWayTypes
  <2>3. CASE x = storageHand
      BY <2>1, <2>2, <2>3
  <2>4. CASE x \in rest
      BY <1>1, <2>1, <2>2, <2>4 DEF Precede, MayPrecede
  <2>5. QED
      BY <1>1, <2>3, <2>4
<1>5. QED
    BY <1>2, <1>3, <1>4 DEF Flow!IsNext

LEMMA StorageFlow ==
    ASSUME TypeOK, OrderOK, Owners, Storage
    PROVE  [Flow!FlowNext]_Flow!flow
<1>1. Len(acquired') = Len(acquired)
    BY DEF Storage, StorageGet, StorageStart, StorageStop, StorageImage, StorageDiscard,
           StorageAverage, StorageExit, StorageHandle, history
<1>2. CASE StorageImage
  <2>1. /\ IsImage(storageHand) /\ isStorage /\ written' = Append(written, storageHand.upto)
        /\ UNCHANGED <<isStorage, freed>>
      BY <1>2 DEF StorageImage, StorageHandle, IsImage
  <2>2. QED
      BY <1>1, <2>1, HandIsNext DEF Flow!FlowNext, Flow!Keep
<1>3. CASE StorageDiscard
  <2>1. /\ IsImage(storageHand) /\ ~isStorage /\ freed' = freed \cup {storageHand.upto}
        /\ UNCHANGED <<isStorage, written>>
      BY <1>3 DEF StorageDiscard, StorageHandle, IsImage
  <2>2. QED
      BY <1>1, <2>1, HandIsNext DEF Flow!FlowNext, Flow!Discard
<1>4. CASE StorageStart \/ StorageStop
  <2>1. isStorage \in BOOLEAN /\ isStorage' \in BOOLEAN /\ UNCHANGED <<written, freed>>
      BY <1>4 DEF StorageStart, StorageStop, TypeOK, SharedOK
  <2>2. isStorage' = isStorage \/ isStorage' = ~isStorage
      BY <2>1
  <2>3. QED
      BY <1>1, <2>1, <2>2 DEF Flow!FlowNext, Flow!Switch, Flow!flow
<1>5. CASE StorageGet \/ StorageAverage \/ StorageExit
  <2>1. UNCHANGED <<isStorage, written, freed>>
      BY <1>5 DEF StorageGet, StorageAverage, StorageExit, shared, history
  <2>2. QED
      BY <1>1, <2>1 DEF Flow!flow
<1>6. QED
    BY <1>2, <1>3, <1>4, <1>5 DEF Storage

\* The first state and every step of the daemon are one of the promise, or
\* leave the frames alone (fast_grabber.c:377, fast.c:860-863,
\* fast_storage.c:124-134, queue.c:91-119).
THEOREM FramesFlow == Spec => ImplementsFrameFlow
<1>1. Init => Flow!FlowInit
    BY DEF Init, Flow!FlowInit
<1>2. TypeOK /\ OrderOK /\ Owners /\ [Next]_vars => [Flow!FlowNext]_Flow!flow
  <2> SUFFICES ASSUME TypeOK, OrderOK, Owners, [Next]_vars
               PROVE  [Flow!FlowNext]_Flow!flow
      OBVIOUS
  <2>1. CASE Terminated \/ UNCHANGED vars
    <3>1. UNCHANGED <<acquired, written, freed, isStorage>>
        BY <2>1 DEF Terminated, vars, history, shared
    <3>2. Len(acquired') = Len(acquired)
        BY <3>1
    <3>3. QED
        BY <3>1, <3>2 DEF Flow!flow
  <2>2. QED
      BY <2>1, MainFlow, GrabberFlow, StorageFlow DEF Next
<1>3. QED
    BY <1>1, <1>2, OwnersAreKept, FramesStayInOrder, TypeCorrect, PTL
       DEF Spec, ImplementsFrameFlow, Flow!FlowSpec
=============================================================================
