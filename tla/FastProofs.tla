----------------------------- MODULE FastProofs -----------------------------
(***************************************************************************)
(* Proofs about the daemon, for any limits of its queues, any number of    *)
(* files per directory, objects, frame sizes, commands and frames.         *)
(***************************************************************************)
EXTENDS FastProperties, SequenceTheorems, TLAPS

-----------------------------------------------------------------------------
(* Queues of typed messages.                                               *)

LEMMA ShortSequences ==
    ASSUME NEW S, NEW a \in S, NEW b \in S
    PROVE  /\ <<a>> \in Seq(S) /\ <<a>> # <<>>
           /\ <<a, b>> \in Seq(S) /\ <<a, b>> # <<>>
OBVIOUS

LEMMA ShiftType ==
    ASSUME NEW S, NEW q \in Seq(S)
    PROVE  /\ QueueShift(q) \in Seq(S)
           /\ q # <<>> => Head(q) \in S /\ Tail(q) \in Seq(S)
<1>1. CASE q = <<>>
  BY <1>1 DEF QueueShift
<1>2. CASE q # <<>>
  BY <1>2, HeadTailProperties DEF QueueShift
<1> QED BY <1>1, <1>2

LEMMA AddType ==
    ASSUME NEW S, NEW q \in Seq(S), NEW m \in S, NEW limit
    PROVE  QueueAdd(q, m, limit) \in Seq(S)
<1> DEFINE rest == IF QueueIsFull(q, limit) THEN QueueShift(q) ELSE q
<1>1. rest \in Seq(S)
  BY ShiftType
<1>2. QueueAdd(q, m, limit) = Append(rest, m)
  BY DEF QueueAdd
<1> HIDE DEF rest
<1> QED BY <1>1, <1>2, AppendProperties

LEMMA EvictedType ==
    ASSUME NEW events, NEW q \in Seq(Messages(events)), NEW limit \in Nat \ {0}
    PROVE  EvictedFrames(q, limit) \subseteq Nat
<1> DEFINE e == QueueEvicted(q, limit)
<1>1. e = <<>> \/ (e = <<Head(q)>> /\ Head(q) \in Messages(events))
  <2>1. CASE QueueIsFull(q, limit)
    <3>1. q # <<>>
      BY <2>1, LenProperties DEF QueueIsFull
    <3> QED BY <2>1, <3>1, ShiftType DEF QueueEvicted
  <2>2. CASE ~QueueIsFull(q, limit)
    BY <2>2 DEF QueueEvicted
  <2> QED BY <2>1, <2>2
<1>2. \A i \in DOMAIN e : e[i] \in Messages(events)
  BY <1>1
<1>3. \A m \in Messages(events) : IsImage(m) => m.upto \in Nat
  BY DEF Messages
<1> QED BY <1>2, <1>3 DEF EvictedFrames

LEMMA ToServerType ==
    ASSUME TypeOK, NEW m \in ServerMessages, ToServer(m)
    PROVE  serverQueue' \in Seq(ServerMessages) /\ freed' \subseteq Nat
<1>1. serverQueue \in Seq(ServerMessages) /\ freed \subseteq Nat
  BY DEF TypeOK, QueuesOK, HistoryOK
<1>2. EvictedFrames(serverQueue, ServerMax) \subseteq Nat
  BY <1>1, EvictedType, FastAssumption DEF ServerMessages
<1> QED BY <1>1, <1>2, AddType DEF ToServer

LEMMA ToStorageType ==
    ASSUME TypeOK, NEW m \in StorageMessages, ToStorage(m)
    PROVE  storageQueue' \in Seq(StorageMessages) /\ freed' \subseteq Nat
<1>1. storageQueue \in Seq(StorageMessages) /\ freed \subseteq Nat
  BY DEF TypeOK, QueuesOK, HistoryOK
<1>2. EvictedFrames(storageQueue, StorageMax) \subseteq Nat
  BY <1>1, EvictedType, FastAssumption DEF StorageMessages
<1> QED BY <1>1, <1>2, AddType DEF ToStorage

LEMMA ToGrabberType ==
    ASSUME TypeOK, NEW m \in GrabberMessages, ToGrabber(m)
    PROVE  grabberQueue' \in Seq(GrabberMessages)
BY AddType DEF TypeOK, QueuesOK, ToGrabber

\* The messages that the threads make.
LEMMA MessageTypes ==
    /\ \A e \in {"START", "STOP", "COMMAND", "EXIT"} : Order(e) \in GrabberMessages
    /\ \A e \in {"START", "STOP", "EXIT"} : Order(e) \in StorageMessages
    /\ Order("NONE") \in Messages({"NONE"}) /\ Order("NONE").event = "NONE"
    /\ \A u \in Int : /\ Notice("ACQUISITION_STOPPED", u) \in ServerMessages
                      /\ Notice("STOP", u) \in MainMessages
    /\ \A k \in Nat : Image(k) \in ServerMessages
    /\ \A fs \in Seq(Nat), n \in Nat, u \in Int : Average(fs, n, u) \in MainMessages
<1>1. <<>> \in Seq(Nat) /\ \A k \in Nat : <<k>> \in Seq(Nat)
  OBVIOUS
<1> QED
  BY <1>1
     DEF Order, Notice, Image, Average, Message, IsImage, Messages,
         GrabberMessages, StorageMessages, ServerMessages, MainMessages

-----------------------------------------------------------------------------
(* TypeOK is inductive.                                                    *)

LEMMA InitTypes == Init => TypeOK
<1> SUFFICES ASSUME Init PROVE TypeOK
  OBVIOUS
<1>1. storageHand \in Messages({"NONE"}) /\ storageHand.event = "NONE"
  BY MessageTypes DEF Init
<1>2. grabberQueue = <<>> \/ grabberQueue = <<Order("START")>>
  BY DEF Init
<1>3. Order("START") \in GrabberMessages
  BY MessageTypes
<1>4. grabberQueue \in Seq(GrabberMessages)
  <2>1. <<Order("START")>> \in Seq(GrabberMessages)
    BY <1>3, ShortSequences
  <2>2. <<>> \in Seq(GrabberMessages)
    BY EmptySeq
  <2> QED BY <1>2, <2>1, <2>2
<1>5. QueuesOK /\ HistoryOK
  BY <1>4 DEF Init, QueuesOK, HistoryOK
<1>6. SharedOK /\ MainOK
  <2>1. <<>> \in Seq(Nat) /\ <<>> \in Seq(MainMessages)
    BY EmptySeq
  <2>2. SharedOK
    <3>1. /\ countdown = -1 /\ storedLength = 0 /\ object \in Objects
          /\ isAcquisition = FALSE /\ isStorage = FALSE
      BY Zenon DEF Init
    <3>2. isAcquisition \in BOOLEAN /\ isStorage \in BOOLEAN
      BY <3>1, Zenon
    <3>3. countdown \in Int /\ storedLength \in Nat
      BY <3>1
    <3> QED BY <3>1, <3>2, <3>3, Zenon DEF SharedOK
  <2>3. MainOK
    BY <2>1 DEF Init, MainOK
  <2> QED BY <2>2, <2>3
<1>7. GrabberOK /\ StorageOK
  BY <1>1 DEF Init, GrabberOK, StorageOK
<1> QED BY <1>5, <1>6, <1>7 DEF TypeOK

\* A message of server_queue is taken.
LEMMA MainGetTypes ==
    ASSUME TypeOK, NEW event, MainGet(event)
    PROVE  /\ serverQueue' \in Seq(ServerMessages)
           /\ Head(serverQueue) \in ServerMessages
           /\ Head(serverQueue).event = event
BY ShiftType DEF TypeOK, QueuesOK, MainGet

LEMMA MainImageTypes ==
    ASSUME TypeOK, MainImage
    PROVE  TypeOK'
<1> DEFINE m == Head(serverQueue)
           fresh == \/ imageTotal = <<>>
                    \/ acquired[Head(imageTotal)].size # acquired[m.upto].size
           kept == IF fresh THEN <<>> ELSE imageTotal
           average == Average(imageTotal', totalLength', m.upto)
<1>1. /\ serverQueue' \in Seq(ServerMessages)
      /\ m \in ServerMessages /\ m.event = "IMAGE"
  BY MainGetTypes DEF MainImage
<1>2. m.upto \in Nat /\ m \in MainMessages
  BY <1>1 DEF ServerMessages, MainMessages, Messages, IsImage
<1>3. /\ imageTotal' = Append(kept, m.upto)
      /\ totalLength' = (IF fresh THEN 0 ELSE totalLength) + 1
      /\ outbox' = <<m>> \/ outbox' = <<average, m>>
  BY DEF MainImage
<1>4. kept \in Seq(Nat) /\ totalLength \in Nat
  BY DEF TypeOK, MainOK
<1> HIDE DEF kept, fresh, m
<1>5. imageTotal' \in Seq(Nat) /\ totalLength' \in Nat
  BY <1>2, <1>3, <1>4, AppendProperties
<1>6. average \in MainMessages
  BY <1>2, <1>5, MessageTypes
<1> HIDE DEF average
<1>7. outbox' \in Seq(MainMessages) /\ outbox' # <<>>
  BY <1>2, <1>3, <1>6, ShortSequences
<1>8. QueuesOK' /\ HistoryOK'
  BY <1>1 DEF TypeOK, QueuesOK, HistoryOK, MainImage,
         MainGet, shared, grabberVars, storageVars, history
<1>9. SharedOK' /\ MainOK'
  BY <1>5, <1>7 DEF TypeOK, SharedOK, MainOK, MainImage,
         MainGet, shared, grabberVars, storageVars, history
<1>10. GrabberOK' /\ StorageOK'
  BY DEF TypeOK, GrabberOK, StorageOK, MainImage,
         MainGet, shared, grabberVars, storageVars, history
<1> QED BY <1>8, <1>9, <1>10 DEF TypeOK

LEMMA MainStoppedTypes ==
    ASSUME TypeOK, MainAcquisitionStopped
    PROVE  TypeOK'
<1> DEFINE upto == Head(serverQueue).upto
           stop == Notice("STOP", upto)
           average == Average(imageTotal, totalLength, upto)
<1>1. serverQueue' \in Seq(ServerMessages) /\ upto \in Int
  BY MainGetTypes DEF MainAcquisitionStopped, ServerMessages, Messages
<1>2. outbox' = <<stop>> \/ outbox' = <<average, stop>>
  BY DEF MainAcquisitionStopped
<1> HIDE DEF upto
<1>3. stop \in MainMessages /\ average \in MainMessages
  BY <1>1, MessageTypes DEF TypeOK, MainOK
<1> HIDE DEF stop, average
<1>4. outbox' \in Seq(MainMessages) /\ outbox' # <<>>
  BY <1>2, <1>3, ShortSequences
<1>5. QueuesOK' /\ HistoryOK'
  BY <1>1 DEF TypeOK, QueuesOK, HistoryOK, MainAcquisitionStopped,
         MainGet, shared, grabberVars, storageVars, history
<1>6. SharedOK' /\ MainOK'
  BY <1>4 DEF TypeOK, SharedOK, MainOK, MainAcquisitionStopped,
         MainGet, shared, grabberVars, storageVars, history
<1>7. GrabberOK' /\ StorageOK'
  BY DEF TypeOK, GrabberOK, StorageOK, MainAcquisitionStopped,
         MainGet, shared, grabberVars, storageVars, history
<1> QED BY <1>5, <1>6, <1>7 DEF TypeOK

LEMMA MainSendTypes ==
    ASSUME TypeOK, MainSend
    PROVE  TypeOK'
<1>1. outbox \in Seq(MainMessages) /\ outbox # <<>> /\ Len(outbox) \in Nat
  BY LenProperties DEF TypeOK, MainOK, MainSend
<1>2. /\ Head(outbox) \in MainMessages
      /\ Tail(outbox) \in Seq(MainMessages) /\ Len(Tail(outbox)) = Len(outbox) - 1
  BY <1>1, HeadTailProperties
<1>3. Head(outbox) \in StorageMessages
  BY <1>2 DEF MainMessages, StorageMessages, Messages
<1>4. storageQueue' \in Seq(StorageMessages) /\ freed' \subseteq Nat
  BY <1>3, ToStorageType DEF MainSend
<1>5. mainPc' = "send" <=> outbox' # <<>>
  <2>1. Tail(outbox) = <<>> <=> Len(Tail(outbox)) = 0
    BY <1>2, EmptySeq
  <2>2. Tail(outbox) = <<>> <=> Len(outbox) = 1
    BY <2>1, <1>1, <1>2
  <2> QED BY <2>2 DEF MainSend
<1>6. QueuesOK' /\ HistoryOK'
  BY <1>4 DEF TypeOK, QueuesOK, HistoryOK, MainSend, shared,
         grabberVars, storageVars
<1>7. SharedOK' /\ MainOK'
  BY <1>2, <1>5 DEF TypeOK, SharedOK, MainOK, MainSend, shared,
         grabberVars, storageVars
<1>8. GrabberOK' /\ StorageOK'
  BY DEF TypeOK, GrabberOK, StorageOK, MainSend, shared,
         grabberVars, storageVars
<1> QED BY <1>6, <1>7, <1>8 DEF TypeOK

LEMMA MainLoopTypes ==
    ASSUME TypeOK,
           \/ MainNoMessage \/ MainLoop \/ MainExitGrabber \/ MainExitStorage
           \/ MainJoinGrabber \/ MainJoinStorage
    PROVE  TypeOK'
<1> USE DEF MainNoMessage, MainLoop, MainExitGrabber, MainExitStorage,
            MainJoinGrabber, MainJoinStorage, MainPast
<1>1. grabberQueue' \in Seq(GrabberMessages)
  <2>1. CASE MainExitGrabber
    BY <2>1, MessageTypes, ToGrabberType
  <2>2. CASE grabberQueue' = grabberQueue
    BY <2>2 DEF TypeOK, QueuesOK
  <2> QED BY <2>1, <2>2 DEF queues
<1>2. storageQueue' \in Seq(StorageMessages) /\ freed' \subseteq Nat
  <2>1. CASE MainExitStorage
    BY <2>1, MessageTypes, ToStorageType
  <2>2. CASE storageQueue' = storageQueue /\ freed' = freed
    BY <2>2 DEF TypeOK, QueuesOK, HistoryOK
  <2> QED BY <2>1, <2>2 DEF queues, history
<1>3. QueuesOK' /\ HistoryOK'
  BY <1>1, <1>2 DEF TypeOK, QueuesOK, HistoryOK, queues, history
<1>4. SharedOK' /\ MainOK'
  BY DEF TypeOK, SharedOK, MainOK, shared
<1>5. GrabberOK' /\ StorageOK'
  BY DEF TypeOK, GrabberOK, StorageOK, grabberVars, storageVars
<1> QED BY <1>3, <1>4, <1>5 DEF TypeOK

LEMMA CommandTypes ==
    ASSUME TypeOK, MainCommand
    PROVE  TypeOK'
<1> USE DEF MainCommand, CommandStart, CommandStop, CommandGrabber,
            CommandStorageStart, CommandStorageStop, CommandObject,
            CommandCountdown, CommandExit
<1>1. grabberQueue' \in Seq(GrabberMessages)
  <2>1. CASE CommandStart \/ CommandStop \/ CommandGrabber
    BY <2>1, MessageTypes, ToGrabberType
  <2>2. CASE grabberQueue' = grabberQueue
    BY <2>2 DEF TypeOK, QueuesOK
  <2> QED BY <2>1, <2>2 DEF queues
<1>2. storageQueue' \in Seq(StorageMessages) /\ freed' \subseteq Nat
  <2>1. CASE CommandStorageStop \/ \E name \in Objects : CommandStorageStart(name)
    BY <2>1, MessageTypes, ToStorageType
  <2>2. CASE storageQueue' = storageQueue /\ freed' = freed
    BY <2>2 DEF TypeOK, QueuesOK, HistoryOK
  <2> QED BY <2>1, <2>2 DEF queues
<1>3. QueuesOK' /\ HistoryOK'
  BY <1>1, <1>2 DEF TypeOK, QueuesOK, HistoryOK, queues, Serving
<1>4. SharedOK' /\ MainOK'
  <2>1. imageTotal' \in Seq(Nat)
    <3>1. imageTotal' = imageTotal \/ imageTotal' = <<>>
      OBVIOUS
    <3>2. <<>> \in Seq(Nat)
      BY EmptySeq
    <3> QED BY <3>1, <3>2 DEF TypeOK, MainOK
  <2>2. countdown' \in Int /\ object' \in Objects
    BY FastAssumption DEF TypeOK, SharedOK
  <2>3. SharedOK'
    BY <2>2 DEF TypeOK, SharedOK, Serving
  <2>4. MainOK'
    BY <2>1 DEF TypeOK, MainOK, Serving
  <2> QED BY <2>3, <2>4
<1>5. GrabberOK' /\ StorageOK'
  BY DEF TypeOK, GrabberOK, StorageOK, grabberVars, storageVars, Serving
<1> QED BY <1>3, <1>4, <1>5 DEF TypeOK

\* What every step of the grabber thread leaves alone.
LEMMA GrabberKeeps ==
    ASSUME TypeOK, NEW from, NEW to, GrabberStep(from, to)
    PROVE  MainOK' /\ StorageOK' /\ storageQueue' \in Seq(StorageMessages)
<1>1. MainOK'
  BY DEF TypeOK, MainOK, GrabberStep, mainVars
<1>2. StorageOK' /\ storageQueue' \in Seq(StorageMessages)
  BY DEF TypeOK, StorageOK, QueuesOK, GrabberStep, storageVars
<1> QED BY <1>1, <1>2

LEMMA GrabberGetTypes ==
    ASSUME TypeOK, GrabberGet
    PROVE  TypeOK'
<1>1. GrabberStep("get", "wait")
  BY DEF GrabberGet
<1>2. /\ grabberQueue' \in Seq(GrabberMessages)
      /\ grabberQueue # <<>> => Head(grabberQueue) \in GrabberMessages
  BY ShiftType DEF TypeOK, QueuesOK, GrabberGet
<1>3. grabberEvent' \in {"NONE", "START", "STOP", "COMMAND", "EXIT"}
  BY <1>2 DEF GrabberGet, GrabberMessages, Messages
<1>4. QueuesOK' /\ HistoryOK'
  BY <1>1, <1>2, GrabberKeeps DEF TypeOK, QueuesOK, HistoryOK, GrabberGet, GrabberStep
<1>5. SharedOK' /\ GrabberOK'
  BY <1>3 DEF TypeOK, SharedOK, GrabberOK, GrabberGet, GrabberStep
<1> QED BY <1>1, <1>4, <1>5, GrabberKeeps DEF TypeOK

LEMMA GrabberWaitTypes ==
    ASSUME TypeOK, GrabberNoImage \/ GrabberImage \/ GrabberCount \/ GrabberStore
    PROVE  TypeOK'
<1> USE DEF GrabberNoImage, GrabberImage, GrabberCount, GrabberStore
<1>1. \E from, to : GrabberStep(from, to)
  OBVIOUS
<1>2. Len(acquired) \in Nat
  BY LenProperties DEF TypeOK, HistoryOK
<1>3. serverQueue' \in Seq(ServerMessages) /\ freed' \subseteq Nat
  <2>1. /\ Image(Len(acquired) + 1) \in ServerMessages
        /\ Notice("ACQUISITION_STOPPED", Len(acquired)) \in ServerMessages
    BY <1>2, MessageTypes
  <2>2. \/ UNCHANGED <<serverQueue, freed>>
        \/ ToServer(Image(Len(acquired) + 1))
        \/ ToServer(Notice("ACQUISITION_STOPPED", Len(acquired)))
    OBVIOUS
  <2>3. CASE UNCHANGED <<serverQueue, freed>>
    BY <2>3 DEF TypeOK, QueuesOK, HistoryOK
  <2> QED BY <2>1, <2>2, <2>3, ToServerType
<1>4. acquired' \in Seq([size : Sizes, series : Nat])
  <2>1. CASE acquired' = acquired
    BY <2>1 DEF TypeOK, HistoryOK
  <2>2. CASE acquired' = Append(acquired, [size |-> frameSize, series |-> series])
    <3>1. /\ [size |-> frameSize, series |-> series] \in [size : Sizes, series : Nat]
          /\ acquired \in Seq([size : Sizes, series : Nat])
      BY DEF TypeOK, GrabberOK, HistoryOK
    <3> QED BY <2>2, <3>1, AppendProperties
  <2> QED BY <2>1, <2>2
<1>5. QueuesOK' /\ HistoryOK'
  BY <1>1, <1>3, <1>4, GrabberKeeps DEF TypeOK, QueuesOK, HistoryOK, GrabberStep
<1>6. SharedOK'
  BY DEF TypeOK, SharedOK, GrabberOK, GrabberStep
<1>7. GrabberOK'
  BY DEF TypeOK, SharedOK, GrabberOK, GrabberStep
<1> QED BY <1>1, <1>5, <1>6, <1>7, GrabberKeeps DEF TypeOK

LEMMA GrabberSwitchTypes ==
    ASSUME TypeOK,
           \/ GrabberNothing \/ GrabberStart \/ GrabberStop
           \/ GrabberCommand \/ GrabberExit
    PROVE  TypeOK'
<1> USE DEF GrabberNothing, GrabberStart, GrabberStop, GrabberCommand, GrabberExit,
            GrabberSwitch, CameraStart, CameraStop
<1>1. \E from, to : GrabberStep(from, to)
  OBVIOUS
<1>2. serverQueue' \in Seq(ServerMessages) /\ freed' \subseteq Nat
  <2>1. Notice("ACQUISITION_STOPPED", Len(acquired)) \in ServerMessages
    BY MessageTypes, LenProperties DEF TypeOK, HistoryOK
  <2>2. \/ UNCHANGED <<serverQueue, freed>>
        \/ ToServer(Notice("ACQUISITION_STOPPED", Len(acquired)))
    OBVIOUS
  <2>3. CASE UNCHANGED <<serverQueue, freed>>
    BY <2>3 DEF TypeOK, QueuesOK, HistoryOK
  <2> QED BY <2>1, <2>2, <2>3, ToServerType
<1>3. QueuesOK' /\ HistoryOK'
  <2>1. grabberQueue' = grabberQueue /\ storageQueue' = storageQueue
    BY DEF GrabberStep
  <2>2. /\ acquired' = acquired /\ written' = written /\ issued' = issued
        /\ series' = series \/ series' = series + 1
    BY DEF GrabberStep
  <2>3. QueuesOK'
    BY <1>2, <2>1 DEF TypeOK, QueuesOK
  <2>4. HistoryOK'
    BY <1>2, <2>2 DEF TypeOK, HistoryOK
  <2> QED BY <2>3, <2>4
<1>4. SharedOK'
  BY DEF TypeOK, SharedOK, GrabberStep
<1>5. GrabberOK'
  BY DEF TypeOK, GrabberOK, GrabberStep
<1> QED BY <1>1, <1>3, <1>4, <1>5, GrabberKeeps DEF TypeOK

LEMMA StorageGetTypes ==
    ASSUME TypeOK, StorageGet
    PROVE  TypeOK'
<1>1. /\ storageQueue' \in Seq(StorageMessages)
      /\ storageHand' \in StorageMessages
  BY ShiftType DEF TypeOK, QueuesOK, StorageGet
<1>2. storageHand'.event # "NONE"
  BY <1>1 DEF StorageMessages, Messages
<1>3. QueuesOK' /\ HistoryOK'
  BY <1>1 DEF TypeOK, QueuesOK, HistoryOK, StorageGet, history
<1>4. SharedOK' /\ MainOK'
  BY DEF TypeOK, SharedOK, MainOK, StorageGet, shared, mainVars
<1>5. GrabberOK' /\ StorageOK'
  BY <1>1, <1>2 DEF TypeOK, GrabberOK, StorageOK, StorageGet, grabberVars
<1> QED BY <1>3, <1>4, <1>5 DEF TypeOK

LEMMA StorageHandleTypes ==
    ASSUME TypeOK,
           \/ StorageStart \/ StorageStop \/ StorageImage \/ StorageDiscard
           \/ StorageAverage \/ StorageExit
    PROVE  TypeOK'
<1> USE DEF StorageStart, StorageStop, StorageImage, StorageDiscard,
            StorageAverage, StorageExit, StorageHandle, PrepareStorage
<1>1. storageHand' = Order("NONE") /\ storagePc' \in {"get", "done"}
  OBVIOUS
<1>2. storageHand' \in Messages({"NONE"}) /\ storageHand'.event = "NONE"
  BY <1>1, MessageTypes
<1>3. storageHand.event = "IMAGE" => storageHand.upto \in Nat
  BY DEF TypeOK, StorageOK, StorageMessages, Messages, IsImage
<1>4. written' \in Seq(Nat) /\ freed' \subseteq Nat
  <2>1. CASE UNCHANGED written
    BY <1>3, <2>1 DEF TypeOK, HistoryOK
  <2>2. CASE StorageImage
    BY <1>3, <2>2, AppendProperties DEF TypeOK, HistoryOK
  <2> QED BY <2>1, <2>2
<1>5. QueuesOK' /\ HistoryOK'
  BY <1>4 DEF TypeOK, QueuesOK, HistoryOK, queues
<1>6. SharedOK'
  <2>1. /\ countdown' = countdown /\ isAcquisition' = isAcquisition
        /\ object' = object
    BY DEF StorageHandle
  <2>2. isStorage' = isStorage \/ isStorage' = TRUE \/ isStorage' = FALSE
    OBVIOUS
  <2>3. storedLength' \in {storedLength, 0, storedLength + 1}
    OBVIOUS
  <2>4. isStorage' \in BOOLEAN
    BY <2>2, Zenon DEF TypeOK, SharedOK
  <2>5. storedLength' \in Nat
    BY <2>3 DEF TypeOK, SharedOK
  <2> QED BY <2>1, <2>4, <2>5, Zenon DEF TypeOK, SharedOK
<1>7. MainOK' /\ GrabberOK'
  BY DEF TypeOK, MainOK, GrabberOK, mainVars, grabberVars
<1>8. StorageOK'
  BY <1>1, <1>2 DEF TypeOK, SharedOK, StorageOK
<1> QED BY <1>5, <1>6, <1>7, <1>8 DEF TypeOK

LEMMA UnchangedTypes ==
    ASSUME TypeOK, UNCHANGED vars
    PROVE  TypeOK'
<1>1. QueuesOK' /\ HistoryOK'
  BY DEF TypeOK, QueuesOK, HistoryOK, vars, queues, history
<1>2. SharedOK' /\ MainOK'
  BY DEF TypeOK, SharedOK, MainOK, vars, shared, mainVars
<1>3. GrabberOK' /\ StorageOK'
  BY DEF TypeOK, GrabberOK, StorageOK, vars, grabberVars, storageVars
<1> QED BY <1>1, <1>2, <1>3 DEF TypeOK

LEMMA NextTypes == TypeOK /\ [Next]_vars => TypeOK'
<1> SUFFICES ASSUME TypeOK, [Next]_vars PROVE TypeOK'
  OBVIOUS
<1>1. CASE MainTurn
  BY <1>1, MainImageTypes, MainStoppedTypes, MainSendTypes, MainLoopTypes
     DEF MainTurn
<1>2. CASE MainCommand
  BY <1>2, CommandTypes
<1>3. CASE Grabber
  BY <1>3, GrabberGetTypes, GrabberWaitTypes, GrabberSwitchTypes DEF Grabber
<1>4. CASE Storage
  BY <1>4, StorageGetTypes, StorageHandleTypes DEF Storage
<1>5. CASE Terminated \/ UNCHANGED vars
  BY <1>5, UnchangedTypes DEF Terminated
<1> QED BY <1>1, <1>2, <1>3, <1>4, <1>5 DEF Next

\* Every field of the daemon keeps its type, and each thread gets only
\* messages of the events that its switch handles (fast.c:857-872,
\* fast_grabber.c:404-429, fast_storage.c:108-141).
THEOREM TypeCorrect == Spec => []TypeOK
BY InitTypes, NextTypes, PTL DEF Spec

-----------------------------------------------------------------------------
(* StorageReady is inductive together with TypeOK.                         *)

\* What StorageReady is about.
storageState == <<isStorage, current, storedLength, nframes>>

LEMMA ReadyInit == Init => StorageReady
<1> SUFFICES ASSUME Init PROVE StorageReady
  OBVIOUS
<1>1. nframes = 0 /\ isStorage = FALSE
  BY Zenon DEF Init
<1> QED BY <1>1, FastAssumption DEF StorageReady

LEMMA ReadyUnchanged ==
    ASSUME StorageReady, UNCHANGED storageState
    PROVE  StorageReady'
BY DEF StorageReady, storageState

\* The handlers that write the state of the storage.
LEMMA ReadyStart ==
    ASSUME TypeOK, StorageStart
    PROVE  StorageReady'
<1>1. current' \in Objects /\ nframes' = 0 /\ storedLength' = 0
  BY DEF StorageStart, PrepareStorage, TypeOK, SharedOK
<1> QED BY <1>1, FastAssumption DEF StorageReady

LEMMA ReadyImage ==
    ASSUME TypeOK, StorageReady, StorageImage
    PROVE  StorageReady'
<1>1. /\ current # NoDirectory /\ storedLength >= nframes
      /\ storedLength' = storedLength + 1
      /\ nframes \in Nat /\ storedLength \in Nat /\ MaxFilesPerDir \in Nat
  BY FastAssumption DEF StorageImage, StorageReady, TypeOK, SharedOK, StorageOK
<1>2. CASE nframes >= MaxFilesPerDir
  <2>1. current' \in Objects /\ nframes' = 1
    BY <1>2 DEF StorageImage, PrepareStorage, TypeOK, SharedOK
  <2> QED BY <1>1, <2>1, FastAssumption DEF StorageReady
<1>3. CASE ~(nframes >= MaxFilesPerDir)
  <2>1. current' = current /\ nframes' = nframes + 1
    BY <1>3 DEF StorageImage
  <2> QED BY <1>1, <1>3, <2>1 DEF StorageReady
<1> QED BY <1>2, <1>3

LEMMA ReadyStop ==
    ASSUME TypeOK, StorageReady, StorageStop
    PROVE  StorageReady'
<1>1. isStorage' = FALSE /\ nframes' = nframes
  BY DEF StorageStop
<1> QED BY <1>1 DEF StorageReady

LEMMA ReadyNext == TypeOK /\ StorageReady /\ [Next]_vars => StorageReady'
<1> SUFFICES ASSUME TypeOK, StorageReady, [Next]_vars PROVE StorageReady'
  OBVIOUS
<1>1. CASE MainTurn
  <2>1. UNCHANGED storageState
    BY <1>1 DEF MainTurn, MainNoMessage, MainImage, MainAcquisitionStopped,
                MainGet, MainSend, MainLoop, MainExitGrabber, MainExitStorage,
                MainJoinGrabber, MainJoinStorage, MainPast,
                shared, storageVars, storageState
  <2> QED BY <2>1, ReadyUnchanged
<1>2. CASE MainCommand
  <2>1. UNCHANGED storageState
    BY <1>2 DEF MainCommand, CommandStart, CommandStop, CommandGrabber,
                CommandStorageStop, CommandExit, CommandStorageStart,
                CommandObject, CommandCountdown, Serving, storageVars,
                storageState
  <2> QED BY <2>1, ReadyUnchanged
<1>3. CASE Grabber
  <2>1. UNCHANGED storageState
    BY <1>3 DEF Grabber, GrabberGet, GrabberNoImage, GrabberImage,
                GrabberCount, GrabberStore, GrabberNothing, GrabberStart,
                GrabberStop, GrabberCommand, GrabberExit, GrabberSwitch,
                GrabberStep, storageVars, storageState
  <2> QED BY <2>1, ReadyUnchanged
<1>4. CASE Storage
  <2>1. CASE StorageGet \/ StorageDiscard \/ StorageAverage \/ StorageExit
    <3>1. UNCHANGED storageState
      BY <2>1 DEF StorageGet, StorageDiscard, StorageAverage, StorageExit,
                  shared, storageState
    <3> QED BY <3>1, ReadyUnchanged
  <2> QED BY <1>4, <2>1, ReadyStart, ReadyImage, ReadyStop DEF Storage
<1>5. CASE Terminated \/ UNCHANGED vars
  <2>1. UNCHANGED storageState
    BY <1>5 DEF Terminated, vars, shared, storageVars, storageState
  <2> QED BY <2>1, ReadyUnchanged
<1> QED BY <1>1, <1>2, <1>3, <1>4, <1>5 DEF Next

\* Frames are stored only in a prepared directory, at most MAX_FILES_PER_DIR
\* of them in each, and the status counts them (fast_storage.c:113-134).
THEOREM StorageIsReady == Spec => []StorageReady
<1>1. TypeOK /\ StorageReady /\ [Next]_vars => StorageReady'
  BY ReadyNext
<1> QED BY <1>1, ReadyInit, TypeCorrect, PTL DEF Spec

-----------------------------------------------------------------------------
(* The end of the process: EXIT is in one place, and nothing is behind it. *)

NoExit(queue) == \A i \in 1..Len(queue) : queue[i].event # "EXIT"
ExitIsLast(queue) ==
    /\ queue # <<>> /\ queue[Len(queue)].event = "EXIT"
    /\ \A i \in 1..Len(queue) : queue[i].event = "EXIT" => i = Len(queue)

Joining == mainPc \in {"joinGrabber", "joinStorage", "deleted"}

\* Before fast.c:963 there is no EXIT for the storage thread; after it, the
\* EXIT is at the end of the queue, or the last thing that the thread got, or
\* obeyed.  The joins of fast.c:965-966 come back after the end of a thread.
ExitIsOnItsWay ==
    \/ ExitIsLast(storageQueue) /\ storageHand.event # "EXIT" /\ storagePc # "done"
    \/ storageQueue = <<>> /\ storageHand.event = "EXIT" /\ storagePc # "done"
    \/ storageQueue = <<>> /\ storageHand.event # "EXIT" /\ storagePc = "done"

NoExitYet ==
    NoExit(storageQueue) /\ storageHand.event # "EXIT" /\ storagePc # "done"

ExitOK ==
    /\ Joining => ExitIsOnItsWay
    /\ ~Joining => NoExitYet
    /\ mainPc \in {"joinStorage", "deleted"} => grabberPc = "done"
    /\ mainPc = "deleted" => storagePc = "done"

\* Shifting and adding, element by element.
LEMMA ShiftElements ==
    ASSUME NEW S, NEW q \in Seq(S), q # <<>>
    PROVE  /\ Len(QueueShift(q)) = Len(q) - 1 /\ Len(q) \in Nat \ {0}
           /\ \A i \in 1..(Len(q) - 1) : QueueShift(q)[i] = q[i + 1]
           /\ Head(q) = q[1]
BY HeadTailProperties, EmptySeq, LenProperties DEF QueueShift

LEMMA ShiftNoExit ==
    ASSUME NEW S, NEW q \in Seq(S), NoExit(q)
    PROVE  NoExit(QueueShift(q))
<1>1. CASE q = <<>>
  BY <1>1 DEF QueueShift
<1>2. CASE q # <<>>
  BY <1>2, ShiftElements DEF NoExit
<1> QED BY <1>1, <1>2

LEMMA AddExit ==
    ASSUME NEW S, NEW q \in Seq(S), NEW m \in S, NEW limit, NoExit(q)
    PROVE  /\ m.event # "EXIT" => NoExit(QueueAdd(q, m, limit))
           /\ m.event = "EXIT" => ExitIsLast(QueueAdd(q, m, limit))
<1> DEFINE rest == IF QueueIsFull(q, limit) THEN QueueShift(q) ELSE q
<1>1. rest \in Seq(S) /\ NoExit(rest)
  BY ShiftType, ShiftNoExit
<1>2. QueueAdd(q, m, limit) = Append(rest, m)
  BY DEF QueueAdd
<1> HIDE DEF rest
<1>3. /\ Len(Append(rest, m)) = Len(rest) + 1 /\ Len(rest) \in Nat
      /\ \A i \in 1..Len(rest) : Append(rest, m)[i] = rest[i]
      /\ Append(rest, m)[Len(rest) + 1] = m
      /\ Append(rest, m) # <<>>
  BY <1>1, AppendProperties, LenProperties
<1>4. ASSUME m.event # "EXIT" PROVE NoExit(Append(rest, m))
  BY <1>1, <1>3, <1>4 DEF NoExit
<1>5. ASSUME m.event = "EXIT" PROVE ExitIsLast(Append(rest, m))
  BY <1>1, <1>3, <1>5 DEF NoExit, ExitIsLast
<1> QED BY <1>2, <1>4, <1>5

LEMMA ExitInit == Init => ExitOK
<1> SUFFICES ASSUME Init PROVE ExitOK
  OBVIOUS
<1>1. mainPc = "poll" /\ storageQueue = <<>> /\ storagePc = "get"
  BY Zenon DEF Init
<1>2. storageHand.event # "EXIT"
  BY DEF Init, Order, Message
<1> QED BY <1>1, <1>2 DEF ExitOK, Joining, NoExitYet, NoExit

\* What ExitOK says of the storage thread is about these.
exitState == <<storageQueue, storageHand, storagePc>>

\* Steps that leave the storage thread and its queue alone.
LEMMA ExitUnchanged ==
    ASSUME ExitOK, UNCHANGED exitState, Joining' <=> Joining,
           mainPc' \in {"joinStorage", "deleted"} => grabberPc' = "done",
           mainPc' = "deleted" => storagePc' = "done"
    PROVE  ExitOK'
BY DEF ExitOK, exitState, ExitIsOnItsWay, NoExitYet

\* Steps that put a message other than EXIT in storage_queue.
LEMMA ExitSend ==
    ASSUME TypeOK, ExitOK, ~Joining, ~Joining',
           NEW m \in StorageMessages, m.event # "EXIT", ToStorage(m),
           UNCHANGED <<storageHand, storagePc>>
    PROVE  ExitOK'
<1>1. storageQueue \in Seq(StorageMessages) /\ NoExit(storageQueue)
  BY DEF TypeOK, QueuesOK, ExitOK, NoExitYet
<1>2. NoExit(storageQueue')
  BY <1>1, AddExit DEF ToStorage
<1> QED BY <1>2 DEF ExitOK, NoExitYet, Joining

LEMMA ExitSent ==
    ASSUME TypeOK, ExitOK, MainExitStorage
    PROVE  ExitOK'
<1>1. ~Joining /\ Joining' /\ mainPc' = "joinGrabber"
  BY DEF MainExitStorage, MainPast, Joining
<1>2. storageQueue \in Seq(StorageMessages) /\ NoExit(storageQueue)
  BY <1>1 DEF TypeOK, QueuesOK, ExitOK, NoExitYet
<1>3. Order("EXIT") \in StorageMessages /\ Order("EXIT").event = "EXIT"
  BY MessageTypes DEF Order, Message
<1>4. ExitIsLast(storageQueue')
  BY <1>2, <1>3, AddExit DEF MainExitStorage, ToStorage
<1>5. UNCHANGED <<storageHand, storagePc>>
  BY DEF MainExitStorage, MainPast, storageVars
<1> QED BY <1>1, <1>4, <1>5 DEF ExitOK, ExitIsOnItsWay, NoExitYet

LEMMA ExitGet ==
    ASSUME TypeOK, ExitOK, StorageGet
    PROVE  ExitOK'
<1>1. /\ storageQueue \in Seq(StorageMessages) /\ storageQueue # <<>>
      /\ storageQueue' = QueueShift(storageQueue)
      /\ storageHand' = storageQueue[1] /\ storagePc' = "handle"
      /\ storagePc = "get"
  BY ShiftElements DEF TypeOK, QueuesOK, StorageGet
<1>2. UNCHANGED <<mainPc, grabberPc>>
  BY DEF StorageGet, mainVars, grabberVars
<1>3. /\ Len(storageQueue') = Len(storageQueue) - 1
      /\ Len(storageQueue) \in Nat \ {0}
      /\ \A i \in 1..(Len(storageQueue) - 1) :
             storageQueue'[i] = storageQueue[i + 1]
  BY <1>1, ShiftElements
<1>4. storageQueue' = <<>> <=> Len(storageQueue) = 1
  <2>1. storageQueue' \in Seq(StorageMessages)
    BY <1>1, ShiftType
  <2> QED BY <1>3, <2>1, EmptySeq
<1>5. CASE ~Joining
  <2>1. NoExit(storageQueue)
    BY <1>5 DEF ExitOK, NoExitYet
  <2>2. NoExit(storageQueue') /\ storageHand'.event # "EXIT"
    BY <1>1, <1>3, <2>1 DEF NoExit
  <2> QED BY <1>1, <1>2, <1>5, <2>2 DEF ExitOK, NoExitYet, Joining
<1>6. CASE Joining
  <2>1. ExitIsLast(storageQueue)
    BY <1>1, <1>6 DEF ExitOK, ExitIsOnItsWay
  <2>2. CASE Len(storageQueue) = 1
    <3>1. storageQueue' = <<>> /\ storageHand'.event = "EXIT"
      BY <1>1, <1>4, <2>1, <2>2 DEF ExitIsLast
    <3> QED BY <1>1, <1>2, <1>6, <3>1 DEF ExitOK, ExitIsOnItsWay, Joining
  <2>3. CASE Len(storageQueue) # 1
    <3>1. ExitIsLast(storageQueue') /\ storageHand'.event # "EXIT"
      BY <1>1, <1>3, <1>4, <2>1, <2>3 DEF ExitIsLast
    <3> QED BY <1>1, <1>2, <1>6, <3>1 DEF ExitOK, ExitIsOnItsWay, Joining
  <2> QED BY <2>2, <2>3
<1> QED BY <1>5, <1>6

LEMMA ExitHandle ==
    ASSUME TypeOK, ExitOK,
           \/ StorageStart \/ StorageStop \/ StorageImage \/ StorageDiscard
           \/ StorageAverage \/ StorageExit
    PROVE  ExitOK'
<1> USE DEF StorageStart, StorageStop, StorageImage, StorageDiscard,
            StorageAverage, StorageExit, StorageHandle
<1>1. /\ UNCHANGED <<mainPc, grabberPc, storageQueue>>
      /\ storagePc = "handle"
      /\ storagePc' = IF storageHand.event = "EXIT" THEN "done" ELSE "get"
  BY DEF mainVars, grabberVars, queues
<1>2. storageHand'.event = "NONE"
  BY MessageTypes
<1> HIDE DEF StorageStart, StorageStop, StorageImage, StorageDiscard,
             StorageAverage, StorageExit, StorageHandle
<1>3. CASE ~Joining
  BY <1>1, <1>2, <1>3 DEF ExitOK, NoExitYet, Joining
<1>4. CASE Joining
  BY <1>1, <1>2, <1>4 DEF ExitOK, ExitIsOnItsWay, Joining
<1> QED BY <1>3, <1>4

LEMMA ExitMain ==
    ASSUME TypeOK, ExitOK, MainTurn
    PROVE  ExitOK'
<1>1. CASE MainNoMessage \/ MainImage \/ MainAcquisitionStopped
  <2>1. UNCHANGED exitState /\ ~Joining /\ ~Joining'
    BY <1>1 DEF MainNoMessage, MainImage, MainAcquisitionStopped, MainGet,
                queues, storageVars, exitState, Joining
  <2> QED BY <2>1, ExitUnchanged DEF Joining
<1>2. CASE MainSend
  <2>1. outbox \in Seq(MainMessages) /\ outbox # <<>>
    BY <1>2 DEF TypeOK, MainOK, MainSend
  <2>2. Head(outbox) \in MainMessages
    BY <2>1, HeadTailProperties
  <2>3. Head(outbox) \in StorageMessages /\ Head(outbox).event # "EXIT"
    BY <2>2 DEF MainMessages, StorageMessages, Messages
  <2>4. ToStorage(Head(outbox)) /\ UNCHANGED <<storageHand, storagePc>>
    BY <1>2 DEF MainSend, storageVars
  <2>5. ~Joining /\ ~Joining'
    BY <1>2 DEF MainSend, Joining
  <2> QED BY <2>3, <2>4, <2>5, ExitSend
<1>3. CASE MainLoop \/ MainExitGrabber
  <2>1. UNCHANGED exitState /\ ~Joining /\ ~Joining'
    BY <1>3 DEF MainLoop, MainExitGrabber, MainPast, storageVars, exitState,
                Joining
  <2> QED BY <2>1, ExitUnchanged DEF Joining
<1>4. CASE MainExitStorage
  BY <1>4, ExitSent
<1>5. CASE MainJoinGrabber \/ MainJoinStorage
  <2>1. /\ UNCHANGED exitState /\ Joining /\ Joining'
        /\ grabberPc' = grabberPc
    BY <1>5 DEF MainJoinGrabber, MainJoinStorage, MainPast, storageVars,
                grabberVars, exitState, Joining
  <2>2. grabberPc = "done"
    BY <1>5 DEF MainJoinGrabber, MainJoinStorage, MainPast, ExitOK
  <2>3. mainPc' = "deleted" => storagePc = "done"
    BY <1>5 DEF MainJoinGrabber, MainJoinStorage, MainPast
  <2> QED BY <2>1, <2>2, <2>3, ExitUnchanged DEF exitState
<1> QED BY <1>1, <1>2, <1>3, <1>4, <1>5 DEF MainTurn

LEMMA ExitCommand ==
    ASSUME TypeOK, ExitOK, MainCommand
    PROVE  ExitOK'
<1>1. ~Joining /\ ~Joining' /\ UNCHANGED <<storageHand, storagePc>>
  BY DEF MainCommand, CommandStart, CommandStop, CommandGrabber,
         CommandStorageStop, CommandExit, CommandStorageStart, CommandObject,
         CommandCountdown, Serving, storageVars, Joining
<1>2. CASE ToStorage(Order("START"))
  <2>1. Order("START") \in StorageMessages /\ Order("START").event # "EXIT"
    BY MessageTypes DEF Order, Message
  <2> QED BY <1>1, <1>2, <2>1, ExitSend
<1>3. CASE ToStorage(Order("STOP"))
  <2>1. Order("STOP") \in StorageMessages /\ Order("STOP").event # "EXIT"
    BY MessageTypes DEF Order, Message
  <2> QED BY <1>1, <1>3, <2>1, ExitSend
<1>4. CASE UNCHANGED storageQueue
  BY <1>1, <1>4, ExitUnchanged DEF exitState, Joining
<1>5. \/ ToStorage(Order("START")) \/ ToStorage(Order("STOP"))
      \/ UNCHANGED storageQueue
  BY DEF MainCommand, CommandStart, CommandStop, CommandGrabber,
         CommandStorageStop, CommandExit, CommandStorageStart, CommandObject,
         CommandCountdown, queues
<1> QED BY <1>2, <1>3, <1>4, <1>5

LEMMA ExitGrabber ==
    ASSUME TypeOK, ExitOK, Grabber
    PROVE  ExitOK'
<1>1. UNCHANGED exitState /\ mainPc' = mainPc /\ grabberPc # "done"
  BY DEF Grabber, GrabberGet, GrabberNoImage, GrabberImage, GrabberCount,
         GrabberStore, GrabberNothing, GrabberStart, GrabberStop,
         GrabberCommand, GrabberExit, GrabberSwitch, GrabberStep,
         storageVars, mainVars, exitState
<1>2. mainPc \notin {"joinStorage", "deleted"}
  BY <1>1 DEF ExitOK
<1> QED BY <1>1, <1>2, ExitUnchanged DEF Joining

\* ExitOK is inductive together with TypeOK, and implies the properties.
LEMMA ExitNext == TypeOK /\ ExitOK /\ [Next]_vars => ExitOK'
<1> SUFFICES ASSUME TypeOK, ExitOK, [Next]_vars PROVE ExitOK'
  OBVIOUS
<1>1. CASE Storage
  BY <1>1, ExitGet, ExitHandle DEF Storage
<1>2. CASE Terminated \/ UNCHANGED vars
  <2>1. UNCHANGED <<exitState, mainPc, grabberPc>>
    BY <1>2 DEF Terminated, vars, queues, mainVars, grabberVars, storageVars,
                exitState
  <2> QED BY <2>1 DEF ExitOK, exitState, ExitIsOnItsWay, NoExitYet, Joining
<1> QED BY <1>1, <1>2, ExitMain, ExitCommand, ExitGrabber DEF Next

LEMMA ExitFacts == TypeOK /\ ExitOK => ExitIsOrderly
<1> SUFFICES ASSUME TypeOK, ExitOK PROVE ExitIsOrderly
  OBVIOUS
<1>1. mainPc = "deleted" => grabberPc = "done" /\ storagePc = "done"
  BY DEF ExitOK
<1>2. DOMAIN storageQueue = 1..Len(storageQueue)
  BY LenProperties DEF TypeOK, QueuesOK
<1>3. CASE ~Joining
  BY <1>1, <1>2, <1>3 DEF ExitOK, NoExitYet, NoExit, Joining, ExitIsOrderly
<1>4. CASE Joining
  <2>1. ExitIsOnItsWay
    BY <1>4 DEF ExitOK
  <2>2. CASE ExitIsLast(storageQueue) /\ storagePc # "done"
    BY <1>1, <1>2, <2>2 DEF ExitIsLast, ExitIsOrderly
  <2>3. CASE /\ storageQueue = <<>>
             /\ storageHand.event = "EXIT" \/ storagePc = "done"
    BY <1>1, <2>3 DEF ExitIsOrderly
  <2> QED BY <2>1, <2>2, <2>3 DEF ExitIsOnItsWay
<1> QED BY <1>3, <1>4

\* The storage thread ends with an empty queue, its EXIT is never lost to an
\* overflow, and what the threads use is freed after they have ended
\* (fast.c:961-968, fast_storage.c:109-111).
THEOREM TheExitIsOrderly == Spec => []ExitIsOrderly
<1>1. Spec => []ExitOK
  BY ExitInit, ExitNext, TypeCorrect, PTL DEF Spec
<1> QED BY <1>1, ExitFacts, TypeCorrect, PTL
=============================================================================
