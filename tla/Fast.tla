-------------------------------- MODULE Fast --------------------------------
(***************************************************************************)
(* The daemon: the main thread (fast.c), the grabber thread                *)
(* (fast_grabber.c) and the storage thread (fast_storage.c), which share   *)
(* the fields of fast_str and talk through three bounded queues.           *)
(*                                                                         *)
(*   clients -> main -> grabber_queue -> grabber -> server_queue -> main   *)
(*                                        main -> storage_queue -> storage *)
(*                                                                         *)
(* A queue operation is one step, as MessageQueue implements BoundedFifo.  *)
(* A step of a thread holds at most one access to a queue or to a field    *)
(* that another thread writes.  A frame is a number, the order in which    *)
(* the camera delivered it; its pixels, the flux, the previews, the        *)
(* running sum and the keywords, all private to the main thread, are left  *)
(* out.                                                                    *)
(***************************************************************************)
EXTENDS QueueOps, Integers, FiniteSets

CONSTANTS
    ServerMax, GrabberMax, StorageMax, \* the limits of the three queues
    MaxFilesPerDir,  \* MAX_FILES_PER_DIR
    Objects,         \* the names an object can have
    NoDirectory,     \* storage->current before the first prepare_storage
    Sizes,           \* the sizes of a frame that the camera can be set to
    Countdowns,      \* the arguments given to set_countdown
    Commands,        \* the commands that clients give
    MaxCommands,     \* bound: how many commands are given
    MaxFrames        \* bound: how many frames the camera delivers

ASSUME FastAssumption ==
    /\ ServerMax \in Nat \ {0} /\ GrabberMax \in Nat \ {0}
    /\ StorageMax \in Nat \ {0} /\ MaxFilesPerDir \in Nat \ {0}
    /\ NoDirectory \notin Objects /\ Objects # {} /\ Sizes # {}
    /\ Countdowns \subseteq Int
    /\ MaxCommands \in Nat /\ MaxFrames \in Nat

VARIABLES
    \* the queues
    serverQueue, grabberQueue, storageQueue,
    \* fields of fast_str read or written by several threads
    countdown, isAcquisition, isStorage, storedLength, object,
    \* the main thread: is_quit, image_total as the frames added up in it
    \* (<<>> for NULL), total_length, and what it still has to queue
    mainPc, isQuit, imageTotal, totalLength, outbox,
    \* the grabber thread: m.event, the countdown it loaded, and the camera
    grabberPc, grabberEvent, loaded, camera, frameSize,
    \* the storage thread: m, storage->current and storage->nframes
    storagePc, storageHand, current, nframes,
    \* history: every frame with its size and series, the number of series,
    \* the frames written to disk in order, the frames destroyed, the number
    \* of commands given
    acquired, series, written, freed, issued

queues == <<serverQueue, grabberQueue, storageQueue>>
shared == <<countdown, isAcquisition, isStorage, storedLength, object>>
mainVars == <<mainPc, isQuit, imageTotal, totalLength, outbox>>
grabberVars == <<grabberPc, grabberEvent, loaded, camera, frameSize>>
storageVars == <<storagePc, storageHand, current, nframes>>
history == <<acquired, series, written, freed, issued>>
vars == <<queues, shared, mainVars, grabberVars, storageVars, history>>

-----------------------------------------------------------------------------
\* A message: its FAST_MSG event, the frames in its image, the number that
\* the image was divided by, and (history) how many frames had been acquired
\* when the grabber thread caused it, -1 when a client did.
Message(event, frames, length, upto) ==
    [event |-> event, frames |-> frames, length |-> length, upto |-> upto]
Order(event) == Message(event, <<>>, 0, -1)
Notice(event, upto) == Message(event, <<>>, 0, upto)
Image(frame) == Message("IMAGE", <<frame>>, 1, frame)
Average(frames, length, upto) == Message("AVERAGE_IMAGE", frames, length, upto)

IsImage(m) == m.event = "IMAGE"

\* The definitions named Mutated... are mistakes to be noticed: see QueueOps.
MutatedEvicted(queue, limit) == {}            \* the destructor is missing

\* The frames whose image_delete is called when a message is put in a queue.
EvictedFrames(queue, limit) ==
    {QueueEvicted(queue, limit)[i].upto :
        i \in {j \in DOMAIN QueueEvicted(queue, limit) :
                  IsImage(QueueEvicted(queue, limit)[j])}}

\* queue_add_with_destructor on each of the three queues.
ToServer(m) ==
    /\ serverQueue' = QueueAdd(serverQueue, m, ServerMax)
    /\ freed' = freed \cup EvictedFrames(serverQueue, ServerMax)
ToGrabber(m) == grabberQueue' = QueueAdd(grabberQueue, m, GrabberMax)
MutatedStop(m) ==                             \* STOP overtakes the frames
    /\ storageQueue' = IF m.event = "STOP" THEN <<m>> \o storageQueue
                       ELSE QueueAdd(storageQueue, m, StorageMax)
    /\ freed' = freed \cup EvictedFrames(storageQueue, StorageMax)
MutatedExit(m) ==                             \* EXIT overtakes the frames
    /\ storageQueue' = IF m.event = "EXIT" THEN <<m>> \o storageQueue
                       ELSE QueueAdd(storageQueue, m, StorageMax)
    /\ freed' = freed \cup EvictedFrames(storageQueue, StorageMax)
ToStorage(m) ==
    /\ storageQueue' = QueueAdd(storageQueue, m, StorageMax)
    /\ freed' = freed \cup EvictedFrames(storageQueue, StorageMax)

Init ==
    /\ serverQueue = <<>> /\ storageQueue = <<>>
    /\ grabberQueue \in {<<>>, <<Order("START")>>}     \* option -start
    /\ countdown = -1 /\ isAcquisition = FALSE /\ isStorage = FALSE
    /\ storedLength = 0 /\ object \in Objects
    /\ mainPc = "poll" /\ isQuit = FALSE
    /\ imageTotal = <<>> /\ totalLength = 0 /\ outbox = <<>>
    /\ grabberPc = "get" /\ grabberEvent = "NONE" /\ loaded = 0
    /\ camera = FALSE /\ frameSize \in Sizes
    /\ storagePc = "get" /\ storageHand = Order("NONE")
    /\ current = NoDirectory /\ nframes = 0
    /\ acquired = <<>> /\ series = 0 /\ written = <<>>
    /\ freed = {} /\ issued = 0

-----------------------------------------------------------------------------
(* The main thread: one message of server_queue, then the clients.         *)

MainNoMessage ==
    /\ mainPc = "poll" /\ serverQueue = <<>>
    /\ mainPc' = "serve"
    /\ UNCHANGED <<queues, shared, isQuit, imageTotal, totalLength, outbox,
                   grabberVars, storageVars, history>>

MainGet(event) ==
    /\ mainPc = "poll" /\ serverQueue # <<>>
    /\ Head(serverQueue).event = event
    /\ serverQueue' = QueueShift(serverQueue)
    /\ mainPc' = "send"
    /\ UNCHANGED <<grabberQueue, storageQueue, shared, isQuit, grabberVars,
                   storageVars, history>>

MutatedImage ==                               \* total_length is not reset
    /\ MainGet("IMAGE")
    /\ LET m == Head(serverQueue)
           fresh == \/ imageTotal = <<>>
                    \/ acquired[Head(imageTotal)].size # acquired[m.upto].size
       IN /\ imageTotal' = Append(IF fresh THEN <<>> ELSE imageTotal, m.upto)
          /\ totalLength' = totalLength + 1
          /\ \/ outbox' = <<m>>
             \/ outbox' = <<Average(imageTotal', totalLength', m.upto), m>>

\* process_image: the cumulative image starts again when there is none or
\* when the size of the frame has changed; every five seconds a copy of the
\* average goes to the storage, before the frame itself does.
MainImage ==
    /\ MainGet("IMAGE")
    /\ LET m == Head(serverQueue)
           fresh == \/ imageTotal = <<>>
                    \/ acquired[Head(imageTotal)].size # acquired[m.upto].size
       IN /\ imageTotal' = Append(IF fresh THEN <<>> ELSE imageTotal, m.upto)
          /\ totalLength' = (IF fresh THEN 0 ELSE totalLength) + 1
          /\ \/ outbox' = <<m>>
             \/ outbox' = <<Average(imageTotal', totalLength', m.upto), m>>

MainAcquisitionStopped ==
    /\ MainGet("ACQUISITION_STOPPED")
    /\ LET upto == Head(serverQueue).upto
           stop == Notice("STOP", upto)
       IN outbox' = IF imageTotal = <<>> THEN <<stop>>
                    ELSE <<Average(imageTotal, totalLength, upto), stop>>
    /\ UNCHANGED <<imageTotal, totalLength>>

MutatedSend(rest) ==
    /\ mainPc = "send"
    /\ ToStorage(Head(outbox))
    /\ outbox' = rest
    /\ mainPc' = "serve"
    /\ UNCHANGED <<serverQueue, grabberQueue, shared, isQuit, imageTotal,
                   totalLength, grabberVars, storageVars, acquired, series,
                   written, issued>>
MutatedSendOne == MutatedSend(Tail(outbox))   \* back before all was sent
MutatedSendLost == MutatedSend(<<>>)          \* only the first is sent

MainSend ==
    /\ mainPc = "send"
    /\ ToStorage(Head(outbox))
    /\ outbox' = Tail(outbox)
    /\ mainPc' = IF Len(outbox) = 1 THEN "serve" ELSE "send"
    /\ UNCHANGED <<serverQueue, grabberQueue, shared, isQuit, imageTotal,
                   totalLength, grabberVars, storageVars, acquired, series,
                   written, issued>>

\* server_cycle: process_command on a line of a client.  Several lines can
\* be served in one turn, also after the one that asks to exit.
Serving(command) ==
    /\ mainPc = "serve"
    /\ command \in Commands /\ issued < MaxCommands
    /\ issued' = issued + 1
    /\ UNCHANGED <<mainPc, totalLength, outbox, isAcquisition, isStorage,
                   storedLength, grabberVars, storageVars, acquired, series,
                   written>>

\* start: reset_images, which leaves total_length alone.
CommandStart ==
    /\ Serving("start")
    /\ imageTotal' = <<>>
    /\ ToGrabber(Order("START"))
    /\ UNCHANGED <<serverQueue, storageQueue, countdown, object, isQuit, freed>>

CommandStop ==
    /\ Serving("stop")
    /\ ToGrabber(Order("STOP"))
    /\ UNCHANGED <<serverQueue, storageQueue, countdown, object, isQuit,
                   imageTotal, freed>>

\* set_grabber and set_window go to the grabber thread verbatim.
CommandGrabber ==
    /\ Serving("set_grabber")
    /\ ToGrabber(Order("COMMAND"))
    /\ UNCHANGED <<serverQueue, storageQueue, countdown, object, isQuit,
                   imageTotal, freed>>

CommandStorageStart(name) ==
    /\ Serving("storage_start")
    /\ object' = name
    /\ ToStorage(Order("START"))
    /\ UNCHANGED <<serverQueue, grabberQueue, countdown, isQuit, imageTotal>>

CommandStorageStop ==
    /\ Serving("storage_stop")
    /\ ToStorage(Order("STOP"))
    /\ UNCHANGED <<serverQueue, grabberQueue, countdown, object, isQuit,
                   imageTotal>>

CommandObject(name) ==
    /\ Serving("set_object")
    /\ object' = name
    /\ UNCHANGED <<queues, countdown, isQuit, imageTotal, freed>>

CommandCountdown(n) ==
    /\ Serving("set_countdown")
    /\ countdown' = n
    /\ UNCHANGED <<queues, object, isQuit, imageTotal, freed>>

CommandExit ==
    /\ Serving("exit")
    /\ isQuit' = TRUE
    /\ UNCHANGED <<queues, countdown, object, imageTotal, freed>>

MainCommand ==
    \/ CommandStart \/ CommandStop \/ CommandGrabber
    \/ CommandStorageStop \/ CommandExit
    \/ \E name \in Objects : CommandStorageStart(name) \/ CommandObject(name)
    \/ \E n \in Countdowns : CommandCountdown(n)

\* The end of the loop of main(), and what follows it.
MainPast(from, to) ==
    /\ mainPc = from
    /\ mainPc' = to
    /\ UNCHANGED <<shared, isQuit, imageTotal, totalLength, outbox, grabberVars,
                   storageVars, serverQueue, acquired, series, written, issued>>

MainLoop ==
    /\ MainPast("serve", IF isQuit THEN "exitGrabber" ELSE "poll")
    /\ UNCHANGED <<grabberQueue, storageQueue, freed>>

MainExitGrabber ==
    /\ MainPast("exitGrabber", "exitStorage")
    /\ ToGrabber(Order("EXIT"))
    /\ UNCHANGED <<storageQueue, freed>>

MutatedExitStorage ==                         \* no EXIT for the storage
    /\ MainPast("exitStorage", "joinGrabber")
    /\ UNCHANGED <<grabberQueue, storageQueue, freed>>

MainExitStorage ==
    /\ MainPast("exitStorage", "joinGrabber")
    /\ ToStorage(Order("EXIT"))
    /\ UNCHANGED grabberQueue

MainJoinGrabber ==
    /\ grabberPc = "done"
    /\ MainPast("joinGrabber", "joinStorage")
    /\ UNCHANGED <<grabberQueue, storageQueue, freed>>

\* "deleted": past fast_delete.
MainJoinStorage ==
    /\ storagePc = "done"
    /\ MainPast("joinStorage", "deleted")
    /\ UNCHANGED <<grabberQueue, storageQueue, freed>>

MainTurn ==
    \/ MainNoMessage \/ MainImage \/ MainAcquisitionStopped \/ MainSend
    \/ MainLoop \/ MainExitGrabber \/ MainExitStorage
    \/ MainJoinGrabber \/ MainJoinStorage
-----------------------------------------------------------------------------
(* The grabber thread: a message of grabber_queue, if any; a frame of the  *)
(* camera, if any; then the reaction to the message.                       *)

GrabberStep(from, to) ==
    /\ grabberPc = from
    /\ grabberPc' = to
    /\ UNCHANGED <<storageQueue, isStorage, storedLength, object, mainVars,
                   storageVars, written, issued>>

\* queue_get returns the event -1 ("NONE") when there is no message.
GrabberGet ==
    /\ GrabberStep("get", "wait")
    /\ grabberQueue' = QueueShift(grabberQueue)
    /\ grabberEvent' = IF grabberQueue = <<>> THEN "NONE"
                       ELSE Head(grabberQueue).event
    /\ UNCHANGED <<serverQueue, countdown, isAcquisition, loaded, camera,
                   frameSize, acquired, series, freed>>

GrabberNoImage ==
    /\ GrabberStep("wait", "switch")
    /\ UNCHANGED <<serverQueue, grabberQueue, countdown, isAcquisition,
                   grabberEvent, loaded, camera, frameSize, acquired, series,
                   freed>>

\* grabber_wait_image returns a frame only while the camera is acquiring.
GrabberImage ==
    /\ camera /\ Len(acquired) < MaxFrames
    /\ GrabberStep("wait", "count")
    /\ acquired' = Append(acquired, [size |-> frameSize, series |-> series])
    /\ ToServer(Image(Len(acquired)+1))
    /\ UNCHANGED <<grabberQueue, countdown, isAcquisition, grabberEvent,
                   loaded, camera, frameSize, series>>

\* if(fast->countdown > 0) fast->countdown--; is a load and a store, between
\* which the main thread can execute set_countdown.
GrabberCount ==
    /\ GrabberStep("count", IF countdown > 0 THEN "store" ELSE "switch")
    /\ loaded' = IF countdown > 0 THEN countdown ELSE 0
    /\ UNCHANGED <<serverQueue, grabberQueue, countdown, isAcquisition,
                   grabberEvent, camera, frameSize, acquired, series, freed>>

\* The last frame of the countdown: the message taken is replaced by a STOP.
GrabberStore ==
    /\ GrabberStep("store", "switch")
    /\ loaded' = 0
    /\ \/ /\ loaded > 1
          /\ countdown' = loaded - 1
          /\ UNCHANGED <<serverQueue, grabberEvent, freed>>
       \/ /\ loaded = 1
          /\ countdown' = -1
          /\ ToServer(Notice("ACQUISITION_STOPPED", Len(acquired)))
          /\ grabberEvent' = "STOP"
    /\ UNCHANGED <<grabberQueue, isAcquisition, camera, frameSize, acquired,
                   series>>

\* grabber_acquisition_start and grabber_acquisition_stop do nothing while
\* the camera is disconnected: it may then go on, once it is back.
CameraStart == camera' \in {camera, TRUE}
CameraStop == camera' \in {camera, FALSE}

GrabberSwitch(event, to) ==
    /\ GrabberStep("switch", to)
    /\ grabberEvent = event
    /\ grabberEvent' = "NONE"
    /\ UNCHANGED <<grabberQueue, countdown, loaded, acquired>>

GrabberNothing ==
    /\ GrabberSwitch("NONE", "get")
    /\ UNCHANGED <<serverQueue, isAcquisition, camera, frameSize, series, freed>>

GrabberStart ==
    /\ GrabberSwitch("START", "get")
    /\ isAcquisition' = TRUE /\ CameraStart
    /\ series' = series + 1
    /\ UNCHANGED <<serverQueue, frameSize, freed>>

GrabberStop ==
    /\ GrabberSwitch("STOP", "get")
    /\ isAcquisition' = FALSE /\ CameraStop
    /\ ToServer(Notice("ACQUISITION_STOPPED", Len(acquired)))
    /\ UNCHANGED <<frameSize, series>>

\* process_grabber_command: of the parameters only those that decide the
\* size of the next frames, binning for example, are told apart.
GrabberCommand ==
    /\ GrabberSwitch("COMMAND", "get")
    /\ frameSize' \in Sizes
    /\ UNCHANGED <<serverQueue, isAcquisition, camera, series, freed>>

GrabberExit ==
    /\ GrabberSwitch("EXIT", "done")
    /\ CameraStop
    /\ UNCHANGED <<serverQueue, isAcquisition, frameSize, series, freed>>

Grabber ==
    \/ GrabberGet \/ GrabberNoImage \/ GrabberImage \/ GrabberCount
    \/ GrabberStore \/ GrabberNothing \/ GrabberStart \/ GrabberStop
    \/ GrabberCommand \/ GrabberExit

-----------------------------------------------------------------------------
(* The storage thread.                                                     *)

\* queue_get; when it times out the loop goes round without an effect.
StorageGet ==
    /\ storagePc = "get" /\ storageQueue # <<>>
    /\ storageHand' = Head(storageQueue)
    /\ storageQueue' = QueueShift(storageQueue)
    /\ storagePc' = "handle"
    /\ UNCHANGED <<serverQueue, grabberQueue, shared, mainVars, grabberVars,
                   current, nframes, history>>

StorageHandle(event, to) ==
    /\ storagePc = "handle" /\ storageHand.event = event
    /\ storagePc' = to
    /\ storageHand' = Order("NONE")
    /\ UNCHANGED <<queues, countdown, isAcquisition, object, mainVars,
                   grabberVars, acquired, series, issued>>

\* prepare_storage: a new directory, named after fast->object as it is now.
PrepareStorage == current' = object

StorageStart ==
    /\ StorageHandle("START", "get")
    /\ PrepareStorage /\ nframes' = 0
    /\ isStorage' = TRUE /\ storedLength' = 0
    /\ UNCHANGED <<written, freed>>

StorageStop ==
    /\ StorageHandle("STOP", "get")
    /\ isStorage' = FALSE /\ storedLength' = 0
    /\ UNCHANGED <<current, nframes, written, freed>>

MutatedStorageImage ==                        \* off by one
    /\ StorageHandle("IMAGE", "get")
    /\ isStorage
    /\ written' = Append(written, storageHand.upto)
    /\ storedLength' = storedLength + 1
    /\ IF nframes > MaxFilesPerDir
         THEN PrepareStorage /\ nframes' = 1
         ELSE UNCHANGED current /\ nframes' = nframes + 1
    /\ UNCHANGED <<isStorage, freed>>

\* store_image, in a new directory when this one is full.
StorageImage ==
    /\ StorageHandle("IMAGE", "get")
    /\ isStorage
    /\ written' = Append(written, storageHand.upto)
    /\ storedLength' = storedLength + 1
    /\ IF nframes >= MaxFilesPerDir
         THEN PrepareStorage /\ nframes' = 1
         ELSE UNCHANGED current /\ nframes' = nframes + 1
    /\ UNCHANGED <<isStorage, freed>>

MutatedDiscard ==                             \* also when storage is on
    /\ StorageHandle("IMAGE", "get")
    /\ freed' = freed \cup {storageHand.upto}
    /\ UNCHANGED <<isStorage, storedLength, current, nframes, written>>

StorageDiscard ==
    /\ StorageHandle("IMAGE", "get")
    /\ ~isStorage
    /\ freed' = freed \cup {storageHand.upto}
    /\ UNCHANGED <<isStorage, storedLength, current, nframes, written>>

\* store_total_image, or image_delete of the copy: a file is overwritten, or
\* nothing happens.
StorageAverage ==
    /\ StorageHandle("AVERAGE_IMAGE", "get")
    /\ UNCHANGED <<isStorage, storedLength, current, nframes, written, freed>>

StorageExit ==
    /\ StorageHandle("EXIT", "done")
    /\ UNCHANGED <<isStorage, storedLength, current, nframes, written, freed>>

Storage ==
    \/ StorageGet \/ StorageStart \/ StorageStop \/ StorageImage
    \/ StorageDiscard \/ StorageAverage \/ StorageExit

-----------------------------------------------------------------------------
\* The process has ended.
Terminated == mainPc = "deleted" /\ UNCHANGED vars

Next == MainTurn \/ MainCommand \/ Grabber \/ Storage \/ Terminated

Spec == Init /\ [][Next]_vars

\* Each thread keeps running; the clients need not say anything.
Fairness == WF_vars(MainTurn) /\ WF_vars(Grabber) /\ WF_vars(Storage)

FairSpec == Spec /\ Fairness
=============================================================================
