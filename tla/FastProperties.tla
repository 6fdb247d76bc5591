--------------------------- MODULE FastProperties ---------------------------
(***************************************************************************)
(* What the three threads of the daemon owe each other.                    *)
(***************************************************************************)
EXTENDS Fast

\* The messages of some events, and which of them each queue carries.
Messages(events) ==
    {m \in [event : events, frames : Seq(Nat), length : Nat, upto : Int] :
        IsImage(m) => m.upto \in Nat}
ServerMessages == Messages({"IMAGE", "ACQUISITION_STOPPED"})
GrabberMessages == Messages({"START", "STOP", "COMMAND", "EXIT"})
MainMessages == Messages({"IMAGE", "AVERAGE_IMAGE", "STOP"})
StorageMessages == Messages({"IMAGE", "AVERAGE_IMAGE", "START", "STOP", "EXIT"})

QueuesOK ==
    /\ serverQueue \in Seq(ServerMessages)
    /\ grabberQueue \in Seq(GrabberMessages)
    /\ storageQueue \in Seq(StorageMessages)

SharedOK ==
    /\ countdown \in Int
    /\ isAcquisition \in BOOLEAN /\ isStorage \in BOOLEAN
    /\ storedLength \in Nat /\ object \in Objects

MainOK ==
    /\ mainPc \in {"poll", "send", "serve", "exitGrabber", "exitStorage",
                   "joinGrabber", "joinStorage", "deleted"}
    /\ isQuit \in BOOLEAN
    /\ imageTotal \in Seq(Nat) /\ totalLength \in Nat
    /\ outbox \in Seq(MainMessages) /\ (mainPc = "send" <=> outbox # <<>>)

GrabberOK ==
    /\ grabberPc \in {"get", "wait", "count", "store", "switch", "done"}
    /\ grabberEvent \in {"NONE", "START", "STOP", "COMMAND", "EXIT"}
    /\ loaded \in Nat /\ (grabberPc = "store" <=> loaded # 0)
    /\ camera \in BOOLEAN /\ frameSize \in Sizes

StorageOK ==
    /\ storagePc \in {"get", "handle", "done"}
    /\ storageHand \in StorageMessages \cup Messages({"NONE"})
    /\ storagePc = "handle" <=> storageHand.event # "NONE"
    /\ current \in Objects \cup {NoDirectory} /\ nframes \in Nat

HistoryOK ==
    /\ acquired \in Seq([size : Sizes, series : Nat]) /\ series \in Nat
    /\ written \in Seq(Nat) /\ freed \subseteq Nat /\ issued \in Nat

\* Also the protocol of the daemon: each thread gets only the events that it
\* handles, in every place where it may get them.
TypeOK == QueuesOK /\ SharedOK /\ MainOK /\ GrabberOK /\ StorageOK /\ HistoryOK

-----------------------------------------------------------------------------
(* Frames on their way: from the oldest place of the pipeline, the hand of *)
(* the storage thread, to the youngest, the tail of server_queue.          *)

Pipeline == <<storageHand>> \o storageQueue \o outbox \o serverQueue

\* The frames whose single image is somewhere in the pipeline.
ImagesInFlight == {i \in DOMAIN Pipeline : IsImage(Pipeline[i])}
InFlight == {Pipeline[i].upto : i \in ImagesInFlight}
OnDisk == {written[i] : i \in DOMAIN written}

\* The image of every frame that the camera delivered has exactly one owner
\* at any time: a queue, a thread, the disk (written, then deleted), or
\* nobody (deleted by an overflow or because storage is off).  None leaks,
\* none is deleted twice or used after its deletion, as it moves from queue
\* to queue in fast.c:860-863, fast_grabber.c:377 and fast_storage.c:124-134.
OneOwner ==
    /\ InFlight \cup OnDisk \cup freed = 1..Len(acquired)
    /\ Cardinality(ImagesInFlight) + Len(written) + Cardinality(freed)
         = Len(acquired)

\* Frames reach the disk in the order of their acquisition.
WrittenInOrder ==
    \A i, j \in DOMAIN written : i < j => written[i] < written[j]

\* When the storage thread obeys the STOP that an acquisition ended with,
\* every frame of that acquisition has been written or deleted: no frame is
\* left behind it to be dropped because storage went off too early
\* (fast.c:864-867 after fast_grabber.c:384 or 417).
StopComesLast ==
    storageHand.event = "STOP" =>
        \A k \in InFlight : k > storageHand.upto

\* The three threads and their queues do to the frames what FrameFlow
\* promises: a frame is written when it is the oldest that is left, and one
\* is lost only to a full queue or, in its turn, because storage is off
\* (fast_grabber.c:377, fast.c:860-863, fast_storage.c:124-134).
Flow == INSTANCE FrameFlow WITH
    delivered <- Len(acquired), kept <- written, lost <- freed, storing <- isStorage,
    crowded <- \/ QueueIsFull(serverQueue, ServerMax)
               \/ QueueIsFull(storageQueue, StorageMax)
ImplementsFrameFlow == Flow!FlowSpec

-----------------------------------------------------------------------------
(* The cumulative image.                                                   *)

AddsUp(frames, length) ==
    /\ length = Len(frames)
    /\ \A i, j \in DOMAIN frames :
          /\ acquired[frames[i]].size = acquired[frames[j]].size
          /\ i < j => frames[i] < frames[j]

\* The divisor of an average is the number of frames in it, never zero, the
\* frames are distinct and of one size, although reset_images forgets the
\* image and not its length (fast.c:298-318, 378-384, 127-140).
AveragesAreExact ==
    /\ imageTotal # <<>> => AddsUp(imageTotal, totalLength)
    /\ \A i \in DOMAIN Pipeline :
          Pipeline[i].event = "AVERAGE_IMAGE" =>
             /\ Pipeline[i].frames # <<>>
             /\ AddsUp(Pipeline[i].frames, Pipeline[i].length)

\* The comment at fast.c:304, "Cumulative image for the series": the frames
\* of the cumulative image belong to one series.
TotalIsOneSeries ==
    \A i, j \in DOMAIN imageTotal :
        acquired[imageTotal[i]].series = acquired[imageTotal[j]].series

-----------------------------------------------------------------------------
(* Storage.                                                                *)

\* Frames are stored only in a directory that was prepared, into which no
\* more than MAX_FILES_PER_DIR of them go, and the status counts at least
\* those (fast_storage.c:113-134).
StorageReady ==
    /\ nframes <= MaxFilesPerDir
    /\ isStorage => current # NoDirectory /\ storedLength >= nframes

-----------------------------------------------------------------------------
(* The end of the process.                                                 *)

\* EXIT is the last message of a queue, so that it cannot be destroyed by an
\* overflow; the storage thread ends with an empty queue, and does end once
\* it was told to: all that main handed over was dealt with.  And fast_delete,
\* which frees what the threads use, comes after the end of both
\* (fast.c:961-968).
ExitIsOrderly ==
    /\ \A i \in DOMAIN storageQueue :
          storageQueue[i].event = "EXIT" => i = Len(storageQueue)
    /\ storagePc = "done" => storageQueue = <<>>
    /\ mainPc \in {"joinGrabber", "joinStorage", "deleted"} =>
          \/ storageQueue # <<>> /\ storageQueue[Len(storageQueue)].event = "EXIT"
          \/ storageHand.event = "EXIT"
          \/ storagePc = "done"
    /\ mainPc = "deleted" => grabberPc = "done" /\ storagePc = "done"

\* A client that asks to exit ends the process ("Broadcast EXIT message",
\* fast.c:961-966): both threads get their message and are joined.
ShutdownCompletes == isQuit ~> mainPc = "deleted"

\* Every frame is eventually written or deleted, as long as nobody quits.
FramesSettle ==
    \A k \in 1..MaxFrames :
        Len(acquired) >= k ~> isQuit \/ k \in OnDisk \cup freed
=============================================================================
