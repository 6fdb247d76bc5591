----------------------------- MODULE AndorBuffers -----------------------------
(***************************************************************************)
(* The driver grabber_andor.c under grabber_worker of fast_grabber.c: the  *)
(* buffers that go round between the driver and the SDK of the camera.     *)
(*                                                                         *)
(* chunks, a hash table of the buffers that the SDK has, is there to free  *)
(* them when the acquisition stops.  A buffer is its address; what malloc  *)
(* returns is any address that is free.  Of the settings there is one, the *)
(* binning, on which the size of an image depends.                         *)
(***************************************************************************)
EXTENDS Naturals, Sequences, FiniteSets

CONSTANTS
    Addresses,      \* bound on the buffers there are at a time
    Binnings,       \* settings of "AOIBinning"
    RingSize,       \* 100 buffers are queued by a start
    MaxFaults,      \* calls of the SDK that may fail
    NoFrame         \* before the first frame

VARIABLES
    binning,        \* the setting of the camera
    acquiring,      \* "CameraAcquiring"
    heap,           \* the addresses that are allocated
    chunks,         \* keys of grabber->chunks
    queue,          \* empty buffers in the SDK, with their sizes
    filled,         \* filled ones, and the binning they were exposed with
    adding,         \* buffers that grabber_acquisition_start has still to queue
    faults,         \* failures so far
    freedTwice,     \* history: addresses that were freed without being allocated
    frame           \* history: the last frame, its keyword BINNING and its exposure

vars == <<binning, acquiring, heap, chunks, queue, filled, adding, faults, freedTwice, frame>>

\* An empty buffer, of the size of an image of now ("ImageSizeBytes").
Buffer(b) == [buf |-> b, size |-> binning]

\* A filled one.
Filled(buffer) == [buf |-> buffer.buf, size |-> buffer.size, exposed |-> binning]

\* A buffer for images of one binning is large enough for those of a coarser.
LargeEnough(buffer) == buffer.size <= binning

Buffers(s) == {s[i].buf : i \in DOMAIN s}

\* May a call of the SDK fail once more?
Fault == faults < MaxFaults /\ faults' = faults + 1
NoFault == faults' = faults

\* grabber_create
Init ==
    /\ binning \in Binnings /\ acquiring = FALSE
    /\ heap = {} /\ chunks = {} /\ queue = <<>> /\ filled = <<>>
    /\ adding = 0 /\ faults = 0 /\ freedTwice = {} /\ frame = NoFrame

-----------------------------------------------------------------------------
\* grabber_add_buffer, with the other keys of the table; "done" is what the
\* caller frees afterwards.  A buffer that the SDK refuses is freed, and
\* inserted nevertheless; g_hash_table_insert frees a key that it knows.
AddBuffer(known, done) ==
    \E b \in Addresses \ heap :
        /\ \/ /\ NoFault
              /\ queue' = Append(queue, Buffer(b))
              /\ heap' = (heap \cup ({b} \ known)) \ done
              /\ freedTwice' = freedTwice \cup (done \ heap)
           \/ /\ Fault /\ queue' = queue
              /\ heap' = heap \ done
              /\ freedTwice' = freedTwice \cup (done \ heap) \cup ({b} \cap known)
        /\ chunks' = known \cup {b}

\* AT_Flush: the SDK forgets the buffers it has.
Flush == queue' = <<>> /\ filled' = <<>>

\* grabber_acquisition_stop, with grabber_cleanup.
AcquisitionStop ==
    /\ acquiring' = FALSE
    /\ Flush
    /\ chunks' = {} /\ heap' = heap \ chunks
    /\ freedTwice' = freedTwice \cup (chunks \ heap)

-----------------------------------------------------------------------------
(* The messages of grabber_worker. *)

\* Enough addresses for another ring and a buffer that is being copied.
MayStart ==
    /\ Cardinality(heap) + RingSize < Cardinality(Addresses)
    /\ Len(queue) + Len(filled) + RingSize < Cardinality(Addresses)

\* FAST_MSG_START, also while the camera is acquiring.
Start ==
    /\ adding = 0 /\ MayStart /\ adding' = RingSize
    /\ UNCHANGED <<binning, acquiring, heap, chunks, queue, filled, faults, freedTwice, frame>>

\* One turn of the loop of grabber_acquisition_start.
StartAdd ==
    /\ adding > 1 /\ adding' = adding - 1
    /\ AddBuffer(chunks, {})
    /\ UNCHANGED <<binning, acquiring, filled, frame>>

\* The last turn, and "AcquisitionStart".
StartLast ==
    /\ adding = 1 /\ adding' = 0
    /\ AddBuffer(chunks, {})
    /\ acquiring' = TRUE
    /\ UNCHANGED <<binning, filled, frame>>

\* FAST_MSG_STOP
Stop ==
    /\ adding = 0
    /\ AcquisitionStop
    /\ UNCHANGED <<binning, adding, faults, frame>>

\* A camera that is acquiring is stopped before a setting changes, and then
\* started again.
StopToSet ==
    IF acquiring THEN AcquisitionStop /\ adding' = RingSize
    ELSE UNCHANGED <<acquiring, heap, chunks, queue, filled, freedTwice, adding>>

\* FAST_MSG_COMMAND: process_grabber_command.
Command ==
    /\ adding = 0
    /\ StopToSet
    /\ binning' \in Binnings
    /\ UNCHANGED <<faults, frame>>

-----------------------------------------------------------------------------
(* grabber_wait_image *)

\* AT_WaitBuffer ran out of time, or had no data and then nothing in time.
NoImage == adding = 0 /\ filled = <<>> /\ UNCHANGED vars

\* "wrong buffer returned": it is not in the table.
WrongBuffer ==
    /\ adding = 0 /\ filled # <<>> /\ Head(filled).buf \notin chunks
    /\ filled' = Tail(filled)
    /\ UNCHANGED <<binning, acquiring, heap, chunks, queue, adding, faults, freedTwice, frame>>

\* The buffer is taken out of the table, another is queued, the image is
\* copied with its keywords, and the buffer is freed.
WaitImage ==
    /\ adding = 0 /\ filled # <<>> /\ Head(filled).buf \in chunks
    /\ AddBuffer(chunks \ {Head(filled).buf}, {Head(filled).buf})
    /\ frame' = [BINNING |-> binning, exposed |-> Head(filled).exposed]
    /\ filled' = Tail(filled)
    /\ UNCHANGED <<binning, acquiring, adding>>

\* The camera fills the oldest of its buffers.
Exposure ==
    /\ acquiring /\ queue # <<>>
    /\ queue' = Tail(queue)
    /\ filled' = Append(filled, Filled(Head(queue)))
    /\ UNCHANGED <<binning, acquiring, heap, chunks, adding, faults, freedTwice, frame>>

Next ==
    \/ Start \/ StartAdd \/ StartLast \/ Stop \/ Command
    \/ NoImage \/ WrongBuffer \/ WaitImage \/ Exposure

Spec == Init /\ [][Next]_vars

-----------------------------------------------------------------------------
\* As long as no call fails, the table is exactly what the SDK has, each
\* buffer once, and nothing else stays allocated: no buffer leaks or is known
\* as a "wrong buffer", whatever the order of starts, stops, commands and
\* frames; and while the camera is acquiring the ring does not shrink
\* (grabber_andor.c:366-403, 446-451).  The camera never writes an image into
\* a buffer that is too small for it, though the size of the images changes
\* (fast_grabber.c:178, grabber_andor.c:374).
RingIsKept ==
    /\ faults = 0 =>
        /\ chunks = Buffers(queue \o filled) /\ heap = chunks
        /\ Cardinality(chunks) = Len(queue) + Len(filled)
        /\ acquiring /\ adding = 0 => Cardinality(chunks) >= RingSize
    /\ \A i \in DOMAIN queue : LargeEnough(queue[i])

\* The keywords of a frame, read when it is fetched, are those of its
\* exposure (grabber_andor.c:470).
FramesTellTheirBinning == frame # NoFrame => frame.BINNING = frame.exposed
=============================================================================
